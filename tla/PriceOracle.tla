------------------------------- MODULE PriceOracle -------------------------------
(***************************************************************************)
(* contracts/price_oracle: prices that several feeders report per currency *)
(* pair, their median, a ring of past medians, limits per update, peg      *)
(* flags and conversion.  Prices are scaled by Unit (10 000 000 in the     *)
(* code); two pairs, each the reverse of the other, stand for all.  The    *)
(* pause flag and the fallback feed are other contracts'.  BaseCurrency    *)
(* and MaxDeviation are written and never read, and left out.              *)
(***************************************************************************)
EXTENDS Integers, FiniteSets, Sequences

CONSTANTS
  Feeders, Admins,
  Prices,            \* reported prices
  ChangeLimits,      \* max_change_bps
  Pegs,              \* [ratio, tolerance, autoFlag] of peg configurations
  FallbackPrices,    \* what a fallback feed may answer
  FeederCounts,      \* min_fresh_feeders asked for
  Ages,              \* max_staleness_secs asked for
  Quantities,        \* amounts converted
  Decimals,          \* decimals converted between
  Unit,
  HistoryCap,        \* PRICE_HISTORY_CAP
  MaxStaleness,      \* MAX_STALENESS_SECS
  DefaultMinFresh,   \* MIN_FRESH_FEEDERS_DEFAULT
  MaxFeeders,        \* MAX_FEEDERS
  OracleDelay,       \* UPGRADE_TIMELOCK_DELAY
  OracleMaxTime      \* bound

VARIABLES
  oracleAdmin, oracleUpgrade,
  feeders,      \* Feeder
  minFresh,     \* MinFreshFeeders
  pairs,        \* per pair: its keys (see NewPair)
  oraclePaused, \* access_control's flag
  published,    \* history: medians per pair, as [time, price], the last one of each time
  strayed,      \* history: pairs reported off an auto_flag peg since the admin last lifted the flag
  oracleNow

state == <<oracleAdmin, oracleUpgrade, feeders, minFresh, pairs, oraclePaused, published, strayed>>
vars  == <<state, oracleNow>>

Pairs == {"base/quote", "quote/base"}
ReversePair(p) == CHOOSE q \in Pairs : q # p

NoPrice == [price |-> 0, time |-> -1]
NoPeg   == [ratio |-> 0, tolerance |-> 0, autoFlag |-> FALSE]

(* The keys of a pair: FeederPrice, PriceFeeders, PriceHistory,            *)
(* MaxRateChange (-1: absent), PegConfig, PegFlagged, MaxStaleness and     *)
(* what the FallbackFeed answers (0: no such feed).                        *)
NewPair ==
  [quotes |-> [f \in Feeders |-> NoPrice], order |-> <<>>, ring |-> [slots |-> <<>>, next |-> 0],
   limit |-> -1, peg |-> NoPeg, flagged |-> FALSE, staleness |-> MaxStaleness, fallback |-> 0]

Init ==
  /\ oracleAdmin \in Admins /\ oracleUpgrade = -1
  /\ feeders = {}
  /\ minFresh = DefaultMinFresh
  /\ pairs = [p \in Pairs |-> NewPair]
  /\ oraclePaused = FALSE
  /\ published = [p \in Pairs |-> <<>>] /\ strayed = {}
  /\ oracleNow = 0

-----------------------------------------------------------------------------
(* Aggregation                                                             *)

(* The exchange sort of calculate_median: for each i a pass over all j >= i*)
(* that leaves the least of them at i.                                     *)

Exchanged(t, i, j) == IF t[j] < t[i] THEN [t EXCEPT ![i] = t[j], ![j] = t[i]] ELSE t

Pass(t, i, to) ==
  LET turn[j \in 0 .. to] == IF j < i THEN t ELSE Exchanged(turn[j - 1], i, j) IN turn[to]

(* Mutant: the inner loop stops before the last price.                     *)
SortedButLast(s) ==
  LET pass[i \in 0 .. Len(s)] == IF i = 0 THEN s ELSE Pass(pass[i - 1], i, Len(s) - 1) IN pass[Len(s)]

Sorted(s) ==
  LET pass[i \in 0 .. Len(s)] == IF i = 0 THEN s ELSE Pass(pass[i - 1], i, Len(s)) IN pass[Len(s)]

CalculateMedian(prices) ==
  LET s == Sorted(prices)   n == Len(prices)
  IN IF n = 0 THEN 0 ELSE IF n % 2 = 1 THEN s[n \div 2 + 1] ELSE (s[n \div 2] + s[n \div 2 + 1]) \div 2

(* Prices that are not stale, in the order the feeders first reported;     *)
(* those of removed feeders included.                                      *)
Fresh(k) ==
  LET kept[n \in 0 .. Len(k.order)] ==
        IF n = 0 THEN <<>>
        ELSE IF oracleNow - k.quotes[k.order[n]].time <= k.staleness THEN Append(kept[n - 1], k.order[n])
        ELSE kept[n - 1]
  IN kept[Len(k.order)]

Oldest(times) == CHOOSE t \in times : \A u \in times : t <= u

Unavailable == [ok |-> FALSE, price |-> 0, time |-> 0]

GetPrice(k) ==
  LET fresh == Fresh(k)
  IN IF fresh = <<>>
     THEN IF k.fallback > 0 THEN [ok |-> TRUE, price |-> k.fallback, time |-> oracleNow] ELSE Unavailable
     ELSE IF Len(fresh) < minFresh THEN Unavailable
     ELSE [ok |-> TRUE, price |-> CalculateMedian([i \in DOMAIN fresh |-> k.quotes[fresh[i]].price]),
           time |-> Oldest({k.quotes[fresh[i]].time : i \in DOMAIN fresh})]

-----------------------------------------------------------------------------
(* History                                                                 *)

(* Slots are counted from 0 in the code; the newest is the one before next.*)
RecordPriceSnapshot(ring, snapshot) ==
  LET len == Len(ring.slots)
      newest == (ring.next + HistoryCap - 1) % HistoryCap
  IN IF len > 0 /\ newest < len /\ ring.slots[newest + 1].time = snapshot.time
     THEN [ring EXCEPT !.slots[newest + 1] = snapshot]
     ELSE [slots |-> IF len < HistoryCap THEN Append(ring.slots, snapshot)
                     ELSE [ring.slots EXCEPT ![ring.next + 1] = snapshot],
           next |-> (ring.next + 1) % HistoryCap]

(* The latest snapshot not after t; of equal times the last slot wins.     *)
GetPriceAt(k, t) ==
  LET slots == k.ring.slots
      best[n \in 0 .. Len(slots)] ==
        IF n = 0 THEN NoPrice
        ELSE IF slots[n].time <= t /\ slots[n].time >= best[n - 1].time THEN slots[n]
        ELSE best[n - 1]
  IN best[Len(slots)]

Published(log, snapshot) ==
  IF log # <<>> /\ log[Len(log)].time = snapshot.time THEN [log EXCEPT ![Len(log)] = snapshot]
  ELSE Append(log, snapshot)

-----------------------------------------------------------------------------
(* Reporting a price                                                       *)

Abs(n) == IF n < 0 THEN -n ELSE n

ComputeReciprocal(price) == (Unit * Unit) \div price

(* Within 1% of the reverse pair's price, where that has one.              *)
ReciprocalOk(p, price) ==
  LET back == GetPrice(pairs[ReversePair(p)])   expected == ComputeReciprocal(price)
  IN back.ok => Abs(expected - back.price) <= (expected * 100) \div 10000

RateChangeOk(k, f, price) ==
  k.limit # -1 /\ k.quotes[f] # NoPrice =>
    (Abs(price - k.quotes[f].price) * 10000) \div k.quotes[f].price <= k.limit

OffPeg(k, price) ==
  k.peg # NoPeg /\ Abs(price - k.peg.ratio) > (k.peg.ratio * k.peg.tolerance) \div 10000

Blocked(k) == k.peg # NoPeg /\ k.flagged

Reported(k, f, price) ==
  LET known == \E i \in DOMAIN k.order : k.order[i] = f
  IN [k EXCEPT !.quotes = [k.quotes EXCEPT ![f] = [price |-> price, time |-> oracleNow]],
               !.order = IF known THEN k.order ELSE Append(k.order, f)]

SetPrice(f, p, price) ==
  LET k == pairs[p]
      new == Reported(k, f, price)
      median == GetPrice(new)
      snapshot == [price |-> median.price, time |-> oracleNow]
  IN /\ f \in feeders /\ ~oraclePaused
     /\ price > 0
     /\ ReciprocalOk(p, price)
     /\ RateChangeOk(k, f, price)
     /\ ~Blocked(k)
     /\ \/ /\ OffPeg(k, price) /\ k.peg.autoFlag
           /\ pairs' = [pairs EXCEPT ![p].flagged = TRUE]
           /\ strayed' = strayed \cup {p}
           /\ UNCHANGED published
        \/ /\ ~OffPeg(k, price)
           /\ pairs' = [pairs EXCEPT ![p] =
                IF median.ok THEN [new EXCEPT !.ring = RecordPriceSnapshot(k.ring, snapshot)] ELSE new]
           /\ published' = [published EXCEPT ![p] =
                IF median.ok THEN Published(published[p], snapshot) ELSE published[p]]
           /\ UNCHANGED strayed
     /\ UNCHANGED <<oracleAdmin, oracleUpgrade, feeders, minFresh, oraclePaused, oracleNow>>

-----------------------------------------------------------------------------
(* The admin's settings                                                    *)

AddFeeder(f) == feeders' = feeders \cup {f} /\ UNCHANGED <<oracleAdmin, oracleUpgrade, minFresh, pairs, strayed>>
RemoveFeeder(f) == feeders' = feeders \ {f} /\ UNCHANGED <<oracleAdmin, oracleUpgrade, minFresh, pairs, strayed>>
SetMinFreshFeeders(n) ==
  /\ n >= 1 /\ n <= MaxFeeders
  /\ minFresh' = n
  /\ UNCHANGED <<oracleAdmin, oracleUpgrade, feeders, pairs, strayed>>

SetPair(p, k) ==
  pairs' = [pairs EXCEPT ![p] = k] /\ UNCHANGED <<oracleAdmin, oracleUpgrade, feeders, minFresh, strayed>>
Lift(p, k) ==
  /\ pairs' = [pairs EXCEPT ![p] = k] /\ strayed' = strayed \ {p}
  /\ UNCHANGED <<oracleAdmin, oracleUpgrade, feeders, minFresh>>
SetMaxRateChangePerUpdate(p, bps) == bps <= 10000 /\ SetPair(p, [pairs[p] EXCEPT !.limit = bps])

(* Mutant: a new peg starts unflagged.                                     *)
SetPegConfigUnflagged(p, peg) ==
  /\ peg.ratio > 0 /\ peg.tolerance <= 10000
  /\ SetPair(p, [pairs[p] EXCEPT !.peg = peg, !.flagged = FALSE])

SetPegConfig(p, peg) ==
  /\ peg.ratio > 0 /\ peg.tolerance <= 10000
  /\ SetPair(p, [pairs[p] EXCEPT !.peg = peg])
RemovePegConfig(p) == pairs[p].peg # NoPeg /\ Lift(p, [pairs[p] EXCEPT !.peg = NoPeg, !.flagged = FALSE])
ClearPegFlag(p) == Lift(p, [pairs[p] EXCEPT !.flagged = FALSE])
SetMaxStaleness(p, n) == n > 0 /\ SetPair(p, [pairs[p] EXCEPT !.staleness = n])
SetFallbackFeed(p, price) == SetPair(p, [pairs[p] EXCEPT !.fallback = price])
RemoveFallbackFeed(p) == SetPair(p, [pairs[p] EXCEPT !.fallback = 0])

TransferAdmin(a) == oracleAdmin' = a /\ UNCHANGED <<oracleUpgrade, feeders, minFresh, pairs, strayed>>
ProposeUpgrade == oracleUpgrade' = oracleNow /\ UNCHANGED <<oracleAdmin, feeders, minFresh, pairs, strayed>>
ExecuteUpgrade ==
  /\ oracleUpgrade # -1 /\ oracleNow >= oracleUpgrade + OracleDelay
  /\ oracleUpgrade' = -1
  /\ UNCHANGED <<oracleAdmin, feeders, minFresh, pairs, strayed>>

Setting ==
  /\ \/ \E f \in Feeders : AddFeeder(f) \/ RemoveFeeder(f)
     \/ \E n \in FeederCounts : SetMinFreshFeeders(n)
     \/ \E p \in Pairs :
          \/ \E bps \in ChangeLimits : SetMaxRateChangePerUpdate(p, bps)
          \/ \E peg \in Pegs : SetPegConfig(p, peg)
          \/ RemovePegConfig(p) \/ ClearPegFlag(p) \/ RemoveFallbackFeed(p)
          \/ \E n \in Ages : SetMaxStaleness(p, n)
          \/ \E price \in FallbackPrices : SetFallbackFeed(p, price)
     \/ \E a \in Admins : TransferAdmin(a)
     \/ ProposeUpgrade \/ ExecuteUpgrade
  /\ UNCHANGED <<oraclePaused, published, oracleNow>>

SetPause(b) ==
  /\ oraclePaused' = b
  /\ UNCHANGED <<oracleAdmin, oracleUpgrade, feeders, minFresh, pairs, published, strayed, oracleNow>>

Tick == oracleNow < OracleMaxTime /\ oracleNow' = oracleNow + 1 /\ UNCHANGED state

Next ==
  \/ \E f \in Feeders, p \in Pairs, price \in Prices : SetPrice(f, p, price)
  \/ Setting
  \/ \E b \in BOOLEAN : SetPause(b)
  \/ Tick

Spec == Init /\ [][Next]_vars

-----------------------------------------------------------------------------
(* Conversion                                                              *)

Failed == -1

Convert(amount, price) == LET c == (amount * price) \div Unit IN IF c <= 0 THEN Failed ELSE c

Compute10Pow(n) ==
  LET power[k \in 0 .. n] == IF k = 0 THEN 1 ELSE 10 * power[k - 1]
  IN IF n > 10 THEN Failed ELSE power[n]

ConvertWithDecimals(amount, price, from, to) ==
  LET c == Convert(amount, price)
      scale == Compute10Pow(Abs(from - to))
      r == IF from >= to THEN c \div scale ELSE c * scale
  IN IF c = Failed \/ scale = Failed \/ r <= 0 THEN Failed ELSE r

-----------------------------------------------------------------------------
(* What could be wrong                                                     *)

(* While feeders have fresh prices, get_price answers their median: no     *)
(* more than half of the fresh prices lie below it, and no more than half  *)
(* above it; it needs the configured number of them, none of them stale.   *)
MedianOfFresh ==
  \A p \in Pairs :
    LET k == pairs[p]   fresh == Fresh(k)   m == GetPrice(k)
        below == {i \in DOMAIN fresh : k.quotes[fresh[i]].price < m.price}
        above == {i \in DOMAIN fresh : k.quotes[fresh[i]].price > m.price}
    IN m.ok /\ fresh # <<>> =>
         /\ 2 * Cardinality(below) <= Len(fresh) /\ 2 * Cardinality(above) <= Len(fresh)
         /\ Len(fresh) >= minFresh /\ oracleNow - m.time <= k.staleness

(* The ring answers for the last HistoryCap times at which a median was    *)
(* published with the last median of that time, however often it wrapped.  *)
HistoryFaithful ==
  \A p \in Pairs :
    \A i \in DOMAIN published[p] :
      i > Len(published[p]) - HistoryCap =>
        GetPriceAt(pairs[p], published[p][i].time) = published[p][i]

(* From the report that left an auto_flag peg until the admin clears the   *)
(* flag or removes the peg, a pair stands still: no feeder's price, no     *)
(* median and no snapshot of it changes, whichever pegs the admin sets in  *)
(* between (set_price, set_peg_config).  And no pair is refused for a flag *)
(* that was lifted, not even under a peg set later.  A peg without         *)
(* auto_flag only refuses the one price.                                   *)
StrayedPairWaitsStep ==
  \A p \in Pairs :
    /\ p \in strayed =>
         /\ pairs'[p].quotes = pairs[p].quotes /\ pairs'[p].ring = pairs[p].ring
         /\ published'[p] = published[p]
    /\ Blocked(pairs'[p]) => p \in strayed'
StrayedPairWaits == [][StrayedPairWaitsStep]_vars

(* convert and convert_with_decimals never give more than the price and    *)
(* the decimals say, in either direction of rescaling.                     *)
ConversionRoundsDown ==
  \A p \in Pairs : LET m == GetPrice(pairs[p]) IN m.ok =>
    \A amount \in Quantities, from, to \in Decimals :
      LET r == ConvertWithDecimals(amount, m.price, from, to)
          scale == Compute10Pow(Abs(from - to))
      IN r # Failed => IF from >= to THEN r * scale * Unit <= amount * m.price
                       ELSE r * Unit <= amount * m.price * scale

(* A price another contract reads is what the feeders reported: the median *)
(* of fresh reports, the recorded history and the conversions.             *)
PricesFaithful == MedianOfFresh /\ HistoryFaithful /\ ConversionRoundsDown
=============================================================================
