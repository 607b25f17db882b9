---------------------------- MODULE TreasuryProofs ----------------------------
(***************************************************************************)
(* Theorems about Treasury for every set of tokens, signers and amounts,   *)
(* every sequence of calls and every clock.                                *)
(***************************************************************************)
EXTENDS Treasury, FiniteSums

-------------------------------------------------------------------------------
(* What the contract's arithmetic returns.                                 *)

LEMMA BpsOfInt == \A n \in Int, b \in Nat : BpsOf(n, b) \in Int
BY DEF BpsOf

LEMMA BpsOfNat == \A n \in Nat, b \in Nat : BpsOf(n, b) \in Nat
BY DEF BpsOf

LEMMA BpsOfBound == \A n \in Nat, b \in Nat : 10000 * BpsOf(n, b) <= n * b
BY DEF BpsOf

LEMMA InputsOk ==
  /\ \A n \in Amounts : n \in Nat /\ n > 0
  /\ \A b \in Rates : b \in Nat /\ b \in 0..10000
  /\ \A c \in Caps : c \in Nat
<1>1. \A n \in Amounts : n \in Nat /\ n > 0
  BY AmountsOk, SMTT(30)
<1>2. \A b \in Rates : b \in Nat /\ b \in 0..10000
  BY AmountsOk, SMTT(30)
<1>3. \A c \in Caps : c \in Nat
  BY AmountsOk, SMTT(30)
<1>4. QED
  BY <1>1, <1>2, <1>3

LEMMA FiniteAddress == \A S \in SUBSET Address : IsFiniteSet(S)
<1>1. IsFiniteSet(Address)
  BY AddressesOk
<1>2. QED
  BY <1>1, FS_Subset

(* The reserve's part of a fee is at most the fee.                         *)
LEMMA EarmarkedType ==
  ASSUME AdminOk, NEW n \in Nat
  PROVE  Earmarked(n) \in Nat /\ Earmarked(n) <= n
<1>1. reserveBps \in Nat /\ reserveBps <= 10000
  BY DEF AdminOk
<1>2. Earmarked(n) \in Nat
  BY <1>1, BpsOfNat DEF Earmarked
<1>3. 10000 * Earmarked(n) <= n * reserveBps
  BY <1>1, BpsOfBound DEF Earmarked
<1>4. n * reserveBps <= n * 10000
  BY <1>1
<1>5. QED
  BY <1>1, <1>2, <1>3, <1>4

LEMMA ShareType ==
  ASSUME TypeOK, NEW t \in Tokens, dist.epoch > 0
  PROVE  Share(t) \in Int
<1>1. dist.config.stakeholders # {} /\ dist.config.stakeholders \subseteq Address /\ dist.config.bps \in Nat
  BY DEF TypeOK, DistOk, DistRecord
<1>2. IsFiniteSet(dist.config.stakeholders)
  BY <1>1, FiniteAddress
<1>3. Cardinality(dist.config.stakeholders) \in Nat \ {0}
  BY <1>1, <1>2, FS_CardinalityType, FS_EmptySet
<1>4. account[t].collected \in Int
  BY DEF TypeOK, AccountRecord
<1>5. BpsOf(account[t].collected, dist.config.bps) \in Int
  BY <1>1, <1>4, BpsOfInt
<1>6. QED
  BY <1>3, <1>5 DEF Share

(* A sweep's shares add up to no more than what is swept, the dust being   *)
(* the rest: splits in force add up to 10000.                              *)
LEMMA SweepIsExact ==
  ASSUME TypeOK, splits # NoSplits, NEW n \in Nat
  PROVE  SweptShares(n) \in Nat /\ SweptShares(n) <= n /\ Dust(n) = n - SweptShares(n)
<1> DEFINE D == DOMAIN splits.shares
           bps == [i \in D |-> splits.shares[i].bps]
           cut == [i \in D |-> BpsOf(n, splits.shares[i].bps)]
<1>1. splits.shares \in Seq(ShareRecord) /\ SumOver(bps, D) = 10000
  <2>1. splits \in Splits /\ SplitsOk(splits)
    BY DEF TypeOK, PayeesOk
  <2>2. splits.shares \in Seq(ShareRecord)
    BY <2>1, SplitInputsOk
  <2>3. SumOver(bps, D) = 10000
    BY <2>1 DEF SplitsOk
  <2>4. QED
    BY <2>2, <2>3
<1>2. D = 1..Len(splits.shares) /\ Len(splits.shares) \in Nat
  BY <1>1
<1>3. IsFiniteSet(D)
  BY <1>2, FS_Interval
<1>4. \A i \in D : bps[i] \in Nat /\ cut[i] \in Nat /\ 10000 * cut[i] <= n * bps[i]
  <2>1. \A i \in D : splits.shares[i].bps \in Nat
    <3>1. \A i \in D : splits.shares[i] \in ShareRecord
      BY <1>1
    <3>2. QED
      BY <3>1 DEF ShareRecord
  <2>2. \A i \in D : bps[i] \in Nat
    BY <2>1
  <2>3. \A i \in D : cut[i] \in Nat
    BY <2>1, BpsOfNat
  <2>4. SUFFICES ASSUME NEW i \in D
                 PROVE  bps[i] \in Nat /\ cut[i] \in Nat /\ 10000 * cut[i] <= n * bps[i]
    OBVIOUS
  <2>5. 10000 * BpsOf(n, splits.shares[i].bps) <= n * splits.shares[i].bps
    <3>1. splits.shares[i].bps \in Nat
      BY <2>1
    <3> HIDE DEF D, cut, bps
    <3>2. QED
      BY <3>1, BpsOfBound
  <2>6. cut[i] = BpsOf(n, splits.shares[i].bps) /\ bps[i] = splits.shares[i].bps
    OBVIOUS
  <2>7. bps[i] \in Nat /\ cut[i] \in Nat
    BY <2>2, <2>3
  <2> HIDE DEF D, cut, bps
  <2>8. 10000 * cut[i] <= n * bps[i]
    BY <2>5, <2>6
  <2>9. QED
    BY <2>7, <2>8
<1>5. SumOver(cut, D) \in Nat
  <2> HIDE DEF D, cut
  <2>1. QED
    BY <1>3, <1>4, SumNat
<1>6. 10000 * SumOver(cut, D) <= n * SumOver(bps, D)
  <2> HIDE DEF D, cut, bps
  <2>1. \A i \in D : cut[i] \in Int /\ bps[i] \in Int
    BY <1>4
  <2>2. QED
    BY <1>3, <1>4, <2>1, SumScaled
<1>7. SweptShares(n) = SumOver(cut, D)
  BY DEF SweptShares
<1>8. SweptShares(n) \in Nat /\ SweptShares(n) <= n
  <2> HIDE DEF D, cut, bps
  <2>1. QED
    BY <1>1, <1>5, <1>6, <1>7
<1>9. Dust(n) = n - SweptShares(n)
  BY <1>8, MaxPair DEF Dust
<1>10. QED
  BY <1>8, <1>9

LEMMA DistributableType ==
  ASSUME NEW acc \in AccountRecord, Distributable(acc) > 0
  PROVE  /\ Distributable(acc) \in Nat
         /\ Distributable(acc) <= Spendable(acc) /\ Distributable(acc) <= acc.collected
<1>1. Spendable(acc) \in Int /\ acc.collected \in Int
  BY DEF Spendable, AccountRecord
<1>2. Max({0, Spendable(acc)}) = IF 0 >= Spendable(acc) THEN 0 ELSE Spendable(acc)
  BY <1>1, MaxPair
<1>3. Max({0, Spendable(acc)}) \in Int
  BY <1>1, <1>2
<1>4. Distributable(acc) =
        IF Max({0, Spendable(acc)}) <= acc.collected THEN Max({0, Spendable(acc)}) ELSE acc.collected
  BY <1>1, <1>3, MinPair DEF Distributable
<1>5. QED
  BY <1>1, <1>2, <1>3, <1>4

-------------------------------------------------------------------------------
(* The inductive invariant.                                                *)

PaidOut(ps) == [j \in DOMAIN ps |-> ps[j].amount]

(* The first n of the payments ps that were counted for token t in the     *)
(* epoch that started at s, and what they sum up to.                       *)
Counted(ps, t, s, n) == {j \in DOMAIN ps : j <= n /\ ps[j].token = t /\ ps[j].start = s}
Seen(ps, t, s, n) == SumOver(PaidOut(ps), Counted(ps, t, s, n))

(* The counter of a token holds what its epoch has seen.                   *)
CounterKept ==
  \A t \in Tokens :
    /\ account[t].start <= now
    /\ account[t].withdrawn = Seen(payments, t, account[t].start, Len(payments))

(* A capped payment is made before its epoch is over.                      *)
PaidInTime ==
  \A j \in DOMAIN payments :
    /\ payments[j].start <= payments[j].at /\ payments[j].at <= now
    /\ payments[j].cap > 0 => payments[j].at < payments[j].start + EpochLength

(* Epochs of a token do not overlap, and the present one is the last.      *)
EpochsApart ==
  \A j \in DOMAIN payments :
    /\ \/ payments[j].start = account[payments[j].token].start
       \/ payments[j].start + EpochLength <= account[payments[j].token].start
    /\ \A k \in DOMAIN payments :
         payments[k].token = payments[j].token =>
           \/ payments[k].start = payments[j].start
           \/ payments[k].start + EpochLength <= payments[j].start
           \/ payments[j].start + EpochLength <= payments[k].start

(* With a capped payment its epoch has seen no more than the cap.          *)
EpochWithinCap ==
  \A j \in DOMAIN payments :
    payments[j].cap > 0 =>
      Seen(payments, payments[j].token, payments[j].start, j) <= payments[j].cap

EpochsKept == CounterKept /\ PaidInTime /\ EpochsApart /\ EpochWithinCap

MoneyKept == ReserveKept /\ CollectedAccounted

Inv == TypeOK /\ MoneyKept /\ GrantsPaidOnProof /\ EpochsKept

(* A step that keeps the accounts, the grants and the histories.           *)
LEMMA QuietStep ==
  ASSUME Inv, UNCHANGED <<account, grants, payments, unbooked, drawn, unreported, unbacked>>,
         now' \in Nat, now' >= now
  PROVE  MoneyKept' /\ GrantsPaidOnProof' /\ EpochsKept'
<1>1. MoneyKept' /\ GrantsPaidOnProof'
  BY DEF Inv, MoneyKept, ReserveKept, CollectedAccounted, GrantsPaidOnProof
<1>2. now \in Nat /\ account \in [Tokens -> AccountRecord] /\ payments \in Seq(PaymentRecord)
  BY DEF Inv, TypeOK, AdminOk, HistoryOk
<1>3. CounterKept'
  <2>1. \A t \in Tokens : account[t].start \in Int
    BY <1>2 DEF AccountRecord
  <2>2. QED
    BY <1>2, <2>1 DEF Inv, EpochsKept, CounterKept
<1>4. PaidInTime'
  <2>1. \A j \in DOMAIN payments : payments[j] \in PaymentRecord
    BY <1>2
  <2>2. \A j \in DOMAIN payments : payments[j].at \in Nat
    BY <2>1 DEF PaymentRecord
  <2>3. QED
    BY <1>2, <2>2 DEF Inv, EpochsKept, PaidInTime
<1>5. EpochsApart' /\ EpochWithinCap'
  BY DEF Inv, EpochsKept, EpochsApart, EpochWithinCap
<1>6. QED
  BY <1>1, <1>3, <1>4, <1>5 DEF EpochsKept

(* A step that changes accounts, but no epoch and no counter.              *)
LEMMA SameEpochs ==
  ASSUME Inv, UNCHANGED <<payments, now>>,
         \A t \in Tokens : account'[t].start = account[t].start /\ account'[t].withdrawn = account[t].withdrawn
  PROVE  EpochsKept'
<1>1. \A j \in DOMAIN payments : payments[j].token \in Tokens
  <2>1. \A j \in DOMAIN payments : payments[j] \in PaymentRecord
    BY DEF Inv, TypeOK, HistoryOk
  <2>2. QED
    BY <2>1 DEF PaymentRecord
<1>2. CounterKept'
  BY DEF Inv, EpochsKept, CounterKept
<1>3. PaidInTime' /\ EpochsApart' /\ EpochWithinCap'
  BY <1>1 DEF Inv, EpochsKept, PaidInTime, EpochsApart, EpochWithinCap
<1>4. QED
  BY <1>2, <1>3 DEF EpochsKept

(* Only the account and the histories of token t change.                   *)
OnlyAccount(t) ==
  /\ account' = [s \in Tokens |-> account'[s]] /\ account'[t] \in AccountRecord
  /\ \A s \in Tokens : s # t => account'[s] = account[s]
OnlyHistory(t) ==
  /\ unbooked' \in [Tokens -> Nat] /\ drawn' \in [Tokens -> Nat]
  /\ unreported' \in [Tokens -> Int] /\ unbacked' \in [Tokens -> Nat] /\ received' \in Nat
  /\ \A s \in Tokens : s # t => /\ drawn'[s] = drawn[s] /\ unbooked'[s] = unbooked[s]
                               /\ unreported'[s] = unreported[s] /\ unbacked'[s] = unbacked[s]

(* The books of token t balance, and its epoch goes on.                    *)
Balanced(t) ==
  /\ account'[t].balance + drawn'[t] + unbacked'[t] >= account'[t].reserve
  /\ account'[t].balance + unbooked'[t] = account'[t].collected + unreported'[t]
SameEpoch(t) ==
  account'[t].start = account[t].start /\ account'[t].withdrawn = account[t].withdrawn

(* The keys that money does not touch.                                     *)
OtherKeysOk ==
  /\ AdminOk /\ PayeesOk /\ DistOk /\ GrantsPaidOnProof
  /\ GrantsOk /\ ProposalsOk

(* A step that changes one account keeps the invariant when it keeps the   *)
(* books of that account.                                                  *)
LEMMA AccountStep ==
  ASSUME Inv, NEW t \in Tokens, OnlyAccount(t), OnlyHistory(t), Balanced(t), SameEpoch(t),
         OtherKeysOk', UNCHANGED <<payments, now>>
  PROVE  Inv'
<1>1. account' \in [Tokens -> AccountRecord]
  BY DEF Inv, TypeOK, OnlyAccount
<1>2. TypeOK'
  BY <1>1 DEF Inv, TypeOK, HistoryOk, OnlyHistory, OtherKeysOk
<1>3. MoneyKept'
  <2>1. \A s \in Tokens : s # t => /\ account'[s] = account[s] /\ drawn'[s] = drawn[s]
                                  /\ unbooked'[s] = unbooked[s] /\ unreported'[s] = unreported[s]
                                  /\ unbacked'[s] = unbacked[s]
    BY DEF OnlyAccount, OnlyHistory
  <2>2. QED
    BY <2>1 DEF Inv, MoneyKept, ReserveKept, CollectedAccounted, Balanced
<1>4. EpochsKept'
  BY SameEpochs DEF OnlyAccount, SameEpoch
<1>5. QED
  BY <1>2, <1>3, <1>4 DEF Inv, OtherKeysOk

(* An account with other sums in it.                                       *)
WithSums(acc, b, c, r) ==
  [listed |-> acc.listed, balance |-> b, collected |-> c, reserve |-> r, decimals |-> acc.decimals,
   cap |-> acc.cap, proposedCap |-> acc.proposedCap, capAt |-> acc.capAt,
   start |-> acc.start, withdrawn |-> acc.withdrawn]

LEMMA WithSumsType ==
  ASSUME NEW acc \in AccountRecord, NEW b \in Nat, NEW c \in Int, NEW r \in Nat
  PROVE  WithSums(acc, b, c, r) \in AccountRecord
BY DEF WithSums, AccountRecord

LEMMA OtherKeysKept ==
  ASSUME Inv, UNCHANGED <<adminVars, payeeVars, dist, grants, proposals, now>>
  PROVE  OtherKeysOk'
<1>1. AdminOk'
  BY DEF Inv, TypeOK, AdminOk, adminVars
<1>2. PayeesOk'
  BY DEF Inv, TypeOK, PayeesOk, payeeVars, SplitsOk
<1>3. DistOk'
  BY DEF Inv, TypeOK, DistOk
<1>4. GrantsPaidOnProof' /\ GrantsOk' /\ ProposalsOk'
  BY DEF Inv, TypeOK, GrantsPaidOnProof, GrantsOk, ProposalsOk
<1>5. QED
  BY <1>1, <1>2, <1>3, <1>4 DEF OtherKeysOk

LEMMA BooksNow ==
  ASSUME Inv, NEW t \in Tokens
  PROVE  /\ account[t] \in AccountRecord
         /\ account[t].balance \in Nat /\ account[t].collected \in Int /\ account[t].reserve \in Nat
         /\ drawn[t] \in Nat /\ unbooked[t] \in Nat /\ unreported[t] \in Int /\ unbacked[t] \in Nat
         /\ account[t].balance + drawn[t] + unbacked[t] >= account[t].reserve
         /\ account[t].balance + unbooked[t] = account[t].collected + unreported[t]
         /\ received \in Nat
BY DEF Inv, TypeOK, HistoryOk, AccountRecord, MoneyKept, ReserveKept, CollectedAccounted

LEMMA Clock == ASSUME Inv PROVE now \in Nat
BY DEF Inv, TypeOK, AdminOk

LEMMA HistoryTypes ==
  ASSUME Inv
  PROVE  /\ unbooked \in [Tokens -> Nat] /\ drawn \in [Tokens -> Nat]
         /\ unreported \in [Tokens -> Int] /\ unbacked \in [Tokens -> Nat] /\ received \in Nat
BY DEF Inv, TypeOK, HistoryOk

(* The sums of one account change, and the histories with them.            *)
LEMMA SumsStep ==
  ASSUME Inv, NEW t \in Tokens, NEW b \in Nat, NEW c \in Int, NEW r \in Nat,
         account' = [s \in Tokens |-> account'[s]],
         \A s \in Tokens : s # t => account'[s] = account[s],
         account'[t] = WithSums(account[t], b, c, r), OnlyHistory(t),
         b + drawn'[t] + unbacked'[t] >= r, b + unbooked'[t] = c + unreported'[t],
         UNCHANGED <<adminVars, payeeVars, dist, grants, proposals, payments, now>>
  PROVE  Inv'
<1>1. account'[t] \in AccountRecord
  BY WithSumsType, BooksNow
<1>2. /\ account'[t].balance = b /\ account'[t].collected = c /\ account'[t].reserve = r
      /\ SameEpoch(t)
  BY DEF WithSums, SameEpoch
<1>3. OnlyAccount(t) /\ Balanced(t)
  BY <1>1, <1>2 DEF OnlyAccount, Balanced
<1>4. QED
  BY <1>2, <1>3, OtherKeysKept, AccountStep

-------------------------------------------------------------------------------
(* The ways in and out.                                                    *)

LEMMA CollectFeeInv ==
  ASSUME Inv, NEW t \in Tokens, NEW n \in Amounts, CollectFee(t, n)
  PROVE  Inv'
<1> DEFINE acc == account[t]
<1>1. n \in Nat
  BY InputsOk
<1>2. Earmarked(n) \in Nat /\ Earmarked(n) <= n
  BY <1>1, EarmarkedType DEF Inv, TypeOK
<1>3. /\ account' = [s \in Tokens |-> account'[s]]
      /\ \A s \in Tokens : s # t => account'[s] = account[s]
      /\ account'[t] = WithSums(acc, acc.balance, acc.collected + n, acc.reserve + Earmarked(n))
  <2>1. acc.balance + 0 = acc.balance
    BY BooksNow
  <2>2. /\ account' = [s \in Tokens |-> account'[s]]
        /\ \A s \in Tokens : s # t => account'[s] = account[s]
        /\ account'[t] = WithSums(acc, acc.balance + 0, acc.collected + n, acc.reserve + Earmarked(n))
    BY DEF CollectFee, Reported, Inv, TypeOK, AccountRecord, WithSums
  <2>3. QED
    BY <2>1, <2>2
<1>4. /\ OnlyHistory(t) /\ UNCHANGED <<drawn, unbooked>>
      /\ unreported'[t] = unreported[t] - n /\ unbacked'[t] = unbacked[t] + Earmarked(n)
  BY <1>1, <1>2, HistoryTypes DEF CollectFee, OnlyHistory
<1>5. acc.balance \in Nat /\ acc.collected + n \in Int /\ acc.reserve + Earmarked(n) \in Nat
  BY <1>1, <1>2, BooksNow
<1>6. /\ acc.balance + drawn'[t] + unbacked'[t] >= acc.reserve + Earmarked(n)
      /\ acc.balance + unbooked'[t] = acc.collected + n + unreported'[t]
  BY <1>1, <1>2, <1>4, BooksNow
<1>7. UNCHANGED <<adminVars, payeeVars, dist, grants, proposals, payments, now>>
  BY DEF CollectFee, rest
<1> HIDE DEF acc
<1>8. QED
  BY <1>3, <1>4, <1>5, <1>6, <1>7, SumsStep DEF acc

LEMMA PayFeeInv ==
  ASSUME Inv, NEW t \in Tokens, NEW n \in Amounts, PayFee(t, n)
  PROVE  Inv'
<1> DEFINE acc == account[t]
<1>1. n \in Nat
  BY InputsOk
<1>2. Earmarked(n) \in Nat /\ Earmarked(n) <= n
  BY <1>1, EarmarkedType DEF Inv, TypeOK
<1>3. /\ account' = [s \in Tokens |-> account'[s]]
      /\ \A s \in Tokens : s # t => account'[s] = account[s]
      /\ account'[t] = WithSums(acc, acc.balance + n, acc.collected + n, acc.reserve + Earmarked(n))
  BY DEF PayFee, Reported, Inv, TypeOK, AccountRecord, WithSums
<1>4. /\ OnlyHistory(t) /\ UNCHANGED <<drawn, unbooked>>
      /\ UNCHANGED <<unreported, unbacked>>
  BY <1>1, <1>2, HistoryTypes DEF PayFee, OnlyHistory
<1>5. acc.balance + n \in Nat /\ acc.collected + n \in Int /\ acc.reserve + Earmarked(n) \in Nat
  BY <1>1, <1>2, BooksNow
<1>6. /\ acc.balance + n + drawn'[t] + unbacked'[t] >= acc.reserve + Earmarked(n)
      /\ acc.balance + n + unbooked'[t] = acc.collected + n + unreported'[t]
  BY <1>1, <1>2, <1>4, BooksNow
<1>7. UNCHANGED <<adminVars, payeeVars, dist, grants, proposals, payments, now>>
  BY DEF PayFee, rest
<1> HIDE DEF acc
<1>8. QED
  BY <1>3, <1>4, <1>5, <1>6, <1>7, SumsStep DEF acc

LEMMA DonateInv ==
  ASSUME Inv, NEW t \in Tokens, NEW n \in Amounts, Donate(t, n)
  PROVE  Inv'
<1> DEFINE acc == account[t]
<1>1. n \in Nat
  BY InputsOk
<1>2. /\ account' = [s \in Tokens |-> account'[s]]
      /\ \A s \in Tokens : s # t => account'[s] = account[s]
      /\ account'[t] = WithSums(acc, acc.balance + n, acc.collected, acc.reserve)
  BY DEF Donate, Inv, TypeOK, AccountRecord, WithSums
<1>3. OnlyHistory(t) /\ UNCHANGED <<drawn, unbooked, unbacked>> /\ unreported'[t] = unreported[t] + n
  BY <1>1, HistoryTypes DEF Donate, OnlyHistory
<1>4. acc.balance + n \in Nat /\ acc.collected \in Int /\ acc.reserve \in Nat
  BY <1>1, BooksNow
<1>5. /\ acc.balance + n + drawn'[t] + unbacked'[t] >= acc.reserve
      /\ acc.balance + n + unbooked'[t] = acc.collected + unreported'[t]
  <2>1. /\ acc.balance \in Nat /\ acc.collected \in Int /\ acc.reserve \in Nat
        /\ drawn[t] \in Nat /\ unbooked[t] \in Nat /\ unreported[t] \in Int /\ unbacked[t] \in Nat
        /\ acc.balance + drawn[t] + unbacked[t] >= acc.reserve
        /\ acc.balance + unbooked[t] = acc.collected + unreported[t]
    BY BooksNow
  <2>2. drawn'[t] = drawn[t] /\ unbacked'[t] = unbacked[t] /\ unbooked'[t] = unbooked[t]
        /\ unreported'[t] = unreported[t] + n
    BY <1>3
  <2> HIDE DEF acc
  <2>3. acc.balance + n + drawn'[t] + unbacked'[t] >= acc.reserve
    BY <1>1, <2>1, <2>2
  <2>4. acc.balance + n + unbooked'[t] = acc.collected + unreported'[t]
    BY <1>1, <2>1, <2>2
  <2>5. QED
    BY <2>3, <2>4
<1>6. UNCHANGED <<adminVars, payeeVars, dist, grants, proposals, payments, now>>
  BY DEF Donate, rest
<1> HIDE DEF acc
<1>7. QED
  BY <1>2, <1>3, <1>4, <1>5, <1>6, SumsStep DEF acc

LEMMA RefundFeeInv ==
  ASSUME Inv, NEW a, NEW t \in Tokens, NEW n \in Amounts, RefundFee(a, t, n)
  PROVE  Inv'
<1> DEFINE acc == account[t]
<1>1. n \in Nat /\ n <= acc.balance
  BY InputsOk DEF RefundFee
<1>2. /\ account' = [s \in Tokens |-> account'[s]]
      /\ \A s \in Tokens : s # t => account'[s] = account[s]
      /\ account'[t] = WithSums(acc, acc.balance - n, acc.collected - n, acc.reserve)
  BY DEF RefundFee, Inv, TypeOK, AccountRecord, WithSums
<1>3. OnlyHistory(t) /\ UNCHANGED <<unreported, unbacked, unbooked>> /\ drawn'[t] = drawn[t] + n
  BY <1>1, HistoryTypes DEF RefundFee, OnlyHistory
<1>4. acc.balance - n \in Nat /\ acc.collected - n \in Int /\ acc.reserve \in Nat
  BY <1>1, BooksNow
<1>5. /\ acc.balance - n + drawn'[t] + unbacked'[t] >= acc.reserve
      /\ acc.balance - n + unbooked'[t] = acc.collected - n + unreported'[t]
  <2>1. /\ acc.balance \in Nat /\ acc.collected \in Int /\ acc.reserve \in Nat
        /\ drawn[t] \in Nat /\ unbooked[t] \in Nat /\ unreported[t] \in Int /\ unbacked[t] \in Nat
        /\ acc.balance + drawn[t] + unbacked[t] >= acc.reserve
        /\ acc.balance + unbooked[t] = acc.collected + unreported[t]
    BY BooksNow
  <2>2. drawn'[t] = drawn[t] + n /\ unbacked'[t] = unbacked[t] /\ unbooked'[t] = unbooked[t]
        /\ unreported'[t] = unreported[t]
    BY <1>3
  <2> HIDE DEF acc
  <2>3. acc.balance - n + drawn'[t] + unbacked'[t] >= acc.reserve
    BY <1>1, <2>1, <2>2
  <2>4. acc.balance - n + unbooked'[t] = acc.collected - n + unreported'[t]
    BY <1>1, <2>1, <2>2
  <2>5. QED
    BY <2>3, <2>4
<1>6. UNCHANGED <<adminVars, payeeVars, dist, grants, proposals, payments, now>>
  BY DEF RefundFee, rest
<1> HIDE DEF acc
<1>7. QED
  BY <1>2, <1>3, <1>4, <1>5, <1>6, SumsStep DEF acc

LEMMA DisburseInv ==
  ASSUME Inv, NEW a, NEW t \in Tokens, NEW n \in Amounts, DisburseFromReserve(a, t, n)
  PROVE  Inv'
<1> DEFINE acc == account[t]
<1>1. n \in Nat /\ n <= acc.balance /\ n <= acc.reserve
  BY InputsOk DEF DisburseFromReserve
<1>2. /\ account' = [s \in Tokens |-> account'[s]]
      /\ \A s \in Tokens : s # t => account'[s] = account[s]
      /\ account'[t] = WithSums(acc, acc.balance - n, acc.collected, acc.reserve - n)
  BY DEF DisburseFromReserve, Inv, TypeOK, AccountRecord, WithSums
<1>3. OnlyHistory(t) /\ UNCHANGED <<unreported, unbacked, drawn>> /\ unbooked'[t] = unbooked[t] + n
  BY <1>1, HistoryTypes DEF DisburseFromReserve, OnlyHistory
<1>4. acc.balance - n \in Nat /\ acc.collected \in Int /\ acc.reserve - n \in Nat
  BY <1>1, BooksNow
<1>5. /\ acc.balance - n + drawn'[t] + unbacked'[t] >= acc.reserve - n
      /\ acc.balance - n + unbooked'[t] = acc.collected + unreported'[t]
  BY <1>1, <1>3, BooksNow
<1>6. UNCHANGED <<adminVars, payeeVars, dist, grants, proposals, payments, now>>
  BY DEF DisburseFromReserve, rest
<1> HIDE DEF acc
<1>7. QED
  BY <1>2, <1>3, <1>4, <1>5, <1>6, SumsStep DEF acc

LEMMA ClaimShareInv ==
  ASSUME Inv, NEW a, NEW t \in Tokens, ClaimShare(a, t)
  PROVE  Inv'
<1> DEFINE acc == account[t]
           n   == Share(t)
<1>1. n \in Nat /\ n <= acc.balance
  <2>1. n \in Int
    BY ShareType DEF ClaimShare, Inv
  <2>2. QED
    BY <2>1 DEF ClaimShare
<1> HIDE DEF n
<1>2. /\ account' = [s \in Tokens |-> account'[s]]
      /\ \A s \in Tokens : s # t => account'[s] = account[s]
      /\ account'[t] = WithSums(acc, acc.balance - n, acc.collected, acc.reserve)
  BY DEF ClaimShare, Inv, TypeOK, AccountRecord, WithSums, n
<1>3. /\ OnlyHistory(t) /\ unreported' = unreported /\ unbacked' = unbacked
      /\ drawn'[t] = drawn[t] + n /\ unbooked'[t] = unbooked[t] + n
  BY <1>1, HistoryTypes DEF ClaimShare, OnlyHistory, n
<1>4. acc.balance - n \in Nat /\ acc.collected \in Int /\ acc.reserve \in Nat
  BY <1>1, BooksNow
<1>5. /\ acc.balance - n + drawn'[t] + unbacked'[t] >= acc.reserve
      /\ acc.balance - n + unbooked'[t] = acc.collected + unreported'[t]
  BY <1>1, <1>3, BooksNow
<1>6. UNCHANGED <<adminVars, payeeVars, dist, grants, proposals, payments, now>>
  BY DEF ClaimShare, rest
<1> HIDE DEF acc
<1>7. QED
  BY <1>2, <1>3, <1>4, <1>5, <1>6, SumsStep DEF acc

(* A sweep pays out and books exactly what may be distributed.             *)
LEMMA SweepInv ==
  ASSUME Inv, NEW t \in Tokens, Sweep(t)
  PROVE  Inv'
<1> DEFINE acc == account[t]
           d   == Distributable(acc)
<1>1. d \in Nat /\ d <= acc.balance - acc.reserve /\ d <= acc.collected
  BY DistributableType, BooksNow DEF Sweep, Spendable
<1> HIDE DEF d
<1>2. SweptShares(d) \in Nat /\ SweptShares(d) <= d /\ Dust(d) = d - SweptShares(d)
  BY <1>1, SweepIsExact DEF Sweep, Inv
<1>3. acc.balance - SweptShares(d) - Dust(d) = acc.balance - d
  BY <1>1, <1>2, BooksNow
<1>4. Max({0, acc.collected - Booked(d)}) = acc.collected - d
  <2>1. Booked(d) = d
    BY <1>1, <1>2 DEF Booked
  <2>2. 0 \in Int /\ acc.collected - d \in Int /\ (0 >= acc.collected - d => acc.collected - d = 0)
    BY <1>1, BooksNow
  <2>3. QED
    BY <2>1, <2>2, MaxPair
<1>5. /\ account' = [s \in Tokens |-> account'[s]]
      /\ \A s \in Tokens : s # t => account'[s] = account[s]
      /\ account'[t] = WithSums(acc, acc.balance - d, acc.collected - d, acc.reserve)
  <2>1. account' = [account EXCEPT ![t].balance = @ - SweptShares(d) - Dust(d),
                                   ![t].collected = Max({0, @ - Booked(d)})]
    BY DEF Sweep, d
  <2>2. QED
    BY <1>3, <1>4, <2>1 DEF Inv, TypeOK, AccountRecord, WithSums
<1>6. OnlyHistory(t) /\ UNCHANGED <<unreported, unbacked, drawn, unbooked>>
  BY HistoryTypes DEF Sweep, history, OnlyHistory
<1>7. acc.balance - d \in Nat /\ acc.collected - d \in Int /\ acc.reserve \in Nat
  BY <1>1, BooksNow
<1>8. /\ acc.balance - d + drawn'[t] + unbacked'[t] >= acc.reserve
      /\ acc.balance - d + unbooked'[t] = acc.collected - d + unreported'[t]
  <2>1. /\ acc.balance \in Nat /\ acc.collected \in Int /\ acc.reserve \in Nat
        /\ drawn[t] \in Nat /\ unbooked[t] \in Nat /\ unreported[t] \in Int /\ unbacked[t] \in Nat
        /\ acc.balance + drawn[t] + unbacked[t] >= acc.reserve
        /\ acc.balance + unbooked[t] = acc.collected + unreported[t]
    BY BooksNow
  <2>2. drawn'[t] = drawn[t] /\ unbacked'[t] = unbacked[t] /\ unbooked'[t] = unbooked[t]
        /\ unreported'[t] = unreported[t]
    BY <1>6
  <2> HIDE DEF acc
  <2>3. acc.balance - d + drawn'[t] + unbacked'[t] >= acc.reserve
    BY <1>1, <2>1, <2>2
  <2>4. acc.balance - d + unbooked'[t] = acc.collected - d + unreported'[t]
    BY <1>1, <2>1, <2>2
  <2>5. QED
    BY <2>3, <2>4
<1>9. UNCHANGED <<adminVars, payeeVars, dist, grants, proposals, payments, now>>
  BY DEF Sweep, rest, history
<1> HIDE DEF acc
<1>10. QED
  BY <1>5, <1>6, <1>7, <1>8, <1>9, SumsStep DEF acc

-------------------------------------------------------------------------------
(* Withdrawals and their epochs.                                           *)

LEMMA CountedFinite ==
  ASSUME NEW L \in Nat, NEW ps, DOMAIN ps = 1..L, \A j \in 1..L : ps[j] \in PaymentRecord,
         NEW t, NEW s, NEW n
  PROVE  /\ IsFiniteSet(Counted(ps, t, s, n)) /\ Counted(ps, t, s, n) \subseteq 1..L
         /\ \A j \in 1..L : PaidOut(ps)[j] \in Nat
<1>1. \A j \in 1..L : PaidOut(ps)[j] \in Nat
  BY DEF PaidOut, PaymentRecord
<1>2. IsFiniteSet(1..L)
  BY FS_Interval
<1>3. Counted(ps, t, s, n) \subseteq 1..L
  BY DEF Counted
<1>4. QED
  BY <1>1, <1>2, <1>3, FS_Subset

(* One more payment adds to what its own epoch has seen.                   *)
LEMMA SeenAppend ==
  ASSUME NEW L \in Nat, NEW ps, DOMAIN ps = 1..L, \A j \in 1..L : ps[j] \in PaymentRecord,
         NEW p \in PaymentRecord, NEW n, n = L + 1,
         NEW qs, DOMAIN qs = 1..n, qs[n] = p, \A j \in 1..L : qs[j] = ps[j]
  PROVE  /\ \A t, s : \A m \in Nat : m <= L => Seen(qs, t, s, m) = Seen(ps, t, s, m)
         /\ Seen(qs, p.token, p.start, n) = Seen(ps, p.token, p.start, L) + p.amount
         /\ \A t, s : (t # p.token \/ s # p.start) => Seen(qs, t, s, n) = Seen(ps, t, s, L)
<1>1. /\ n \in DOMAIN qs
      /\ \A j \in DOMAIN ps : j \in DOMAIN qs /\ qs[j] = ps[j]
  OBVIOUS
<1>2. ASSUME NEW t, NEW s, NEW m
      PROVE  SumOver(PaidOut(qs), Counted(ps, t, s, m)) = Seen(ps, t, s, m)
  <2>1. Counted(ps, t, s, m) \subseteq DOMAIN ps
    BY DEF Counted
  <2>2. \A j \in Counted(ps, t, s, m) : PaidOut(qs)[j] = PaidOut(ps)[j]
    BY <1>1, <2>1 DEF PaidOut
  <2>3. QED
    BY <2>2, CountedFinite, SumSame DEF Seen
<1>3. ASSUME NEW t, NEW s, NEW m \in Nat, m <= L
      PROVE  Seen(qs, t, s, m) = Seen(ps, t, s, m)
  <2>1. Counted(qs, t, s, m) = Counted(ps, t, s, m)
    BY <1>1, <1>3 DEF Counted
  <2>2. QED
    BY <1>2, <2>1 DEF Seen
<1>4. Seen(qs, p.token, p.start, n) = Seen(ps, p.token, p.start, L) + p.amount
  <2> DEFINE C == Counted(ps, p.token, p.start, L)
  <2>1. Counted(qs, p.token, p.start, n) = C \union {n}
    BY <1>1 DEF Counted
  <2>2. n \notin C /\ C \subseteq DOMAIN ps
    BY <1>1 DEF Counted
  <2>3. PaidOut(qs)[n] = p.amount /\ p.amount \in Nat
    BY <1>1 DEF PaidOut, PaymentRecord
  <2>4. IsFiniteSet(C) /\ \A j \in C : PaidOut(qs)[j] \in Int
    <3>1. \A j \in DOMAIN ps : PaidOut(qs)[j] = PaidOut(ps)[j]
      BY <1>1 DEF PaidOut
    <3>2. QED
      BY <2>2, <3>1, CountedFinite
  <2>5. SumOver(PaidOut(qs), C) = Seen(ps, p.token, p.start, L)
    BY <1>2
  <2> HIDE DEF C
  <2>6. SumOver(PaidOut(qs), C \union {n}) = p.amount + SumOver(PaidOut(qs), C)
    BY <2>2, <2>3, <2>4, SumAdd
  <2>7. SumOver(PaidOut(qs), C) \in Int
    BY <2>4, SumInt
  <2>8. Seen(qs, p.token, p.start, n) = SumOver(PaidOut(qs), C \union {n})
    BY <2>1 DEF Seen
  <2>9. QED
    BY <2>3, <2>5, <2>6, <2>7, <2>8
<1>5. ASSUME NEW t, NEW s, t # p.token \/ s # p.start
      PROVE  Seen(qs, t, s, n) = Seen(ps, t, s, L)
  <2>1. Counted(qs, t, s, n) = Counted(ps, t, s, L)
    BY <1>1, <1>5 DEF Counted
  <2>2. QED
    BY <1>2, <2>1 DEF Seen
<1>6. QED
  BY <1>3, <1>4, <1>5

LEMMA InEpochFields ==
  ASSUME NEW acc \in AccountRecord, NEW e, e = InEpoch(acc), AdminOk
  PROVE  /\ e \in AccountRecord
         /\ e = [acc EXCEPT !.start = e.start, !.withdrawn = e.withdrawn]
         /\ \/ acc.cap > 0 /\ EpochOver(acc) /\ e.start = now /\ e.withdrawn = 0
            \/ ~(acc.cap > 0 /\ EpochOver(acc)) /\ e.start = acc.start /\ e.withdrawn = acc.withdrawn
<1>1. now \in Nat
  BY DEF AdminOk
<1>2. CASE ~(acc.cap > 0 /\ EpochOver(acc))
  BY <1>2 DEF InEpoch, AccountRecord
<1>3. CASE acc.cap > 0 /\ EpochOver(acc)
  <2>1. e = [acc EXCEPT !.start = now, !.withdrawn = 0]
    BY <1>3 DEF InEpoch
  <2>2. e = [listed |-> acc.listed, balance |-> acc.balance, collected |-> acc.collected,
             reserve |-> acc.reserve, decimals |-> acc.decimals, cap |-> acc.cap,
             proposedCap |-> acc.proposedCap, capAt |-> acc.capAt, start |-> now, withdrawn |-> 0]
    BY <2>1 DEF AccountRecord
  <2>3. e.start = now /\ e.withdrawn = 0
    BY <2>2
  <2>4. e \in AccountRecord
    BY <1>1, <2>2 DEF AccountRecord
  <2>5. QED
    BY <1>3, <2>1, <2>3, <2>4
<1>4. QED
  BY <1>2, <1>3

LEMMA WithdrawnFields ==
  ASSUME NEW acc \in AccountRecord, NEW n, NEW new, new = Withdrawn(acc, n), AdminOk,
         NEW e, e = InEpoch(acc)
  PROVE  new = [listed |-> acc.listed, balance |-> acc.balance - n, collected |-> acc.collected - n,
                reserve |-> acc.reserve, decimals |-> acc.decimals, cap |-> acc.cap,
                proposedCap |-> acc.proposedCap, capAt |-> acc.capAt,
                start |-> IF e.start = -1 THEN now ELSE e.start, withdrawn |-> e.withdrawn + n]
<1>1. e \in AccountRecord /\ e = [acc EXCEPT !.start = e.start, !.withdrawn = e.withdrawn]
  BY InEpochFields
<1>2. /\ e.listed = acc.listed /\ e.balance = acc.balance /\ e.collected = acc.collected
      /\ e.reserve = acc.reserve /\ e.decimals = acc.decimals /\ e.cap = acc.cap
      /\ e.proposedCap = acc.proposedCap /\ e.capAt = acc.capAt
  BY <1>1 DEF AccountRecord
<1>3. new = [e EXCEPT !.balance = @ - n, !.collected = @ - n,
                      !.start = IF @ = -1 THEN now ELSE @, !.withdrawn = @ + n]
  BY DEF Withdrawn
<1>4. new = [listed |-> e.listed, balance |-> e.balance - n, collected |-> e.collected - n,
             reserve |-> e.reserve, decimals |-> e.decimals, cap |-> e.cap,
             proposedCap |-> e.proposedCap, capAt |-> e.capAt,
             start |-> IF e.start = -1 THEN now ELSE e.start, withdrawn |-> e.withdrawn + n]
  BY <1>1, <1>3 DEF AccountRecord
<1>5. QED
  BY <1>2, <1>4

LEMMA PaymentTypes ==
  ASSUME Inv, NEW j \in DOMAIN payments
  PROVE  /\ payments[j].token \in Tokens /\ payments[j].at \in Nat /\ payments[j].cap \in Nat
         /\ payments[j].start \in Nat /\ payments[j].amount \in Nat
<1>1. payments[j] \in PaymentRecord
  BY DEF Inv, TypeOK, HistoryOk
<1>2. QED
  BY <1>1 DEF PaymentRecord

(* A withdrawal goes on with its token's epoch or begins a new one.        *)
LEMMA EpochOfWithdrawal ==
  ASSUME Inv, NEW t \in Tokens, NEW n \in Nat, NEW new, new = Withdrawn(account[t], n)
  PROVE  LET acc == account[t]
         IN  /\ new \in [listed : BOOLEAN, balance : {acc.balance - n}, collected : {acc.collected - n},
                          reserve : {acc.reserve}, decimals : Int, cap : {acc.cap}, proposedCap : Nat,
                          capAt : Int, start : Nat, withdrawn : Nat]
             /\ new.withdrawn = InEpoch(acc).withdrawn + n
             /\ \/ new.start = acc.start /\ new.withdrawn = acc.withdrawn + n
                   /\ (acc.cap > 0 => now - acc.start < EpochLength)
                \/ /\ new.start = now /\ new.withdrawn = n
                   /\ acc.start = -1 \/ acc.start + EpochLength <= now
<1> DEFINE acc == account[t]
           e   == InEpoch(acc)
<1>1. acc \in AccountRecord /\ AdminOk /\ now \in Nat
  BY DEF Inv, TypeOK, AdminOk
<1>2. acc.start \in Nat \union {-1} /\ acc.withdrawn \in Nat
  BY <1>1 DEF AccountRecord
<1>3. new = [listed |-> acc.listed, balance |-> acc.balance - n, collected |-> acc.collected - n,
                reserve |-> acc.reserve, decimals |-> acc.decimals, cap |-> acc.cap,
                proposedCap |-> acc.proposedCap, capAt |-> acc.capAt,
                start |-> IF e.start = -1 THEN now ELSE e.start, withdrawn |-> e.withdrawn + n]
  BY <1>1, WithdrawnFields
<1>4. e \in AccountRecord
  BY <1>1, InEpochFields
<1>5. e.start \in Nat \union {-1} /\ e.withdrawn \in Nat
  BY <1>4 DEF AccountRecord
<1>6. \/ acc.cap > 0 /\ EpochOver(acc) /\ e.start = now /\ e.withdrawn = 0
      \/ ~(acc.cap > 0 /\ EpochOver(acc)) /\ e.start = acc.start /\ e.withdrawn = acc.withdrawn
  BY <1>1, InEpochFields
<1> HIDE DEF e
<1>7. new.start = (IF e.start = -1 THEN now ELSE e.start) /\ new.withdrawn = e.withdrawn + n
  BY <1>3
<1>8. new \in [listed : BOOLEAN, balance : {acc.balance - n}, collected : {acc.collected - n},
               reserve : {acc.reserve}, decimals : Int, cap : {acc.cap}, proposedCap : Nat,
               capAt : Int, start : Nat, withdrawn : Nat]
  BY <1>1, <1>3, <1>5 DEF AccountRecord
<1>9. acc.start = -1 => acc.withdrawn = 0
  <2>1. SUFFICES ASSUME acc.start = -1 PROVE acc.withdrawn = 0
    OBVIOUS
  <2>2. \A j \in DOMAIN payments : payments[j].start # -1
    BY PaymentTypes
  <2>3. Counted(payments, t, -1, Len(payments)) = {}
    BY <2>2 DEF Counted
  <2>4. QED
    BY <2>1, <2>3, SumEmpty DEF Inv, EpochsKept, CounterKept, Seen
<1>10. EpochLength \in Nat /\ EpochLength > 0
  BY DelaysOk
<1>11. EpochOver(acc) <=> acc.start >= 0 /\ now - acc.start >= EpochLength
  BY DEF EpochOver
<1>12. \/ /\ new.start = acc.start /\ new.withdrawn = acc.withdrawn + n
          /\ acc.cap > 0 => now - acc.start < EpochLength
       \/ /\ new.start = now /\ new.withdrawn = n
          /\ acc.start = -1 \/ acc.start + EpochLength <= now
  <2>1. CASE acc.cap > 0 /\ EpochOver(acc)
    BY <1>1, <1>2, <1>6, <1>7, <1>10, <1>11, <2>1
  <2>2. CASE ~(acc.cap > 0 /\ EpochOver(acc)) /\ acc.start = -1
    BY <1>1, <1>2, <1>6, <1>7, <1>9, <2>2
  <2>3. CASE ~(acc.cap > 0 /\ EpochOver(acc)) /\ acc.start # -1
    BY <1>1, <1>2, <1>6, <1>7, <1>10, <1>11, <2>3
  <2>4. QED
    BY <2>1, <2>2, <2>3
<1>13. QED
  BY <1>7, <1>8, <1>12 DEF e

(* do_withdraw, called by the admin or by a proposal.                      *)
LEMMA DoWithdrawInv ==
  ASSUME Inv, NEW t \in Tokens, NEW r, NEW n \in Int, DoWithdraw(t, r, n),
         ProposalsOk'
  PROVE  Inv'
<1> DEFINE acc == account[t]
           new == Withdrawn(acc, n)
           p   == [token |-> t, at |-> now, amount |-> n, cap |-> acc.cap, start |-> new.start]
           L   == Len(payments)
<1>1. n \in Nat \ {0} /\ n <= acc.balance - acc.reserve
  BY DEF DoWithdraw, Spendable
<1>2. /\ acc.balance \in Nat /\ acc.collected \in Int /\ acc.reserve \in Nat
      /\ acc.cap \in Nat /\ acc.start \in Int /\ acc.withdrawn \in Nat
      /\ account \in [Tokens -> AccountRecord] /\ now \in Nat
      /\ payments \in Seq(PaymentRecord)
  <2>1. account \in [Tokens -> AccountRecord] /\ now \in Nat /\ payments \in Seq(PaymentRecord)
    BY DEF Inv, TypeOK, AdminOk, HistoryOk
  <2>2. acc.start \in Nat \union {-1} /\ acc.withdrawn \in Nat /\ acc.cap \in Nat
    BY <2>1 DEF AccountRecord
  <2>3. QED
    BY <2>1, <2>2, BooksNow
<1>3. /\ new \in [listed : BOOLEAN, balance : {acc.balance - n}, collected : {acc.collected - n},
                   reserve : {acc.reserve}, decimals : Int, cap : {acc.cap}, proposedCap : Nat,
                   capAt : Int, start : Nat, withdrawn : Nat]
      /\ new.withdrawn = InEpoch(acc).withdrawn + n
      /\ \/ new.start = acc.start /\ new.withdrawn = acc.withdrawn + n
            /\ (acc.cap > 0 => now - acc.start < EpochLength)
         \/ /\ new.start = now /\ new.withdrawn = n
            /\ acc.start = -1 \/ acc.start + EpochLength <= now
  BY <1>1, EpochOfWithdrawal
<1>4. account' = [account EXCEPT ![t] = new]
  BY DEF DoWithdraw
<1> HIDE DEF new
<1>5. new \in AccountRecord
  <2>1. acc.balance - n \in Nat /\ acc.collected - n \in Int
    BY <1>1, <1>2
  <2>2. QED
    BY <1>2, <1>3, <2>1 DEF AccountRecord
<1>6. /\ new.balance = acc.balance - n /\ new.collected = acc.collected - n
      /\ new.reserve = acc.reserve /\ new.start \in Nat /\ new.withdrawn \in Nat
  BY <1>3
<1>7. account' \in [Tokens -> AccountRecord] /\ account'[t] = new
      /\ \A u \in Tokens : u # t => account'[u] = account[u]
  BY <1>2, <1>4, <1>5
<1>8. p \in PaymentRecord /\ p.token = t /\ p.start = new.start /\ p.amount = n
      /\ p.at = now /\ p.cap = acc.cap
  BY <1>1, <1>2, <1>6 DEF PaymentRecord
<1>9. payments' = Append(payments, p)
  BY <1>7 DEF DoWithdraw
<1> HIDE DEF p
<1>10. OtherKeysOk'
  <2>1. UNCHANGED <<adminVars, payeeVars, dist, grants, now>>
    BY DEF DoWithdraw, rest
  <2>2. AdminOk'
    BY <2>1 DEF Inv, TypeOK, AdminOk, adminVars
  <2>3. PayeesOk'
    BY <2>1 DEF Inv, TypeOK, PayeesOk, payeeVars, SplitsOk
  <2>4. DistOk'
    BY <2>1 DEF Inv, TypeOK, DistOk
  <2>5. GrantsPaidOnProof' /\ GrantsOk'
    BY <2>1 DEF Inv, TypeOK, GrantsPaidOnProof, GrantsOk
  <2>6. QED
    BY <2>2, <2>3, <2>4, <2>5 DEF OtherKeysOk
<1>11. UNCHANGED <<unbooked, drawn, received, unreported, unbacked, now>>
  BY DEF DoWithdraw
<1>12. TypeOK'
  <2>1. payments' \in Seq(PaymentRecord)
    BY <1>2, <1>8, <1>9
  <2>2. HistoryOk'
    BY <1>11, <2>1, HistoryTypes DEF HistoryOk
  <2>3. QED
    BY <1>7, <1>10, <2>2 DEF TypeOK, OtherKeysOk
<1>13. MoneyKept'
  <2>1. /\ account'[t].balance + drawn[t] + unbacked[t] >= account'[t].reserve
        /\ account'[t].balance + unbooked[t] = account'[t].collected + unreported[t]
    <3>1. /\ acc.balance - n + drawn[t] + unbacked[t] >= acc.reserve
          /\ acc.balance - n + unbooked[t] = acc.collected - n + unreported[t]
      <4>1. acc.balance - n >= acc.reserve /\ drawn[t] \in Nat /\ unbacked[t] \in Nat
        BY <1>1, <1>2, BooksNow
      <4>2. acc.balance + unbooked[t] = acc.collected + unreported[t] /\ unbooked[t] \in Nat /\ unreported[t] \in Int
        BY BooksNow
      <4>3. n \in Nat /\ acc.balance \in Nat /\ acc.collected \in Int /\ acc.reserve \in Nat
        BY <1>1, <1>2
      <4> HIDE DEF acc
      <4>4. QED
        BY <4>1, <4>2, <4>3
    <3>2. QED
      BY <1>6, <1>7, <3>1
  <2>2. QED
    BY <1>7, <1>11, <2>1 DEF Inv, MoneyKept, ReserveKept, CollectedAccounted
<1>14. /\ L \in Nat /\ DOMAIN payments = 1..L /\ DOMAIN payments' = 1..(L + 1)
       /\ Len(payments') = L + 1
       /\ payments'[L + 1] = p /\ \A j \in DOMAIN payments : payments'[j] = payments[j]
  BY <1>2, <1>8, <1>9
<1>15. /\ \A u, s : \A m \in Nat : m <= L => Seen(payments', u, s, m) = Seen(payments, u, s, m)
       /\ Seen(payments', t, new.start, L + 1) = Seen(payments, t, new.start, L) + n
       /\ \A u, s : (u # t \/ s # new.start) => Seen(payments', u, s, L + 1) = Seen(payments, u, s, L)
  <2>1. /\ \A u, s : \A m \in Nat : m <= L => Seen(payments', u, s, m) = Seen(payments, u, s, m)
        /\ Seen(payments', p.token, p.start, L + 1) = Seen(payments, p.token, p.start, L) + p.amount
        /\ \A u, s : (u # p.token \/ s # p.start) =>
             Seen(payments', u, s, L + 1) = Seen(payments, u, s, L)
    <3>1. \A j \in 1..L : payments[j] \in PaymentRecord /\ payments'[j] = payments[j]
      BY <1>2, <1>14
    <3> HIDE DEF L
    <3>2. QED
      BY <1>8, <1>14, <3>1, SeenAppend
  <2>2. QED
    BY <1>8, <2>1
<1>a. \/ new.start = acc.start
      \/ new.start = now /\ (acc.start = -1 \/ acc.start + EpochLength <= now)
  BY <1>3
<1>16. EpochLength \in Nat /\ EpochLength > 0
  BY DelaysOk
<1>17. \A j \in DOMAIN payments : payments[j].token = t =>
         payments[j].start = new.start \/ payments[j].start + EpochLength <= new.start
  <2> SUFFICES ASSUME NEW j \in DOMAIN payments, payments[j].token = t
               PROVE  payments[j].start = new.start \/ payments[j].start + EpochLength <= new.start
    OBVIOUS
  <2>1. payments[j].start = acc.start \/ payments[j].start + EpochLength <= acc.start
    BY DEF Inv, EpochsKept, EpochsApart
  <2>2. payments[j].start \in Nat
    BY PaymentTypes
  <2>3. QED
    BY <1>2, <1>a, <1>16, <2>1, <2>2
<1>18. CounterKept'
  <2>1. new.withdrawn = Seen(payments, t, new.start, L) + n
    <3>1. CASE new.start = acc.start /\ new.withdrawn = acc.withdrawn + n
      BY <3>1 DEF Inv, EpochsKept, CounterKept
    <3>2. CASE /\ new.start = now /\ new.withdrawn = n
               /\ acc.start = -1 \/ acc.start + EpochLength <= now
      <4>1. \A j \in DOMAIN payments : payments[j].token = t => payments[j].start # now
        <5> SUFFICES ASSUME NEW j \in DOMAIN payments, payments[j].token = t PROVE payments[j].start # now
          OBVIOUS
        <5>1. payments[j].start = acc.start \/ payments[j].start + EpochLength <= acc.start
          BY DEF Inv, EpochsKept, EpochsApart
        <5>2. payments[j].start \in Nat
          BY PaymentTypes
        <5>3. QED
          BY <1>2, <1>16, <3>2, <5>1, <5>2
      <4>2. Counted(payments, t, now, L) = {}
        BY <4>1 DEF Counted
      <4>3. Seen(payments, t, new.start, L) = 0
        BY <3>2, <4>2, SumEmpty DEF Seen
      <4>4. QED
        BY <1>1, <3>2, <4>3
    <3>3. QED
      BY <1>3, <3>1, <3>2
  <2>2. new.start <= now
    BY <1>2, <1>3 DEF Inv, EpochsKept, CounterKept
  <2>3. account'[t].start <= now' /\ account'[t].withdrawn = Seen(payments', t, account'[t].start, Len(payments'))
    BY <1>7, <1>11, <1>14, <1>15, <2>1, <2>2
  <2>4. ASSUME NEW u \in Tokens, u # t
        PROVE  /\ account'[u].start <= now'
               /\ account'[u].withdrawn = Seen(payments', u, account'[u].start, Len(payments'))
    BY <1>7, <1>11, <1>14, <1>15, <2>4 DEF Inv, EpochsKept, CounterKept
  <2>5. QED
    BY <2>3, <2>4 DEF CounterKept
<1>19. PaidInTime'
  <2>1. /\ new.start <= now
        /\ acc.cap > 0 => now < new.start + EpochLength
    BY <1>2, <1>3, <1>6, <1>16 DEF Inv, EpochsKept, CounterKept
  <2>2. \A j \in DOMAIN payments' : j \in DOMAIN payments \/ j = L + 1
    BY <1>14
  <2>3. QED
    BY <1>2, <1>8, <1>11, <1>14, <2>1, <2>2 DEF Inv, EpochsKept, PaidInTime
<1>20. EpochsApart'
  <2>1. \A j \in DOMAIN payments' : j \in DOMAIN payments \/ j = L + 1
    BY <1>14
  <2>2. ASSUME NEW j \in DOMAIN payments'
        PROVE  \/ payments'[j].start = account'[payments'[j].token].start
               \/ payments'[j].start + EpochLength <= account'[payments'[j].token].start
    <3>1. CASE j = L + 1
      BY <1>7, <1>8, <1>14, <3>1
    <3>2. CASE j \in DOMAIN payments /\ payments[j].token = t
      BY <1>7, <1>14, <1>17, <3>2
    <3>3. CASE j \in DOMAIN payments /\ payments[j].token # t
      BY <1>7, <1>14, <3>3, PaymentTypes DEF Inv, EpochsKept, EpochsApart
    <3>4. QED
      BY <2>1, <3>1, <3>2, <3>3
  <2>3. ASSUME NEW j \in DOMAIN payments', NEW k \in DOMAIN payments', payments'[k].token = payments'[j].token
        PROVE  \/ payments'[k].start = payments'[j].start
               \/ payments'[k].start + EpochLength <= payments'[j].start
               \/ payments'[j].start + EpochLength <= payments'[k].start
    <3>1. CASE j = L + 1 /\ k = L + 1
      BY <3>1
    <3>2. CASE j = L + 1 /\ k \in DOMAIN payments
      BY <1>8, <1>14, <1>17, <2>3, <3>2
    <3>3. CASE j \in DOMAIN payments /\ k = L + 1
      BY <1>8, <1>14, <1>17, <2>3, <3>3
    <3>4. CASE j \in DOMAIN payments /\ k \in DOMAIN payments
      BY <1>14, <2>3, <3>4 DEF Inv, EpochsKept, EpochsApart
    <3>5. QED
      BY <2>1, <3>1, <3>2, <3>3, <3>4
  <2>4. QED
    BY <2>2, <2>3 DEF EpochsApart
<1>21. EpochWithinCap'
  <2>1. acc.cap > 0 => Seen(payments', t, new.start, L + 1) <= acc.cap
    <3>1. acc.cap > 0 => new.withdrawn <= acc.cap
      BY <1>3 DEF DoWithdraw, WithinCap
    <3>2. new.withdrawn = Seen(payments', t, new.start, L + 1)
      BY <1>7, <1>14, <1>18 DEF CounterKept
    <3>3. QED
      BY <3>1, <3>2
  <2>2. ASSUME NEW j \in DOMAIN payments', payments'[j].cap > 0
        PROVE  Seen(payments', payments'[j].token, payments'[j].start, j) <= payments'[j].cap
    <3>1. CASE j = L + 1
      BY <1>8, <1>14, <2>1, <2>2, <3>1
    <3>2. CASE j \in DOMAIN payments
      <4>1. j \in Nat /\ j <= L
        BY <1>14, <3>2
      <4>2. QED
        BY <1>14, <1>15, <2>2, <3>2, <4>1 DEF Inv, EpochsKept, EpochWithinCap
    <3>3. QED
      BY <1>14, <3>1, <3>2
  <2>3. QED
    BY <2>2 DEF EpochWithinCap
<1>22. QED
  BY <1>10, <1>12, <1>13, <1>18, <1>19, <1>20, <1>21 DEF Inv, EpochsKept, OtherKeysOk

-------------------------------------------------------------------------------
(* Caps, settings and proposals: steps that move no money.                 *)

LEMMA QuietInv ==
  ASSUME Inv, UNCHANGED <<account, grants, history>>, now' >= now,
         AdminOk', PayeesOk', DistOk', ProposalsOk'
  PROVE  Inv'
<1>1. UNCHANGED <<payments, unbooked, drawn, unreported, unbacked, received>>
  BY DEF history
<1>2. HistoryOk' /\ GrantsOk' /\ account' \in [Tokens -> AccountRecord]
  BY <1>1 DEF Inv, TypeOK, HistoryOk, GrantsOk
<1>3. now' \in Nat
  BY DEF AdminOk
<1>4. MoneyKept' /\ GrantsPaidOnProof' /\ EpochsKept'
  BY <1>1, <1>3, QuietStep
<1>5. QED
  BY <1>2, <1>4 DEF Inv, TypeOK

LEMMA ProposalsKept == ASSUME Inv, UNCHANGED proposals PROVE ProposalsOk'
BY DEF Inv, TypeOK, ProposalsOk

LEMMA RestKept ==
  ASSUME Inv, UNCHANGED rest
  PROVE  PayeesOk' /\ DistOk' /\ GrantsOk' /\ GrantsPaidOnProof' /\ UNCHANGED grants
<1>1. PayeesOk'
  BY DEF Inv, TypeOK, PayeesOk, payeeVars, rest, SplitsOk
<1>2. DistOk' /\ GrantsOk' /\ UNCHANGED grants
  BY DEF Inv, TypeOK, DistOk, GrantsOk, rest
<1>3. GrantsPaidOnProof'
  BY <1>2 DEF Inv, GrantsPaidOnProof
<1>4. QED
  BY <1>1, <1>2, <1>3

LEMMA AdminKept == ASSUME Inv, UNCHANGED <<adminVars, now>> PROVE AdminOk'
BY DEF Inv, TypeOK, AdminOk, adminVars

(* The keys of one account change, but neither its sums nor its epoch.     *)
LEMMA KeysStep ==
  ASSUME Inv, NEW t \in Tokens,
         account' = [s \in Tokens |-> account'[s]],
         \A s \in Tokens : s # t => account'[s] = account[s],
         account'[t] \in AccountRecord, SameEpoch(t),
         account'[t].balance = account[t].balance, account'[t].collected = account[t].collected,
         account'[t].reserve = account[t].reserve,
         UNCHANGED <<adminVars, rest, history, now>>, ProposalsOk'
  PROVE  Inv'
<1>1. UNCHANGED <<payments, unbooked, drawn, unreported, unbacked, received>>
  BY DEF history
<1>2. OnlyAccount(t) /\ OnlyHistory(t)
  BY <1>1, HistoryTypes DEF OnlyAccount, OnlyHistory
<1>3. Balanced(t)
  BY <1>1, BooksNow DEF Balanced
<1>4. OtherKeysOk'
  BY RestKept, AdminKept DEF OtherKeysOk
<1>5. QED
  BY <1>1, <1>2, <1>3, <1>4, AccountStep

LEMMA ProposeCapInv ==
  ASSUME Inv, NEW a, NEW t \in Tokens, NEW c \in Caps, ProposeWithdrawalCap(a, t, c)
  PROVE  Inv'
<1> DEFINE acc == account[t]
<1>1. c \in Nat /\ now \in Nat /\ acc \in AccountRecord
  BY InputsOk, BooksNow, Clock
<1>2. /\ account' = [s \in Tokens |-> account'[s]]
      /\ \A s \in Tokens : s # t => account'[s] = account[s]
      /\ account'[t] = [listed |-> acc.listed, balance |-> acc.balance, collected |-> acc.collected,
                        reserve |-> acc.reserve, decimals |-> acc.decimals, cap |-> acc.cap,
                        proposedCap |-> c, capAt |-> now, start |-> acc.start, withdrawn |-> acc.withdrawn]
  BY DEF ProposeWithdrawalCap, Inv, TypeOK, AccountRecord
<1>3. account'[t] \in AccountRecord
  BY <1>1, <1>2 DEF AccountRecord
<1>4. /\ account'[t].balance = acc.balance /\ account'[t].collected = acc.collected
      /\ account'[t].reserve = acc.reserve /\ SameEpoch(t)
  BY <1>2 DEF SameEpoch
<1>5. QED
  BY <1>2, <1>3, <1>4, KeysStep, ProposalsKept DEF ProposeWithdrawalCap

LEMMA ExecuteCapInv ==
  ASSUME Inv, NEW a, NEW t \in Tokens, ExecuteWithdrawalCap(a, t)
  PROVE  Inv'
<1> DEFINE acc == account[t]
<1>1. acc \in AccountRecord
  BY DEF Inv, TypeOK
<1>2. /\ account' = [s \in Tokens |-> account'[s]]
      /\ \A s \in Tokens : s # t => account'[s] = account[s]
      /\ account'[t] = [listed |-> acc.listed, balance |-> acc.balance, collected |-> acc.collected,
                        reserve |-> acc.reserve, decimals |-> acc.decimals, cap |-> acc.proposedCap,
                        proposedCap |-> 0, capAt |-> -1, start |-> acc.start, withdrawn |-> acc.withdrawn]
  BY DEF ExecuteWithdrawalCap, Inv, TypeOK, AccountRecord
<1>3. account'[t] \in AccountRecord
  BY <1>1, <1>2 DEF AccountRecord
<1>4. /\ account'[t].balance = acc.balance /\ account'[t].collected = acc.collected
      /\ account'[t].reserve = acc.reserve /\ SameEpoch(t)
  BY <1>2 DEF SameEpoch
<1>5. QED
  BY <1>2, <1>3, <1>4, KeysStep, ProposalsKept DEF ExecuteWithdrawalCap

LEMMA DecimalsInv ==
  ASSUME Inv, NEW t \in Tokens, NEW d \in Nat, UpdateTokenDecimals(t, d), ProposalsOk'
  PROVE  Inv'
<1> DEFINE acc == account[t]
<1>1. acc \in AccountRecord
  BY DEF Inv, TypeOK
<1>2. /\ account' = [s \in Tokens |-> account'[s]]
      /\ \A s \in Tokens : s # t => account'[s] = account[s]
      /\ account'[t] = [acc EXCEPT !.decimals = d]
  BY DEF UpdateTokenDecimals, Inv, TypeOK
<1>3. account'[t] \in AccountRecord
  BY <1>1, <1>2 DEF AccountRecord
<1>4. /\ account'[t].balance = acc.balance /\ account'[t].collected = acc.collected
      /\ account'[t].reserve = acc.reserve /\ SameEpoch(t)
  BY <1>1, <1>2 DEF AccountRecord, SameEpoch
<1>5. QED
  BY <1>2, <1>3, <1>4, KeysStep DEF UpdateTokenDecimals

LEMMA WhitelistInv ==
  ASSUME Inv, NEW a, NEW t \in Tokens, WhitelistToken(a, t)
  PROVE  Inv'
<1> DEFINE acc == account[t]
<1>1. acc \in AccountRecord
  BY DEF Inv, TypeOK
<1>2. /\ account' = [s \in Tokens |-> account'[s]]
      /\ \A s \in Tokens : s # t => account'[s] = account[s]
      /\ account'[t] = [acc EXCEPT !.listed = TRUE]
  BY DEF WhitelistToken, Inv, TypeOK
<1>3. account'[t] \in AccountRecord
  BY <1>1, <1>2 DEF AccountRecord
<1>4. /\ account'[t].balance = acc.balance /\ account'[t].collected = acc.collected
      /\ account'[t].reserve = acc.reserve /\ SameEpoch(t)
  BY <1>1, <1>2 DEF AccountRecord, SameEpoch
<1>5. QED
  BY <1>2, <1>3, <1>4, KeysStep, ProposalsKept DEF WhitelistToken

LEMMA PayeesStep ==
  ASSUME Inv, Naming \/ \E a \in Address, s \in Splits : ConfigureSweepSplits(a, s)
  PROVE  Inv'
<1>1. now \in Nat /\ recipientAt \in [Address -> Int] /\ allowed \subseteq Address
  BY DEF Inv, TypeOK, AdminOk, PayeesOk
<1>2. UNCHANGED <<adminVars, account, grants, dist, proposals, history, now>>
  BY DEF Naming, ProposeRecipient, ExecuteRecipient, ConfigureSweepSplits
<1>3. PayeesOk'
  <2>1. ASSUME NEW a \in Address, NEW r \in Address, ProposeRecipient(a, r) PROVE PayeesOk'
    BY <1>1, <2>1 DEF ProposeRecipient, PayeesOk, SplitsOk, Inv, TypeOK
  <2>2. ASSUME NEW a \in Address, NEW r \in Address, ExecuteRecipient(a, r) PROVE PayeesOk'
    BY <1>1, <2>2 DEF ExecuteRecipient, PayeesOk, SplitsOk, Inv, TypeOK
  <2>3. ASSUME NEW a \in Address, NEW s \in Splits, ConfigureSweepSplits(a, s) PROVE PayeesOk'
    BY <1>1, <2>3 DEF ConfigureSweepSplits, PayeesOk
  <2>4. QED
    BY <2>1, <2>2, <2>3 DEF Naming
<1>4. DistOk' /\ AdminOk' /\ ProposalsOk'
  BY <1>2, AdminKept, ProposalsKept DEF Inv, TypeOK, DistOk
<1>5. now' >= now
  BY <1>1, <1>2
<1>6. QED
  BY <1>2, <1>3, <1>4, <1>5, QuietInv

LEMMA DistributionInv ==
  ASSUME Inv,
         \/ \E a \in Address, ss \in SUBSET Address, b \in Rates : ProposeDistribution(a, ss, b)
         \/ \E a \in Address : ExecuteDistribution(a)
  PROVE  Inv'
<1>1. /\ now \in Nat /\ Ttl \in Nat /\ Rates \subseteq Nat
      /\ dist \in [epoch : Nat, config : DistRecord, proposal : DistRecord, expires : Int]
  <2>1. Ttl \in Nat /\ Rates \subseteq Nat
    BY InputsOk, DelaysOk
  <2>2. QED
    BY <2>1 DEF Inv, TypeOK, AdminOk, DistOk
<1>2. UNCHANGED <<adminVars, payeeVars, account, grants, proposals, history, now>>
  BY DEF ProposeDistribution, ExecuteDistribution
<1>3. DistOk'
  <2>1. ASSUME NEW a \in Address, NEW ss \in SUBSET Address, NEW b \in Rates, ProposeDistribution(a, ss, b)
        PROVE  DistOk'
    <3>1. dist' = [epoch |-> dist.epoch, config |-> dist.config,
                   proposal |-> [stakeholders |-> ss, bps |-> b], expires |-> now + Ttl]
      BY <1>1, <2>1 DEF ProposeDistribution
    <3>2. [stakeholders |-> ss, bps |-> b] \in DistRecord
      BY <1>1 DEF DistRecord
    <3>3. dist' \in [epoch : Nat, config : DistRecord, proposal : DistRecord, expires : Int]
      BY <1>1, <3>1, <3>2
    <3>4. dist'.proposal.stakeholders = ss /\ dist'.epoch = dist.epoch /\ dist'.config = dist.config
      BY <3>1
    <3>5. ss # {} /\ (dist.epoch > 0 => dist.config.stakeholders # {})
      BY <2>1 DEF ProposeDistribution, DistOk, Inv, TypeOK
    <3>6. QED
      BY <3>3, <3>4, <3>5 DEF DistOk
  <2>2. ASSUME NEW a \in Address, ExecuteDistribution(a) PROVE DistOk'
    <3>1. dist' = [epoch |-> dist.epoch + 1, config |-> dist.proposal, proposal |-> NoDist, expires |-> -1]
      BY <2>2 DEF ExecuteDistribution
    <3>2. NoDist \in DistRecord
      BY DEF NoDist, DistRecord
    <3>3. dist' \in [epoch : Nat, config : DistRecord, proposal : DistRecord, expires : Int]
      BY <1>1, <3>1, <3>2
    <3>4. QED
      BY <2>2, <3>1, <3>3 DEF DistOk, ExecuteDistribution, Inv, TypeOK
  <2>3. QED
    BY <2>1, <2>2
<1>4. AdminOk' /\ ProposalsOk' /\ PayeesOk'
  BY <1>2, AdminKept, ProposalsKept DEF Inv, TypeOK, PayeesOk, payeeVars, SplitsOk
<1>5. now' >= now
  BY <1>1, <1>2
<1>6. QED
  BY <1>2, <1>3, <1>4, <1>5, QuietInv

(* Settings that the admin alone or the signers may change.                *)
LEMMA SettingInv ==
  ASSUME Inv, ProposalsOk',
         \/ \E b \in Nat : DoSetFeeBps(b)
         \/ DoProposeUpgrade
         \/ \E d \in Nat : SetTimelockDelay(d)
         \/ \E r : UpdateParameterRegistry(r)
  PROVE  Inv'
<1>1. UNCHANGED <<account, rest, history, now>>
  BY DEF DoSetFeeBps, DoProposeUpgrade, SetTimelockDelay, UpdateParameterRegistry
<1>2. now \in Nat
  BY DEF Inv, TypeOK, AdminOk
<1>3. AdminOk'
  <2>1. CASE \E b \in Nat : DoSetFeeBps(b)
    BY <2>1 DEF Inv, TypeOK, AdminOk, DoSetFeeBps
  <2>2. CASE DoProposeUpgrade
    BY <2>2 DEF Inv, TypeOK, AdminOk, DoProposeUpgrade
  <2>3. CASE \E d \in Nat : SetTimelockDelay(d)
    BY <2>3, SMTT(20) DEF Inv, TypeOK, AdminOk, SetTimelockDelay
  <2>4. CASE \E r : UpdateParameterRegistry(r)
    BY <2>4, SMTT(20) DEF Inv, TypeOK, AdminOk, UpdateParameterRegistry
  <2>5. QED
    BY <2>1, <2>2, <2>3, <2>4
<1>4. QED
  BY <1>1, <1>2, <1>3, RestKept, QuietInv

LEMMA AdministerInv ==
  ASSUME Inv, AdminOk', UNCHANGED <<account, rest, proposals, history, now>>
  PROVE  Inv'
<1>1. now \in Nat
  BY DEF Inv, TypeOK, AdminOk
<1>2. QED
  BY <1>1, RestKept, ProposalsKept, QuietInv

LEMMA SettingsInv ==
  ASSUME Inv, Setting
  PROVE  Inv'
<1>1. PICK a \in Address :
        \/ \E b \in Rates : SetFeeBps(a, b) \/ SetReserveAllocationBps(a, b) \/ SetParameterRegistry(a, b)
        \/ \E c \in Address : \/ SetReserveCaller(a, c, TRUE) \/ SetReserveCaller(a, c, FALSE)
                              \/ SetMarketplace(a, c) \/ ProposeAdmin(a, c)
        \/ AcceptAdmin(a) \/ CancelAdminProposal(a)
        \/ \E t \in Tokens : WhitelistToken(a, t) \/ SetTokenDecimals(a, t, 7)
                             \/ GenerateTransparencyReport(a, t)
        \/ ProposeUpgrade(a) \/ ExecuteUpgrade(a)
  BY DEF Setting
<1>2. /\ admin \in Address /\ pendingAdmin \in Address \union {Nobody} /\ reserveBps \in 0..10000
      /\ reserveCallers \in SUBSET Address /\ upgrade \in Int /\ -1 \in Int /\ now \in Nat
  BY DEF Inv, TypeOK, AdminOk
<1>3. ASSUME NEW b \in Rates, SetFeeBps(a, b) \/ SetParameterRegistry(a, b)
      PROVE  Inv'
  <2>1. b \in Nat
    BY InputsOk
  <2>2. ProposalsOk'
    BY <1>3, ProposalsKept DEF SetFeeBps, SetParameterRegistry
  <2>3. QED
    BY <1>3, <2>1, <2>2, SettingInv DEF SetFeeBps, SetParameterRegistry
<1>4. ASSUME NEW b \in Rates, SetReserveAllocationBps(a, b)
      PROVE  Inv'
  <2>1. b \in 0..10000
    BY InputsOk
  <2>2. AdminOk'
    BY <1>2, <1>4, <2>1, SMTT(20) DEF SetReserveAllocationBps, Administer, AdminOk, Inv, TypeOK
  <2>3. QED
    BY <1>4, <2>2, AdministerInv DEF SetReserveAllocationBps, Administer
<1>5. ASSUME NEW c \in Address, NEW on \in BOOLEAN, SetReserveCaller(a, c, on)
      PROVE  Inv'
  <2> DEFINE callers == IF on THEN reserveCallers \union {c} ELSE reserveCallers \ {c}
  <2>1. callers \in SUBSET Address
    BY <1>2
  <2>2. Administer(admin, pendingAdmin, reserveBps, callers, marketplace, upgrade)
    BY <1>5 DEF SetReserveCaller
  <2> HIDE DEF callers
  <2>3. AdminOk'
    BY <1>2, <2>1, <2>2, SMTT(20) DEF Administer, AdminOk, Inv, TypeOK
  <2>4. QED
    BY <2>2, <2>3, AdministerInv DEF Administer
<1>6. ASSUME NEW c \in Address, SetMarketplace(a, c) \/ ProposeAdmin(a, c)
      PROVE  Inv'
  <2>1. AdminOk'
    <3>1. CASE SetMarketplace(a, c)
      BY <3>1 DEF SetMarketplace, Administer, AdminOk, Inv, TypeOK
    <3>2. CASE ProposeAdmin(a, c)
      BY <3>2 DEF ProposeAdmin, Administer, AdminOk, Inv, TypeOK
    <3>3. QED
      BY <1>6, <3>1, <3>2
  <2>2. QED
    BY <1>6, <2>1, AdministerInv DEF SetMarketplace, ProposeAdmin, Administer
<1>7. ASSUME AcceptAdmin(a) \/ CancelAdminProposal(a) \/ ExecuteUpgrade(a)
      PROVE  Inv'
  <2>1. AdminOk'
    <3>1. CASE AcceptAdmin(a)
      BY <3>1 DEF AcceptAdmin, Administer, AdminOk, Inv, TypeOK
    <3>2. CASE CancelAdminProposal(a)
      BY <3>2 DEF CancelAdminProposal, Administer, AdminOk, Inv, TypeOK
    <3>3. CASE ExecuteUpgrade(a)
      BY <3>3 DEF ExecuteUpgrade, Administer, AdminOk, Inv, TypeOK
    <3>4. QED
      BY <1>7, <3>1, <3>2, <3>3
  <2>2. QED
    BY <1>7, <2>1, AdministerInv DEF AcceptAdmin, CancelAdminProposal, ExecuteUpgrade, Administer
<1>8. ASSUME NEW t \in Tokens, SetTokenDecimals(a, t, 7)
      PROVE  Inv'
  BY <1>8, DecimalsInv, ProposalsKept DEF SetTokenDecimals
<1>9. ASSUME NEW t \in Tokens, GenerateTransparencyReport(a, t)
      PROVE  Inv'
  <2>1. UNCHANGED <<adminVars, account, payeeVars, grants, dist, proposals, history, now>>
    BY <1>9 DEF GenerateTransparencyReport
  <2>2. AdminOk' /\ ProposalsOk' /\ PayeesOk' /\ DistOk'
    BY <2>1, AdminKept, ProposalsKept DEF Inv, TypeOK, PayeesOk, DistOk, payeeVars, SplitsOk
  <2>3. QED
    BY <1>2, <2>1, <2>2, QuietInv
<1>10. ASSUME ProposeUpgrade(a) PROVE Inv'
  <2>1. ProposalsOk'
    BY <1>10, ProposalsKept DEF ProposeUpgrade
  <2>2. QED
    BY <1>10, <2>1, SettingInv DEF ProposeUpgrade
<1>11. QED
  BY <1>1, <1>3, <1>4, <1>5, <1>6, <1>7, <1>8, <1>9, <1>10, WhitelistInv

LEMMA ReconfigureInv ==
  ASSUME Inv, NEW c \in Configs, Reconfigure(c)
  PROVE  Inv'
<1>1. UNCHANGED <<account, rest, proposals, history, now>> /\ now \in Nat
  BY DEF Reconfigure, Inv, TypeOK, AdminOk
<1>2. AdminOk'
  BY DEF Inv, TypeOK, AdminOk, Reconfigure
<1>3. QED
  BY <1>1, <1>2, RestKept, ProposalsKept, QuietInv

LEMMA TickInv == ASSUME Inv, Tick PROVE Inv'
<1>1. UNCHANGED <<adminVars, account, rest, proposals, history>> /\ now \in Nat /\ now' = now + 1
  BY DEF Tick, Inv, TypeOK, AdminOk
<1>2. AdminOk'
  BY <1>1 DEF Inv, TypeOK, AdminOk, adminVars
<1>3. QED
  BY <1>1, <1>2, RestKept, ProposalsKept, QuietInv

-------------------------------------------------------------------------------
(* Grants and proposals.                                                   *)

LEMMA GrantTypes ==
  ASSUME Inv, NEW g \in DOMAIN grants
  PROVE  grants[g] \in GrantRecord
BY DEF Inv, TypeOK, GrantsOk

(* A grant whose proofs cover its paid milestones and whose rest is what   *)
(* it still owes.                                                          *)
PaidOnProof(grant) ==
  /\ 1..(grant.next - 1) \subseteq grant.proofs
  /\ grant.proofs \subseteq 1..Len(grant.milestones)
  /\ ~grant.closed =>
       grant.remaining = SumOver(grant.milestones, grant.next..Len(grant.milestones))

(* One grant changes.                                                      *)
LEMMA GrantStep ==
  ASSUME Inv, NEW g \in DOMAIN grants, grants' = [j \in DOMAIN grants |-> grants'[j]],
         \A j \in DOMAIN grants : j # g => grants'[j] = grants[j],
         grants'[g] \in GrantRecord, PaidOnProof(grants'[g])
  PROVE  GrantsOk' /\ GrantsPaidOnProof'
<1>1. grants \in Seq(GrantRecord)
  BY DEF Inv, TypeOK, GrantsOk
<1>2. \A j \in DOMAIN grants : grants'[j] \in GrantRecord
  BY <1>1
<1>3. grants' \in Seq(GrantRecord)
  BY <1>1, <1>2
<1>4. DOMAIN grants' = DOMAIN grants
  OBVIOUS
<1>5. \A j \in DOMAIN grants : PaidOnProof(grants'[j])
  BY DEF Inv, GrantsPaidOnProof, PaidOnProof
<1>6. QED
  BY <1>3, <1>4, <1>5 DEF GrantsOk, GrantsPaidOnProof, PaidOnProof

LEMMA SubmitGrantKeeps ==
  ASSUME Inv, NEW r \in Address, NEW t \in Tokens, NEW m \in Milestones, SubmitGrantProposal(r, t, m)
  PROVE  GrantsOk' /\ GrantsPaidOnProof'
<1> DEFINE grant == [recipient |-> r, token |-> t, milestones |-> m, next |-> 1, proofs |-> {},
                     remaining |-> SumOver(m, DOMAIN m), reviewed |-> FALSE, closed |-> FALSE, active |-> now]
           D == DOMAIN m
<1>1. m \in Seq(Int) /\ D = 1..Len(m) /\ Len(m) \in Nat /\ \A i \in D : m[i] \in Nat \ {0}
  <2>1. m \in Seq(Int)
    BY MilestonesOk
  <2>2. QED
    BY <2>1 DEF SubmitGrantProposal
<1>2. m \in Seq(Nat \ {0})
  BY <1>1
<1>3. IsFiniteSet(D)
  BY <1>1, FS_Interval
<1>4. SumOver(m, D) \in Nat
  <2>1. \A i \in D : m[i] \in Nat
    BY <1>1
  <2> HIDE DEF D
  <2>2. QED
    BY <1>3, <2>1, SumNat
<1>5. now \in Nat /\ grants \in Seq(GrantRecord)
  BY DEF Inv, TypeOK, AdminOk, GrantsOk
<1>6. grant \in GrantRecord
  BY <1>2, <1>4, <1>5 DEF GrantRecord
<1>7. PaidOnProof(grant)
  BY <1>1 DEF PaidOnProof
<1>8. grants' = Append(grants, grant)
  BY DEF SubmitGrantProposal
<1> HIDE DEF grant
<1>9. grants' \in Seq(GrantRecord) /\ \A j \in DOMAIN grants' :
         grants'[j] = grant \/ (j \in DOMAIN grants /\ grants'[j] = grants[j])
  BY <1>5, <1>6, <1>8
<1>10. \A j \in DOMAIN grants' : PaidOnProof(grants'[j])
  BY <1>7, <1>9 DEF Inv, GrantsPaidOnProof, PaidOnProof
<1>11. QED
  BY <1>9, <1>10 DEF GrantsOk, GrantsPaidOnProof, PaidOnProof

LEMMA MilestoneProofKeeps ==
  ASSUME Inv, NEW r, NEW g \in DOMAIN grants, SubmitGrantMilestoneProof(r, g)
  PROVE  GrantsOk' /\ GrantsPaidOnProof'
<1> DEFINE grant == grants[g]
<1>1. grant \in GrantRecord /\ now \in Nat
  BY GrantTypes DEF Inv, TypeOK, AdminOk
<1>2. /\ grants' = [j \in DOMAIN grants |-> grants'[j]]
      /\ \A j \in DOMAIN grants : j # g => grants'[j] = grants[j]
      /\ grants'[g] = [recipient |-> grant.recipient, token |-> grant.token, milestones |-> grant.milestones,
                       next |-> grant.next, proofs |-> grant.proofs \union {grant.next},
                       remaining |-> grant.remaining, reviewed |-> grant.reviewed, closed |-> grant.closed,
                       active |-> now]
  BY <1>1 DEF SubmitGrantMilestoneProof, GrantRecord
<1>3. grants'[g] \in GrantRecord
  BY <1>1, <1>2 DEF GrantRecord
<1>4. grant.next <= Len(grant.milestones) /\ grant.next \in Nat \ {0}
  BY <1>1 DEF SubmitGrantMilestoneProof, GrantRecord
<1>5. PaidOnProof(grant)
  BY DEF Inv, GrantsPaidOnProof, PaidOnProof
<1>6. PaidOnProof(grants'[g])
  <2>1. /\ grants'[g].next = grant.next /\ grants'[g].milestones = grant.milestones
        /\ grants'[g].remaining = grant.remaining /\ grants'[g].closed = grant.closed
        /\ grants'[g].proofs = grant.proofs \union {grant.next}
    BY <1>2
  <2>2. Len(grant.milestones) \in Nat
    BY <1>1 DEF GrantRecord
  <2>3. QED
    BY <1>4, <1>5, <2>1, <2>2 DEF PaidOnProof
<1>7. QED
  BY <1>2, <1>3, <1>6, GrantStep

LEMMA ReviewGrantKeeps ==
  ASSUME Inv, NEW g, ReviewGrant(g)
  PROVE  GrantsOk' /\ GrantsPaidOnProof'
<1> DEFINE grant == grants[g]
<1>1. grant \in GrantRecord /\ now \in Nat /\ g \in DOMAIN grants
  BY GrantTypes, Clock DEF ReviewGrant
<1>2. /\ grants' = [j \in DOMAIN grants |-> grants'[j]]
      /\ \A j \in DOMAIN grants : j # g => grants'[j] = grants[j]
      /\ grants'[g] = [recipient |-> grant.recipient, token |-> grant.token, milestones |-> grant.milestones,
                       next |-> grant.next, proofs |-> grant.proofs,
                       remaining |-> grant.remaining, reviewed |-> TRUE, closed |-> grant.closed,
                       active |-> now]
  BY <1>1 DEF ReviewGrant, GrantRecord
<1>3. grants'[g] \in GrantRecord
  BY <1>1, <1>2 DEF GrantRecord
<1>4. PaidOnProof(grants'[g])
  <2>1. /\ grants'[g].next = grant.next /\ grants'[g].milestones = grant.milestones
        /\ grants'[g].remaining = grant.remaining /\ grants'[g].closed = grant.closed
        /\ grants'[g].proofs = grant.proofs
    BY <1>2
  <2>2. QED
    BY <1>1, <2>1 DEF Inv, GrantsPaidOnProof, PaidOnProof
<1>5. QED
  BY <1>1, <1>2, <1>3, <1>4, GrantStep

LEMMA ReclaimGrantKeeps ==
  ASSUME Inv, NEW g, ReclaimGrant(g)
  PROVE  GrantsOk' /\ GrantsPaidOnProof'
<1> DEFINE grant == grants[g]
<1>1. grant \in GrantRecord /\ g \in DOMAIN grants
  BY GrantTypes DEF ReclaimGrant
<1>2. /\ grants' = [j \in DOMAIN grants |-> grants'[j]]
      /\ \A j \in DOMAIN grants : j # g => grants'[j] = grants[j]
      /\ grants'[g] = [recipient |-> grant.recipient, token |-> grant.token, milestones |-> grant.milestones,
                       next |-> grant.next, proofs |-> grant.proofs,
                       remaining |-> 0, reviewed |-> grant.reviewed, closed |-> TRUE,
                       active |-> grant.active]
  BY <1>1 DEF ReclaimGrant, GrantRecord
<1>3. grants'[g] \in GrantRecord
  BY <1>1, <1>2 DEF GrantRecord
<1>4. PaidOnProof(grants'[g])
  <2>1. /\ grants'[g].next = grant.next /\ grants'[g].milestones = grant.milestones
        /\ grants'[g].closed = TRUE /\ grants'[g].proofs = grant.proofs
    BY <1>2
  <2>2. QED
    BY <1>1, <2>1 DEF Inv, GrantsPaidOnProof, PaidOnProof
<1>5. QED
  BY <1>1, <1>2, <1>3, <1>4, GrantStep

(* Releasing the next milestone pays what it took off the rest.            *)
LEMMA ReleaseGrantKeeps ==
  ASSUME Inv, NEW g, ReleaseGrantMilestone(g)
  PROVE  /\ GrantsOk' /\ GrantsPaidOnProof'
         /\ grants[g].token \in Tokens /\ grants[g].milestones[grants[g].next] \in Nat
<1> DEFINE grant  == grants[g]
           m      == grant.milestones
           amount == m[grant.next]
<1>1. grant \in GrantRecord /\ now \in Nat /\ g \in DOMAIN grants
  <2>1. g \in DOMAIN grants
    BY DEF ReleaseGrantMilestone
  <2>2. QED
    BY <2>1, GrantTypes DEF Inv, TypeOK, AdminOk
<1>2. /\ m \in Seq(Nat \ {0}) /\ grant.next \in Nat \ {0} /\ grant.next <= Len(m)
      /\ grant.token \in Tokens /\ grant.remaining \in Nat /\ ~grant.closed
  BY <1>1 DEF GrantRecord, ReleaseGrantMilestone
<1>3. /\ Len(m) \in Nat /\ grant.next \in 1..Len(m)
      /\ \A i \in 1..Len(m) : m[i] \in Nat /\ m[i] \in Int
  BY <1>2
<1>4. amount \in Nat
  BY <1>3
<1>5. grant.remaining - amount = SumOver(m, (grant.next + 1)..Len(m)) /\ grant.remaining - amount \in Nat
  <2> DEFINE S == grant.next..Len(m)
             R == (grant.next + 1)..Len(m)
  <2>1. R = S \ {grant.next} /\ grant.next \in S /\ S \subseteq 1..Len(m) /\ R \subseteq 1..Len(m)
    BY <1>3
  <2>2. IsFiniteSet(S) /\ IsFiniteSet(R)
    <3>1. IsFiniteSet(1..Len(m))
      <4>1. Len(m) \in Int
        BY <1>3
      <4> HIDE DEF m
      <4>2. QED
        BY <4>1, FS_Interval
    <3>2. QED
      BY <2>1, <3>1, FS_Subset
  <2>3. grant.remaining = SumOver(m, S)
    BY <1>1, <1>2 DEF Inv, GrantsPaidOnProof
  <2> HIDE DEF S, R
  <2>4. SumOver(m, S) = m[grant.next] + SumOver(m, R)
    BY <1>3, <2>1, <2>2, SumRemove
  <2>5. SumOver(m, R) \in Nat
    BY <1>3, <2>1, <2>2, SumNat
  <2>6. QED
    BY <1>4, <2>3, <2>4, <2>5 DEF R
<1>6. /\ grants' = [j \in DOMAIN grants |-> grants'[j]]
      /\ \A j \in DOMAIN grants : j # g => grants'[j] = grants[j]
      /\ grants'[g] = [recipient |-> grant.recipient, token |-> grant.token, milestones |-> grant.milestones,
                       next |-> grant.next + 1, proofs |-> grant.proofs,
                       remaining |-> grant.remaining - amount, reviewed |-> grant.reviewed,
                       closed |-> (grant.next = Len(grant.milestones)), active |-> now]
  BY <1>1 DEF ReleaseGrantMilestone, GrantRecord
<1>7. grants'[g] \in GrantRecord
  BY <1>1, <1>2, <1>5, <1>6 DEF GrantRecord
<1>8. PaidOnProof(grants'[g])
  <2>1. /\ grants'[g].next = grant.next + 1 /\ grants'[g].milestones = m
        /\ grants'[g].remaining = grant.remaining - amount /\ grants'[g].proofs = grant.proofs
    BY <1>6
  <2>2. grant.next \in grant.proofs
    BY DEF ReleaseGrantMilestone, ProofGiven
  <2>3. 1..(grant.next - 1) \subseteq grant.proofs /\ grant.proofs \subseteq 1..Len(m)
    BY <1>1 DEF Inv, GrantsPaidOnProof
  <2>4. 1..grant.next \subseteq grant.proofs
    BY <1>3, <2>2, <2>3
  <2>5. /\ 1..(grants'[g].next - 1) \subseteq grants'[g].proofs
        /\ grants'[g].proofs \subseteq 1..Len(grants'[g].milestones)
    <3>1. grants'[g].next - 1 = grant.next
      <4>1. \A x : x \in Nat => (x + 1) - 1 = x
        OBVIOUS
      <4>2. grant.next \in Nat
        BY <1>2
      <4>3. QED
        BY <2>1, <4>1, <4>2, Zenon
    <3>2. 1..(grants'[g].next - 1) \subseteq grants'[g].proofs
      BY <2>1, <2>4, <3>1, Zenon
    <3>3. grants'[g].proofs \subseteq 1..Len(grants'[g].milestones)
      BY <2>1, <2>3, Zenon
    <3>4. QED
      BY <3>2, <3>3, Zenon
  <2>6. grants'[g].remaining = SumOver(grants'[g].milestones, grants'[g].next..Len(grants'[g].milestones))
    BY <1>5, <2>1
  <2>7. QED
    BY <2>5, <2>6 DEF PaidOnProof
<1>9. QED
  BY <1>1, <1>2, <1>4, <1>6, <1>7, <1>8, GrantStep

LEMMA GrantOnlyInv ==
  ASSUME Inv, GrantsOk', GrantsPaidOnProof', ProposalsOk',
         UNCHANGED <<adminVars, account, payeeVars, dist, history, now>>
  PROVE  Inv'
<1>1. AdminOk'
  BY AdminKept
<1>2. PayeesOk' /\ DistOk'
  BY DEF Inv, TypeOK, PayeesOk, DistOk, payeeVars, SplitsOk
<1>3. UNCHANGED <<payments, unbooked, drawn, unreported, unbacked, received>>
  BY DEF history
<1>4. HistoryOk' /\ account' \in [Tokens -> AccountRecord]
  BY <1>3 DEF Inv, TypeOK, HistoryOk
<1>5. MoneyKept'
  BY <1>3 DEF Inv, MoneyKept, ReserveKept, CollectedAccounted
<1>6. EpochsKept'
  BY <1>3, SameEpochs
<1>7. QED
  BY <1>1, <1>2, <1>4, <1>5, <1>6 DEF Inv, TypeOK

LEMMA GrantingInv ==
  ASSUME Inv, Granting
  PROVE  Inv'
<1>1. UNCHANGED <<adminVars, account, payeeVars, dist, proposals, history, now>>
  BY DEF Granting, SubmitGrantProposal, SubmitGrantMilestoneProof
<1>2. GrantsOk' /\ GrantsPaidOnProof'
  BY SubmitGrantKeeps, MilestoneProofKeeps DEF Granting
<1>3. QED
  BY <1>1, <1>2, GrantOnlyInv, ProposalsKept

LEMMA ReleaseGrantInv ==
  ASSUME Inv, NEW g, ReleaseGrantMilestone(g), ProposalsOk'
  PROVE  Inv'
<1> DEFINE t   == grants[g].token
           acc == account[t]
           n   == grants[g].milestones[grants[g].next]
<1>1. GrantsOk' /\ GrantsPaidOnProof' /\ t \in Tokens /\ n \in Nat
  BY ReleaseGrantKeeps
<1>2. n <= acc.balance - acc.reserve
  <2>1. acc.balance - acc.reserve >= n
    BY DEF ReleaseGrantMilestone, GrantReserveOk, Spendable
  <2>2. QED
    BY <1>1, <2>1, BooksNow
<1>3. /\ account' = [account EXCEPT ![t].balance = @ - n]
      /\ unbooked' = [unbooked EXCEPT ![t] = @ + n]
      /\ UNCHANGED <<adminVars, payeeVars, dist, payments, drawn, received, unreported, unbacked, now>>
  BY DEF ReleaseGrantMilestone
<1> HIDE DEF t, n
<1>4. /\ account' = [s \in Tokens |-> account'[s]]
      /\ \A s \in Tokens : s # t => account'[s] = account[s]
      /\ account'[t] = WithSums(acc, acc.balance - n, acc.collected, acc.reserve)
  BY <1>1, <1>3 DEF Inv, TypeOK, AccountRecord, WithSums
<1>5. OnlyHistory(t) /\ drawn'[t] = drawn[t] /\ unreported'[t] = unreported[t] /\ unbacked'[t] = unbacked[t]
      /\ unbooked'[t] = unbooked[t] + n
  BY <1>1, <1>3, HistoryTypes DEF OnlyHistory
<1>6. acc.balance - n \in Nat /\ acc.collected \in Int /\ acc.reserve \in Nat
  BY <1>1, <1>2, BooksNow
<1>7. /\ acc.balance - n + drawn'[t] + unbacked'[t] >= acc.reserve
      /\ acc.balance - n + unbooked'[t] = acc.collected + unreported'[t]
  BY <1>1, <1>2, <1>5, BooksNow
<1>8. OtherKeysOk'
  BY <1>1, <1>3, AdminKept DEF OtherKeysOk, Inv, TypeOK, PayeesOk, DistOk, payeeVars, SplitsOk
<1>9. /\ account'[t] \in AccountRecord /\ account'[t].balance = acc.balance - n
      /\ account'[t].collected = acc.collected /\ account'[t].reserve = acc.reserve
      /\ SameEpoch(t)
  <2>1. acc \in AccountRecord
    BY <1>1, BooksNow
  <2> HIDE DEF acc
  <2>2. account'[t] \in AccountRecord
    BY <1>4, <1>6, <2>1, WithSumsType
  <2>3. /\ account'[t].balance = acc.balance - n /\ account'[t].collected = acc.collected
        /\ account'[t].reserve = acc.reserve
    BY <1>4, <2>1 DEF WithSums, AccountRecord
  <2>4. SameEpoch(t)
    <3>1. account'[t].start = acc.start /\ account'[t].withdrawn = acc.withdrawn
      BY <1>4, <2>1 DEF WithSums, AccountRecord
    <3>2. QED
      BY <3>1 DEF acc, SameEpoch
  <2>5. QED
    BY <2>2, <2>3, <2>4
<1>10. OnlyAccount(t) /\ Balanced(t)
  BY <1>4, <1>7, <1>9 DEF OnlyAccount, Balanced
<1>11. QED
  BY <1>1, <1>3, <1>5, <1>8, <1>9, <1>10, AccountStep

LEMMA ProposalTypes ==
  ASSUME Inv, NEW id \in DOMAIN proposals
  PROVE  proposals[id] \in ProposalRecord /\ proposals[id].action \in Actions
         /\ proposals[id].approvals \subseteq Address /\ proposals[id].delay \in Nat
         /\ proposals[id].created \in Nat
<1>1. proposals[id] \in ProposalRecord
  BY DEF Inv, TypeOK, ProposalsOk
<1>2. QED
  BY <1>1 DEF ProposalRecord

LEMMA ProposeKeeps ==
  ASSUME Inv, NEW s \in Address, NEW act \in Actions, ProposeTreasuryAction(s, act)
  PROVE  ProposalsOk'
<1> DEFINE p == [action |-> act, approvals |-> {s}, executed |-> FALSE,
                 created |-> now, expires |-> now + Ttl, delay |-> delay]
<1>1. now \in Nat /\ delay \in Nat /\ Ttl \in Nat
  BY DelaysOk DEF Inv, TypeOK, AdminOk
<1>2. p \in ProposalRecord
  BY <1>1 DEF ProposalRecord
<1>3. proposals' = Append(proposals, p)
  BY DEF ProposeTreasuryAction
<1> HIDE DEF p
<1>4. QED
  BY <1>2, <1>3 DEF Inv, TypeOK, ProposalsOk

LEMMA OneProposalKeeps ==
  ASSUME Inv, NEW id \in DOMAIN proposals, NEW p \in ProposalRecord,
         proposals' = [proposals EXCEPT ![id] = p]
  PROVE  ProposalsOk'
BY DEF Inv, TypeOK, ProposalsOk

LEMMA ApproveKeeps ==
  ASSUME Inv, NEW s \in Address, NEW id \in DOMAIN proposals, ApproveTreasuryAction(s, id)
  PROVE  ProposalsOk'
<1> DEFINE p == [proposals[id] EXCEPT !.approvals = @ \union {s}]
<1>1. p \in ProposalRecord
  BY ProposalTypes DEF ProposalRecord
<1>2. proposals' = [proposals EXCEPT ![id] = p]
  BY DEF ApproveTreasuryAction
<1> HIDE DEF p
<1>3. QED
  BY <1>1, <1>2, OneProposalKeeps

LEMMA ExecuteKeeps ==
  ASSUME Inv, NEW s, NEW id \in DOMAIN proposals, ExecuteTreasuryAction(s, id)
  PROVE  ProposalsOk'
<1> DEFINE p == [proposals[id] EXCEPT !.executed = TRUE]
<1>1. p \in ProposalRecord
  BY ProposalTypes DEF ProposalRecord
<1>2. proposals' = [proposals EXCEPT ![id] = p]
  BY DEF ExecuteTreasuryAction
<1> HIDE DEF p
<1>3. QED
  BY <1>1, <1>2, OneProposalKeeps

(* The actions that a proposal performs.                                   *)
LEMMA PerformInv ==
  ASSUME Inv, ProposalsOk', NEW act \in Actions, Perform(act)
  PROVE  Inv'
<1>1. ActionOk(act)
  BY ActionsOk
<1>2. CASE act.type = "Withdraw" /\ DoWithdraw(act.token, act.to, act.amount)
  <2>1. act.token \in Tokens /\ act.amount \in Int
    BY <1>1, <1>2 DEF ActionOk
  <2>2. QED
    BY <1>2, <2>1, DoWithdrawInv
<1>3. CASE act.type = "SetFeeBps" /\ DoSetFeeBps(act.bps)
  <2>1. act.bps \in Nat
    BY <1>1, <1>3 DEF ActionOk
  <2>2. QED
    BY <1>3, <2>1, SettingInv
<1>4. CASE act.type = "ProposeUpgrade" /\ DoProposeUpgrade
  BY <1>4, SettingInv
<1>5. CASE act.type = "ReviewGrant" /\ ReviewGrant(act.grant)
  <2>1. GrantsOk' /\ GrantsPaidOnProof'
    BY <1>5, ReviewGrantKeeps
  <2>2. UNCHANGED <<adminVars, account, payeeVars, dist, history, now>>
    BY <1>5 DEF ReviewGrant
  <2>3. QED
    BY <2>1, <2>2, GrantOnlyInv
<1>6. CASE act.type = "ReleaseGrantMilestone" /\ ReleaseGrantMilestone(act.grant)
  BY <1>6, ReleaseGrantInv
<1>7. CASE act.type = "ReclaimGrant" /\ ReclaimGrant(act.grant)
  <2>1. GrantsOk' /\ GrantsPaidOnProof'
    BY <1>7, ReclaimGrantKeeps
  <2>2. UNCHANGED <<adminVars, account, payeeVars, dist, history, now>>
    BY <1>7 DEF ReclaimGrant
  <2>3. QED
    BY <2>1, <2>2, GrantOnlyInv
<1>8. CASE act.type = "SetTimelockDelay" /\ SetTimelockDelay(act.delay)
  <2>1. act.delay \in Nat
    BY <1>1, <1>8 DEF ActionOk
  <2>2. QED
    BY <1>8, <2>1, SettingInv
<1>9. CASE act.type = "SetParameterRegistry" /\ UpdateParameterRegistry(act.ratio)
  BY <1>9, SettingInv
<1>10. CASE act.type = "SetTokenDecimals" /\ UpdateTokenDecimals(act.token, act.decimals)
  <2>1. act.token \in Tokens /\ act.decimals \in Nat
    BY <1>1, <1>10 DEF ActionOk
  <2>2. QED
    BY <1>10, <2>1, DecimalsInv
<1>11. QED
  BY <1>2, <1>3, <1>4, <1>5, <1>6, <1>7, <1>8, <1>9, <1>10 DEF Perform

LEMMA ProposingInv ==
  ASSUME Inv, Proposing
  PROVE  Inv'
<1>1. PICK s \in Address :
        \/ \E act \in Actions : ProposeTreasuryAction(s, act)
        \/ \E id \in DOMAIN proposals : ApproveTreasuryAction(s, id) \/ ExecuteTreasuryAction(s, id)
  BY DEF Proposing
<1>2. now \in Nat
  BY DEF Inv, TypeOK, AdminOk
<1>3. ASSUME ProposalsOk', UNCHANGED <<adminVars, account, rest, history, now>>
      PROVE  Inv'
  BY <1>2, <1>3, AdminKept, RestKept, QuietInv
<1>4. ASSUME NEW act \in Actions, ProposeTreasuryAction(s, act) PROVE Inv'
  BY <1>3, <1>4, ProposeKeeps DEF ProposeTreasuryAction
<1>5. ASSUME NEW id \in DOMAIN proposals, ApproveTreasuryAction(s, id) PROVE Inv'
  BY <1>3, <1>5, ApproveKeeps DEF ApproveTreasuryAction
<1>6. ASSUME NEW id \in DOMAIN proposals, ExecuteTreasuryAction(s, id) PROVE Inv'
  <2>1. ProposalsOk' /\ proposals[id].action \in Actions
    BY <1>6, ExecuteKeeps, ProposalTypes
  <2>2. QED
    BY <1>6, <2>1, PerformInv DEF ExecuteTreasuryAction
<1>7. QED
  BY <1>1, <1>4, <1>5, <1>6

-------------------------------------------------------------------------------
LEMMA InitInv == Init => Inv
<1> SUFFICES ASSUME Init PROVE Inv
  OBVIOUS
<1>1. account = [t \in Tokens |-> Empty] /\ payments = <<>> /\ grants = <<>> /\ proposals = <<>> /\ now = 0
  BY DEF Init
<1>2. Empty \in AccountRecord
  BY DEF Empty, AccountRecord
<1>3. AdminOk
  BY AddressesOk, DelaysOk DEF Init, AdminOk
<1>4. PayeesOk /\ DistOk
  <2>1. NoDist \in DistRecord
    BY DEF NoDist, DistRecord
  <2>2. PayeesOk
    BY DEF Init, PayeesOk
  <2>3. DistOk
    BY <2>1 DEF Init, DistOk
  <2>4. QED
    BY <2>2, <2>3
<1>5. HistoryOk /\ GrantsOk /\ ProposalsOk
  BY DEF Init, HistoryOk, GrantsOk, ProposalsOk
<1>6. TypeOK
  BY <1>1, <1>2, <1>3, <1>4, <1>5 DEF TypeOK
<1>7. MoneyKept
  BY DEF Init, Empty, MoneyKept, ReserveKept, CollectedAccounted
<1>8. GrantsPaidOnProof /\ PaidInTime /\ EpochsApart /\ EpochWithinCap
  BY <1>1 DEF GrantsPaidOnProof, PaidInTime, EpochsApart, EpochWithinCap
<1>9. CounterKept
  <2>1. \A t, s, n : Counted(payments, t, s, n) = {}
    BY <1>1 DEF Counted
  <2>2. \A t, s, n : Seen(payments, t, s, n) = 0
    BY <2>1, SumEmpty DEF Seen
  <2>3. QED
    BY <1>1, <2>2 DEF CounterKept, Empty
<1>10. QED
  BY <1>6, <1>7, <1>8, <1>9 DEF Inv, EpochsKept

LEMMA StepInv == Inv /\ [Next]_vars => Inv'
<1> SUFFICES ASSUME Inv, [Next]_vars PROVE Inv'
  OBVIOUS
<1>1. CASE Collecting
  BY <1>1, CollectFeeInv, PayFeeInv, DonateInv DEF Collecting
<1>2. CASE Withdrawing
  <2>1. PICK a \in Address, r \in Address, t \in Tokens, n \in Amounts : Withdraw(a, t, r, n)
    BY <1>2 DEF Withdrawing
  <2>2. n \in Int
    BY InputsOk
  <2>3. QED
    BY <2>1, <2>2, DoWithdrawInv, ProposalsKept DEF Withdraw
<1>3. CASE Capping
  BY <1>3, ProposeCapInv, ExecuteCapInv DEF Capping
<1>4. CASE Naming
  BY <1>4, PayeesStep
<1>5. CASE Returning
  BY <1>5, RefundFeeInv, DisburseInv DEF Returning
<1>6. CASE Sweeping
  BY <1>6, PayeesStep, SweepInv DEF Sweeping
<1>7. CASE Sharing
  BY <1>7, DistributionInv, ClaimShareInv DEF Sharing
<1>8. CASE Granting
  BY <1>8, GrantingInv
<1>9. CASE Proposing
  BY <1>9, ProposingInv
<1>10. CASE Setting
  BY <1>10, SettingsInv
<1>11. CASE \E c \in Configs : Reconfigure(c)
  BY <1>11, ReconfigureInv
<1>12. CASE Tick
  BY <1>12, TickInv
<1>13. CASE UNCHANGED vars
  <2>1. UNCHANGED <<adminVars, account, rest, proposals, history, now>>
    BY <1>13 DEF vars
  <2>2. now \in Nat
    BY DEF Inv, TypeOK, AdminOk
  <2>3. QED
    BY <2>1, <2>2, AdminKept, RestKept, ProposalsKept, QuietInv
<1>14. QED
  BY <1>1, <1>2, <1>3, <1>4, <1>5, <1>6, <1>7, <1>8, <1>9, <1>10, <1>11, <1>12, <1>13 DEF Next

LEMMA InvAlways == Spec => []Inv
BY InitInv, StepInv, PTL DEF Spec

(* Payments of one token in one epoch, all under a cap: the last of them   *)
(* bounds what they sum up to.                                             *)
LEMMA EpochBound ==
  ASSUME Inv, NEW V \in SUBSET (DOMAIN payments), NEW t, NEW s, NEW c \in Nat,
         \A j \in V : /\ payments[j].token = t /\ payments[j].start = s
                      /\ 0 < payments[j].cap /\ payments[j].cap <= c
  PROVE  SumOver(PaidOut(payments), V) \in Nat /\ SumOver(PaidOut(payments), V) <= c
<1> DEFINE f == PaidOut(payments)
           L == Len(payments)
<1>1. L \in Nat /\ DOMAIN payments = 1..L /\ \A j \in 1..L : payments[j] \in PaymentRecord
  BY DEF Inv, TypeOK, HistoryOk
<1> HIDE DEF L
<1>2. IsFiniteSet(1..L)
  BY <1>1, FS_Interval
<1>3. IsFiniteSet(V) /\ V \subseteq 1..L
  BY <1>1, <1>2, FS_Subset
<1>4. \A j \in 1..L : f[j] \in Nat
  BY <1>1, CountedFinite
<1>5. SumOver(f, V) \in Nat
  BY <1>3, <1>4, SumNat
<1>6. CASE V = {}
  BY <1>6, SumEmpty
<1>7. CASE V # {}
  <2> DEFINE m == Max(V)
  <2>1. V \in SUBSET Int
    BY <1>3
  <2>2. m \in V /\ \A j \in V : j <= m
    BY <1>3, <1>7, <2>1, MaxIsLargest
  <2> HIDE DEF m
  <2> DEFINE C == Counted(payments, t, s, m)
  <2>3. V \subseteq C
    BY <2>2 DEF Counted
  <2>4. IsFiniteSet(C) /\ C \subseteq 1..L
    BY <1>1, CountedFinite
  <2>5. SumOver(f, V) <= SumOver(f, C) /\ SumOver(f, C) \in Nat
    <3> HIDE DEF C, f
    <3>1. \A j \in C : f[j] \in Nat
      BY <1>4, <2>4
    <3>2. QED
      BY <2>3, <2>4, <3>1, SumSubset, SumNat
  <2>6. SumOver(f, C) <= payments[m].cap
    BY <2>2 DEF Inv, EpochsKept, EpochWithinCap, Seen
  <2>7. payments[m].cap <= c /\ payments[m].cap \in Nat
    BY <2>2, PaymentTypes
  <2> HIDE DEF C, f
  <2>8. QED
    BY <1>5, <2>5, <2>6, <2>7 DEF f
<1>8. QED
  BY <1>5, <1>6, <1>7

(* A stretch of EPOCH_DURATION meets at most two epochs of a token.        *)
LEMMA TwoEpochs == Inv => TwiceTheCap
<1> SUFFICES ASSUME Inv, NEW i \in DOMAIN payments, payments[i].cap > 0
             PROVE  LET window == {j \in DOMAIN payments :
                          /\ payments[j].token = payments[i].token /\ payments[j].cap > 0
                          /\ payments[j].at \in (payments[i].at - EpochLength + 1)..payments[i].at}
                    IN  SumOver([j \in window |-> payments[j].amount], window)
                          <= 2 * Max({payments[j].cap : j \in window})
  BY DEF TwiceTheCap
<1> DEFINE W    == {j \in DOMAIN payments :
                      /\ payments[j].token = payments[i].token /\ payments[j].cap > 0
                      /\ payments[j].at \in (payments[i].at - EpochLength + 1)..payments[i].at}
           caps == {payments[j].cap : j \in W}
           c    == Max(caps)
           b    == payments[i].start
           f    == PaidOut(payments)
           now_ == {j \in W : payments[j].start = b}
           old  == {j \in W : payments[j].start # b}
<1>1. DOMAIN payments = 1..Len(payments) /\ Len(payments) \in Nat
  BY DEF Inv, TypeOK, HistoryOk
<1>2. IsFiniteSet(DOMAIN payments)
  BY <1>1, FS_Interval
<1>3. IsFiniteSet(W) /\ i \in W
  <2>1. IsFiniteSet(W)
    BY <1>2, FS_Subset
  <2>2. EpochLength \in Nat /\ EpochLength > 0 /\ payments[i].at \in Nat
    BY DelaysOk, PaymentTypes
  <2>3. QED
    BY <2>1, <2>2
<1>4. c \in Nat /\ \A j \in W : payments[j].cap \in Nat /\ payments[j].cap <= c /\ payments[j].cap > 0
  <2>1. IsFiniteSet(caps)
    <3> DEFINE g == [j \in W |-> payments[j].cap]
    <3>1. caps = {g[j] : j \in W}
      OBVIOUS
    <3> HIDE DEF W, g
    <3>2. QED
      BY <1>3, <3>1, FiniteValues
  <2>2. caps \in SUBSET Nat /\ caps # {}
    BY <1>3, PaymentTypes
  <2> HIDE DEF caps
  <2>3. c \in caps /\ \A y \in caps : y <= c
    BY <2>1, <2>2, MaxIsLargest
  <2>4. QED
    BY <2>2, <2>3 DEF caps
<1> HIDE DEF c
<1>5. SumOver([j \in W |-> payments[j].amount], W) = SumOver(f, W)
  <2>1. \A j \in W : [k \in W |-> payments[k].amount][j] = f[j]
    BY DEF PaidOut
  <2> HIDE DEF W, f
  <2>2. QED
    BY <1>3, <2>1, SumSame
<1>6. SumOver(f, W) = SumOver(f, now_) + SumOver(f, old)
  <2>1. W = now_ \union old /\ now_ \cap old = {} /\ now_ \subseteq W /\ old \subseteq W
    OBVIOUS
  <2>2. IsFiniteSet(now_) /\ IsFiniteSet(old)
    BY <1>3, FS_Subset
  <2>3. \A j \in W : f[j] \in Int
    BY PaymentTypes DEF PaidOut
  <2> HIDE DEF W, f, now_, old
  <2>4. QED
    BY <2>1, <2>2, <2>3, SumUnion
<1>7. SumOver(f, now_) \in Nat /\ SumOver(f, now_) <= c
  <2>1. now_ \in SUBSET (DOMAIN payments)
    OBVIOUS
  <2>2. \A j \in now_ : /\ payments[j].token = payments[i].token /\ payments[j].start = b
                         /\ 0 < payments[j].cap /\ payments[j].cap <= c
    BY <1>4
  <2> HIDE DEF now_, f
  <2>3. QED
    BY <1>4, <2>1, <2>2, EpochBound DEF f
<1>8. \A j, k \in old : payments[j].start = payments[k].start
  <2> SUFFICES ASSUME NEW j \in old, NEW k \in old PROVE payments[j].start = payments[k].start
    OBVIOUS
  <2>1. EpochLength \in Nat /\ EpochLength > 0
    BY DelaysOk
  <2>2. /\ payments[i].at \in Nat /\ payments[j].at \in Nat /\ payments[k].at \in Nat
        /\ b \in Nat /\ payments[j].start \in Nat /\ payments[k].start \in Nat
    BY PaymentTypes
  <2>3. /\ b <= payments[i].at /\ payments[i].at < b + EpochLength
        /\ payments[j].start <= payments[j].at /\ payments[j].at < payments[j].start + EpochLength
        /\ payments[k].start <= payments[k].at /\ payments[k].at < payments[k].start + EpochLength
    BY DEF Inv, EpochsKept, PaidInTime
  <2>4. /\ payments[i].at - EpochLength + 1 <= payments[j].at /\ payments[j].at <= payments[i].at
        /\ payments[i].at - EpochLength + 1 <= payments[k].at /\ payments[k].at <= payments[i].at
    BY <2>1, <2>2
  <2>5. /\ payments[j].start # b /\ payments[k].start # b
        /\ payments[j].token = payments[i].token /\ payments[k].token = payments[i].token
    OBVIOUS
  <2>6. /\ payments[j].start + EpochLength <= b \/ b + EpochLength <= payments[j].start
        /\ payments[k].start + EpochLength <= b \/ b + EpochLength <= payments[k].start
        /\ \/ payments[j].start = payments[k].start
           \/ payments[j].start + EpochLength <= payments[k].start
           \/ payments[k].start + EpochLength <= payments[j].start
    BY <2>5 DEF Inv, EpochsKept, EpochsApart
  <2> HIDE DEF b, old, W
  <2>7. QED
    BY <2>1, <2>2, <2>3, <2>4, <2>6
<1>9. SumOver(f, old) \in Nat /\ SumOver(f, old) <= c
  <2>1. old \in SUBSET (DOMAIN payments)
    OBVIOUS
  <2>2. \E s : \A j \in old : /\ payments[j].token = payments[i].token /\ payments[j].start = s
                               /\ 0 < payments[j].cap /\ payments[j].cap <= c
    <3>1. CASE old = {}
      BY <3>1
    <3>2. CASE old # {}
      <4>1. PICK k \in old : TRUE
        BY <3>2
      <4>2. \A j \in old : /\ payments[j].token = payments[i].token /\ payments[j].start = payments[k].start
                           /\ 0 < payments[j].cap /\ payments[j].cap <= c
        BY <1>4, <1>8
      <4>3. QED
        BY <4>2
    <3>3. QED
      BY <3>1, <3>2
  <2> HIDE DEF old, f
  <2>3. QED
    BY <1>4, <2>1, <2>2, EpochBound DEF f
<1> HIDE DEF f, now_, old
<1>10. SumOver([j \in W |-> payments[j].amount], W) <= 2 * c
  BY <1>4, <1>5, <1>6, <1>7, <1>9
<1>11. QED
  BY <1>10 DEF c

-------------------------------------------------------------------------------
(* Type correctness: whatever is called in whatever order, no balance,     *)
(* reserve or rest of a grant is overdrawn.                                *)
THEOREM TypeCorrect == Spec => []TypeOK
<1>1. Inv => TypeOK
  BY DEF Inv
<1>2. QED
  BY <1>1, InvAlways, PTL

(* withdraw, sweep_fees and release_grant_milestone never reach into the   *)
(* loss reserve of a token, for any number of tokens and payees: what is   *)
(* missing was paid by refund_fee and claim_share, or is an allocation     *)
(* that collect_fee made for a fee nobody paid.                            *)
THEOREM ReserveAlwaysKept == Spec => []ReserveKept
<1>1. Inv => ReserveKept
  BY DEF Inv, MoneyKept
<1>2. QED
  BY <1>1, InvAlways, PTL

(* Collected differs from each token's balance by exactly what came in     *)
(* unreported, what was reported without coming in (collect_fee), and what *)
(* was paid without booking it; a grant's rest is the sum of its unpaid milestones, each paid on a proof of its own.          *)
THEOREM BooksAlwaysFollowMoney == Spec => []BooksFollowMoney
<1>1. Inv => BooksFollowMoney
  BY DEF Inv, MoneyKept, BooksFollowMoney
<1>2. QED
  BY <1>1, InvAlways, PTL

(* enforce_rate_limit lets at most twice the largest cap in force leave in *)
(* any stretch of EPOCH_DURATION, for every sequence of cap changes.       *)
THEOREM NeverMoreThanTwiceTheCap == Spec => []TwiceTheCap
BY TwoEpochs, InvAlways, PTL

(* The decimals of a token are written by update_token_decimals alone.     *)
LEMMA DecimalsAlone ==
  ASSUME Inv,
         \/ Collecting \/ Returning \/ Capping \/ Sweeping \/ Sharing \/ Granting \/ Naming
         \/ \E a \in Address, t \in Tokens : WhitelistToken(a, t)
  PROVE  ~DecimalsChange
<1>1. account \in [Tokens -> AccountRecord]
  BY DEF Inv, TypeOK
<1>2. CASE Collecting
  <2>1. CASE \E t \in Tokens, n \in Amounts : CollectFee(t, n)
    BY <1>1, <2>1 DEF CollectFee, Reported, DecimalsChange, AccountRecord
  <2>2. CASE \E t \in Tokens, n \in Amounts : PayFee(t, n)
    BY <1>1, <2>2 DEF PayFee, Reported, DecimalsChange, AccountRecord
  <2>3. CASE \E t \in Tokens, n \in Amounts : Donate(t, n)
    BY <1>1, <2>3 DEF Donate, DecimalsChange, AccountRecord
  <2>4. QED
    BY <1>2, <2>1, <2>2, <2>3 DEF Collecting
<1>3. CASE Returning
  BY <1>1, <1>3 DEF Returning, RefundFee, DisburseFromReserve, DecimalsChange, AccountRecord
<1>4. CASE Capping
  <2>1. CASE \E a \in Address, t \in Tokens, c \in Caps : ProposeWithdrawalCap(a, t, c)
    BY <1>1, <2>1 DEF ProposeWithdrawalCap, DecimalsChange, AccountRecord
  <2>2. CASE \E a \in Address, t \in Tokens : ExecuteWithdrawalCap(a, t)
    BY <1>1, <2>2 DEF ExecuteWithdrawalCap, DecimalsChange, AccountRecord
  <2>3. QED
    BY <1>4, <2>1, <2>2 DEF Capping
<1>5. CASE Sweeping
  <2>1. CASE \E t \in Tokens : Sweep(t)
    BY <1>1, <2>1 DEF Sweep, DecimalsChange, AccountRecord
  <2>2. QED
    BY <1>5, <2>1 DEF Sweeping, ConfigureSweepSplits, DecimalsChange
<1>6. CASE Sharing
  <2>1. CASE \E a \in Address, t \in Tokens : ClaimShare(a, t)
    BY <1>1, <2>1 DEF ClaimShare, DecimalsChange, AccountRecord
  <2>2. QED
    BY <1>6, <2>1 DEF Sharing, ProposeDistribution, ExecuteDistribution, DecimalsChange
<1>7. CASE Granting \/ Naming
  BY <1>7 DEF Granting, SubmitGrantProposal, SubmitGrantMilestoneProof, Naming, ProposeRecipient,
              ExecuteRecipient, DecimalsChange
<1>8. CASE \E a \in Address, t \in Tokens : WhitelistToken(a, t)
  BY <1>1, <1>8 DEF WhitelistToken, DecimalsChange, AccountRecord
<1>9. QED
  BY <1>2, <1>3, <1>4, <1>5, <1>6, <1>7, <1>8

(* What QuorumForWithdrawals says of a step.                               *)
Guarded == payments' # payments \/ feeBps' # feeBps \/ ratio' # ratio \/ DecimalsChange
QuorumStep == config.threshold > 1 /\ Guarded => ByProposal

LEMMA OnlyByProposal ==
  ASSUME Inv, Next, config.threshold > 1, Guarded
  PROVE  \E s \in Address, id \in DOMAIN proposals : ExecuteTreasuryAction(s, id)
<1>1. ~Withdrawing
  <2>1. config = NoConfig \/ config \in Configs
    BY DEF Inv, TypeOK, AdminOk
  <2>2. config.threshold \in Nat
    BY <2>1, ConfigsOk DEF NoConfig
  <2>3. QED
    BY <2>2 DEF Withdrawing, Withdraw, Direct
<1>2. ~(Collecting \/ Capping \/ Naming)
  BY DecimalsAlone DEF Guarded, Collecting, CollectFee, PayFee, Donate, Capping, ProposeWithdrawalCap, ExecuteWithdrawalCap, Naming,
         ProposeRecipient, ExecuteRecipient, adminVars, history
<1>3. ~(Returning \/ Sweeping)
  BY DecimalsAlone DEF Guarded, Returning, RefundFee, DisburseFromReserve, Sweeping, ConfigureSweepSplits, Sweep, adminVars, history
<1>4. ~(Sharing \/ Granting)
  BY DecimalsAlone DEF Guarded, Sharing, ProposeDistribution, ExecuteDistribution, ClaimShare, Granting, SubmitGrantProposal,
         SubmitGrantMilestoneProof, adminVars, history
<1>5. ~((\E c \in Configs : Reconfigure(c)) \/ Tick)
  BY DEF Guarded, DecimalsChange, Reconfigure, Tick, adminVars, history
<1>6. ~Setting
  <2>1. config = NoConfig \/ config \in Configs
    BY DEF Inv, TypeOK, AdminOk
  <2>2. config.threshold \in Nat
    BY <2>1, ConfigsOk DEF NoConfig
  <2>3. \A a, b, t : ~SetFeeBps(a, b) /\ ~SetParameterRegistry(a, b) /\ ~SetTokenDecimals(a, t, b)
    BY <2>2 DEF SetFeeBps, SetParameterRegistry, SetTokenDecimals, Direct
  <2>4. \A a : ~AcceptAdmin(a) /\ ~CancelAdminProposal(a) /\ ~ExecuteUpgrade(a)
    BY DEF Guarded, DecimalsChange, AcceptAdmin, CancelAdminProposal, ExecuteUpgrade, Administer, history
  <2>5. \A a, b : ~SetReserveAllocationBps(a, b) /\ ~SetMarketplace(a, b) /\ ~ProposeAdmin(a, b)
    BY DEF Guarded, DecimalsChange, SetReserveAllocationBps, SetMarketplace, ProposeAdmin, Administer, history
  <2>6. \A a, c, on : ~SetReserveCaller(a, c, on)
    BY DEF Guarded, DecimalsChange, SetReserveCaller, Administer, history
  <2>7. \A a \in Address, t \in Tokens : ~WhitelistToken(a, t) /\ ~GenerateTransparencyReport(a, t)
    BY DecimalsAlone DEF Guarded, DecimalsChange, WhitelistToken, GenerateTransparencyReport, adminVars, history
  <2>8. \A a : ~ProposeUpgrade(a)
    BY DEF Guarded, DecimalsChange, ProposeUpgrade, DoProposeUpgrade, history
  <2>9. QED
    BY <2>3, <2>4, <2>5, <2>6, <2>7, <2>8 DEF Setting
<1>7. \A s \in Address : /\ \A act \in Actions : ~ProposeTreasuryAction(s, act)
                         /\ \A id \in DOMAIN proposals : ~ApproveTreasuryAction(s, id)
  BY DEF Guarded, DecimalsChange, ProposeTreasuryAction, ApproveTreasuryAction, adminVars, history
<1>8. QED
  BY <1>1, <1>2, <1>3, <1>4, <1>5, <1>6, <1>7 DEF Next, Proposing

LEMMA QuorumStepTaken == Inv /\ [Next]_vars => [QuorumStep]_vars
<1> SUFFICES ASSUME Inv, Next, config.threshold > 1, Guarded
             PROVE  ByProposal
  BY DEF QuorumStep, Guarded, DecimalsChange, vars, history, adminVars
<1>1. PICK s \in Address, id \in DOMAIN proposals : ExecuteTreasuryAction(s, id)
  BY OnlyByProposal
<1>2. /\ ~proposals[id].executed /\ Cardinality(proposals[id].approvals) >= config.threshold
      /\ Elapsed(proposals[id])
  BY <1>1 DEF ExecuteTreasuryAction, Open
<1>3. proposals'[id].executed
  <2>1. proposals[id] \in ProposalRecord
    BY ProposalTypes
  <2>2. QED
    BY <1>1, <2>1 DEF ExecuteTreasuryAction, ProposalRecord
<1>4. now >= proposals[id].created + proposals[id].delay
  <2>1. /\ proposals[id].delay \in Nat /\ proposals[id].created \in Nat /\ delay \in Nat /\ now \in Nat
    <3>1. delay \in Nat /\ now \in Nat
      BY DEF Inv, TypeOK, AdminOk
    <3>2. QED
      BY <3>1, ProposalTypes
  <2>2. Max({proposals[id].delay, delay}) = IF proposals[id].delay >= delay THEN proposals[id].delay ELSE delay
    BY <2>1, MaxPair
  <2>3. now >= proposals[id].created + Max({proposals[id].delay, delay})
    BY <1>2 DEF Elapsed
  <2>4. QED
    BY <2>1, <2>2, <2>3
<1>5. QED
  BY <1>2, <1>3, <1>4 DEF ByProposal

(* Under a quorum of two or more, payments, fees, decimals and the         *)
(* registry change only through execute_treasury_action, on enough approvals and after the *)
(* delay that was in force at the proposal, whatever the signer set and    *)
(* the delay have become since.                                            *)
THEOREM QuorumAlwaysAsked == Spec => QuorumForWithdrawals
<1>1. [][QuorumStep]_vars => QuorumForWithdrawals
  BY PTL DEF QuorumForWithdrawals, QuorumStep, Guarded
<1>2. QED
  BY <1>1, InvAlways, QuorumStepTaken, PTL DEF Spec

===============================================================================
