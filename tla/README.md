# Kora protocol: TLA+ models, model checking and proofs

Kora finances invoices on Soroban. An SME mints an invoice as an NFT, lists it,
investors fund the listing, the money moves to a financing pool, the SME repays
the pool, and the pool pays the investors. The contracts are separate programs
that call each other inside one atomic transaction. Nothing runs concurrently
inside a transaction, and a failing call rolls everything back; what is hard is
the *order of transactions* of SMEs, investors, admins and other contracts, and
the state that several contracts keep about the same invoice.

This directory holds the specifications of the contracts, the TLC runs that
check them on small instances, and the TLAPS proofs that hold for all instances.
Line numbers refer to the source at the modelled commit.

## 1. Inventory

| Component | State | Operations | Interacts with | Properties that make it correct |
|---|---|---|---|---|
| `invoice_nft` | invoice records (hot, cold), per-SME index, exposure cache, mint quota, referrals, metadata commitments and disputes, freezes, audit ring, configuration | mint (single, referred, batch), amend, withdraw, commit hash, status transitions, archive, dispute, freeze, admin setters, upgrade timelock | transitions are driven by marketplace and pool; reads risk_registry; read by all | status machine, fixed terms, index and exposure bookkeeping, quota, acyclic referrals |
| `marketplace` | listings, contributions, fees paid, refund flags, cancellation requests, exposure counters, settings | list, amend, withdraw, fund, cancel, two-phase cancellation, claim refund, setters | moves tokens to pool and treasury, drives NFT status, calls `release_funds` | money accounted for, refund exactly once, three contracts in step |
| `financing_pool` | pools, positions, shares, offers, approvals, buyouts, schedules, escrow reservations, penalty cuts, aggregate, statistics, token balances | open, record, split, trade, repay in seven ways, default, escrow callbacks, setters | drives NFT status, pays investors and treasury, called by dispute_escrow | payouts covered by receipts, closed pools final, escrow exclusive, trade adds to no claim |
| `treasury` | fee balances, reserve, caps, recipients, proposals, epochs | collect, refund, withdraw, distribute, sweep, multisig | marketplace, pool | books follow the tokens, reserve untouched, caps per period, quorum for withdrawals |
| `dispute_escrow`, `dispute_resolution` | disputes, deadlines, escrowed payments | open, evidence, resolve, timeout | pool callbacks | payment goes to exactly one side, timeout always available |
| `access_control` | roles, multisig actions, pause, recovery, council, delegation | propose, approve, execute, cancel, pause | read by all | threshold and delay before execution, one execution |
| `risk_registry` | SME and debtor profiles, verifiers, stakes, score disputes, breakers | register, score, dispute, slash, suspend | read by NFT and marketplace | stakes covered, counters in step with records, only verifiers in good standing move a score |
| `price_oracle` | feeds, feeders, limits, flags | set price, convert, admin | marketplace, pool | no stale or out-of-bound price used |
| `parameter_registry`, `governance`, `governance_voting` | parameters, proposals, votes, delegations | propose, vote, execute | pool, treasury, vesting | quorum, timelock, no double vote |
| `vesting`, `fractionalizer`, `secondary_market`, `debtor_attestation`, `verifier_nomination`, `referral_rewards`, `tranche` | one small record set each | see `docs/` | pool, NFT, registry | conservation, one-time claims, nonces |
| `shared` | none | types, basis-point arithmetic, timelock, queue, key rotation, reentrancy guard | linked into all | rounding, delays |
| services, SDK, web, infra, fuzz, xtask | none on chain | clients and tooling | contracts | outside the models |

Hard behaviours: refunds that race cancellation and the deadline; one token
balance shared by all pools and listings; several closing paths for one pool;
caches (exposure, aggregates, statistics) updated by many paths; checks against
state that a trade changes before it is used; an escrow reservation that every
entry point must respect; lazily restarted windows and one-time penalties.
`PROJECT.json` lists them as hazards at their lines.

## 2. Modules

| Module | Models |
|---|---|
| `InvoiceLifecycle` | the abstract promise of the NFT: identifiers used once, financed at most once, final phases |
| `InvoiceNft` | `contracts/invoice_nft`; implements `InvoiceLifecycle` |
| `Marketplace` | `contracts/marketplace`: listing, funding, refunding, with the balances of pool and treasury it moves and the NFT status it drives |
| `MarketplaceSettings` | the same contract's governance: signers' actions, token whitelist under timelock, addresses of other contracts, upgrade |
| `FinancingPool` | `contracts/financing_pool`, with the NFT status it drives |
| `Treasury` | `contracts/treasury` |
| `AccessControl` | `contracts/access_control` |
| `RiskRegistry` | `contracts/risk_registry` |
| `DisputeEscrow` | `contracts/dispute_escrow` composed with the pool's escrow callbacks |
| `DisputeResolution` | `contracts/dispute_resolution` |
| `VerifierNomination` | `contracts/verifier_nomination` |
| `DebtorAttestation` | `contracts/debtor_attestation` and the marketplace's gate that asks it |
| `ParameterRegistry`, `Governance`, `GovernanceVoting`, `Vesting` | the contracts of the same names |
| `VestingSchedule` | one grant of `contracts/vesting`: how it is made and revoked and what has vested of it, for `Vesting` and `GovernanceVoting` |
| `UpgradeTimelock`, `WithdrawalQueue` | `contracts/shared/src/timelock.rs`, `queue.rs` |
| `Positions` | the positions, payout and balances of one pool, as `Fractionalizer` and `SecondaryMarket` share them |
| `Fractionalizer`, `SecondaryMarket`, `Tranche`, `ReferralRewards`, `PriceOracle` | the contracts of the same names |
| `Sums` | the sum of a function over a finite set, as the money invariants use it |
| `FiniteSums` | theorems about `Sums`, about induction over finite sets, and about shares and averages |
| `Disputes` | `DisputeEscrow`, `DisputeResolution`, `VerifierNomination` and `DebtorAttestation` side by side: any of them may be called at any time |
| `Decisions` | the same for `GovernanceVoting`, `Governance`, `ParameterRegistry`, `Vesting`, `MarketplaceSettings` and `UpgradeTimelock` |
| `Services` | the same for `Tranche`, `ReferralRewards`, `PriceOracle`, `WithdrawalQueue`, and `Fractionalizer` and `SecondaryMarket` on the positions of one pool |
| `InvoiceNftProofs`, `MarketplaceProofs`, `FinancingPoolProofs`, `TreasuryProofs`, `RiskRegistryProofs` | theorems about the module each is named for |
| `AccessAndServicesProofs` | theorems about `AccessControl` and about `Services` |
| `SmallContractsProofs` | theorems about `Disputes` and `Decisions` |
| `MCInvoiceNft`, `MCMarketplace`, `MCFinancingPool`, `MCTreasury`, `MCAccessControl`, `MCRiskRegistry` | model values and foci for TLC, one contract each |
| `MCDisputes`, `MCGovernance`, `MCServices` | the same for `Disputes`, `Decisions` and `Services` |

Each storage key is a variable, or a field of one, with a value that stands for
an absent key. Each entry point is an action; its checks are the guard. A call
that fails changes nothing, so failing calls are no actions. Operators marked
*Mutant* are altered copies of the definition below them, used to see that a
property can fail.

Common abstractions:
- addresses, tokens and hashes are model values; authorisation is the choice of
  the acting address, so only checks that depend on state are guards;
- `RepaymentLock` and the reentrancy guards are set and removed within one call
  and are never seen set between calls;
- token transfers either move the amount or fail; tokens have 7 decimals, for
  which `bps_of_normalized` is floor(amount * bps / 10000);
- calls whose failure the code ignores (risk registry, treasury records), events
  and, except in invoice_nft, audit logs are left out; TTL bumps have no effect
  in the model;
- i128 and u64 arithmetic is checked in the code and far from its limits in the
  models; saturating subtraction is kept where the code uses it;
- the ledger's time is a variable that `Tick` advances; delays and windows of the
  code are constants of one or two ticks;
- records numbered by a counter are sequences whose index is the identifier.

**InvoiceNft.** `hot` is InvoiceHot, `smeIds` the per-SME index, `exposure` the
cached OutstandingExposure, `window` the quota, `audit` the ring. `drift` is a
history variable: the sum of face-value changes made by `amend_invoice`, which
does not touch the cache. `mint_invoice` charges the quota twice, as in the code
(lines 657 and 677).

**Marketplace.** `listing`, `contribution`, `feePaid`, `claimed`, `request` and
`confirmed` are keys; `paid` and `refunded` are history. Contributions in a token
other than the listing's are converted at a constant rate and moved in their own
token, but booked in the listing's, as in the code. Batch funding is a sequence
of `FundInvoice`. `check_debtor_cap`, `add_debtor_exposure` and
`remove_debtor_exposure` are called in the source but defined nowhere, and are
left out. How the settings change is the subject of `MarketplaceSettings`:
`acts` are the signers' proposals, `wiring` the addresses and their pending
successors, `accepts` whether the parameter registry has the function the
contract calls on it.

**FinancingPool.** `flow` is history: what came `in` and went `out` on account of
an invoice; `loose`, whether money was shared out when the stakes did not add up
(nobody held one, positions over 100 %, shares over their position) or by
`repay_partial`; `twice`, whether one netting named the invoice twice. `settings` holds the parameters as read from registry or storage; `gate`
what access_control, invoice_nft and dispute_resolution answer. The source
contains three copies of the escrow callbacks (see
`docs/MERGE_CORRUPTION_REPORT.md`); the model follows the copy at
lib.rs:209-401, the only one that writes `EscrowCredited`, which the rest of the
file reads. `InitWith` starts a run from pools already opened and recorded, a
state `ReleaseFunds` and `RecordPosition` reach. `SplitOff` adds up the shares split
off a position; `split_position` does not look at it.

**Treasury.** `account[t]` holds balance, reserve, collected, cap and epoch of a
token. `PayFee` is what marketplace and pool do in one transaction, transfer the
fee and report it; `CollectFee` is `collect_fee` or `collect_fee_with_invoice` called
by itself, which anybody may do and which moves no tokens; `Donate` is a transfer
nobody reports. `received`, `unreported`, `unbacked`, `drawn` and `payments` are
history: what came in or was reported, transfers less bare reports, the reserve
earmarked by bare reports, what left the reserve, withdrawals with time and cap. Of the helpers that occur twice in
the file the documented first one is modelled.

**AccessControl.** Proposals, community proposals, parameter changes, elections
and recoveries are sequences; `config` is the multisig. A batch executes two
proposals in order in one action. `cancel_admin_proposal` can never succeed and
is no action.

**RiskRegistry.** `verifier[v]` gathers the keys about a verifier (flag, status,
stake, bond, reputation, removal times); `profile`, `attested`, `dispute` are
those about SMEs, debtors and disputes; `scored`, `defaulted`, `tripped` the
breaker's. `held` is the token balance, `overdrawn` history: what disputes took
from verifiers whose stake had been paid out.

**DisputeEscrow.** The escrow's records and the pool's reservation, debt and NFT
status change in one action, since the callbacks run in the same transaction;
repayment, default, pause and freeze come in between. The
timeout may be triggered by anybody.

**Governance, GovernanceVoting, Vesting, ParameterRegistry.** A status that is
only written before an error is returned is rolled back and does not exist in the
model. `GovernanceVoting` sees several vesting contracts: `granted` holds the grants
of each, `CreateGrant` and `RevokeGrant` are their admins', `SetVestingContract`
points to any of them at any time, and `VestingSchedule` says what a grant answers
for a past time. Money and release are in `Vesting`. `opening` is history: contract,
grants and weights when a proposal was created. `ballots` and `records` keep who
voted what. `scheduled` is what `propose_upgrade` of the shared timelock records
when a proposal of `governance` is executed; it writes to governance's own storage,
and no entry point of governance executes it.

**Fractionalizer and SecondaryMarket** act on the same `position` and `cash`, so a
listed position may be wrapped and a wrapped one listed; that interleaving is
where their properties can fail.

**PriceOracle** has two pairs, each the reverse of the other. Its loops (the
exchange sort, the collection of fresh prices, the search in the ring) are recursive
functions with one value per turn, as is the loop of `process_queue` in
**WithdrawalQueue**. `published` is history: the medians of a pair, the last one of
each time, which the ring in storage should answer for; so is `strayed`: the pairs
reported off a peg with `auto_flag` since the admin last lifted the flag, by
`clear_peg_flag` or `remove_peg_config`.

## 3. Runs

| Run | Question | Foci and instance |
|---|---|---|
| `nft` | do index, times, side records, referrals, terms and lifecycle hold | *all*: every operation on one invoice; *admin*: past the end of the audit ring; *mint*: 3 SMEs, referrals, two quota windows; *money*: 2 invoices of 2 SMEs, 2 face values, batches of 2 |
| `market` | are listing, NFT and pool in step, and everybody refunded once and in full | *all*: one listing, all settings and gates (one shut at a time); *refunds*: 2 listings on shared balances, 2 investors, changing fee; *currencies*: 2 tokens at 1:2, three fees |
| `pool` | do the books agree, is each pool paid from its own receipts, do closed and escrowed pools stand still | *settle*: 2 pools on one balance, nettings of both and of one named twice; *life*: 1 pool, 2 schedules, partial repayment, buyout, escrow; *gates*: the same pool while parameters, pause, freeze and dispute change, approved repayment or buyout; *trade*: 3 investors, one of whom splits twice, offers one at a time, sales |
| `access` | does privilege need a quorum, are decisions final, does a rotation overtake nothing | *direct*, *actions*, *community*, *seats*, *params*; 3 addresses, 2 signer sets, 2 proposals |
| `registry` | are stakes covered, counters kept, and scores moved only by verifiers in good standing | *stakes*: 2 verifiers, disputes about one; *smes*: breaker and sub-account; *debtors*: 2 attestors; *admin* |
| `treasury` | is the reserve kept, do books follow money, do caps and quorum bind | *money* (fees paid, a bare report, a bare transfer), *caps*, *quorum*, *grants*, *settings*; 1 token, 2 addresses, up to 5 ticks |
| `governance` | do tallies follow ballots, decisions stay justified, delays and bounds hold | *delegation*, *ballots*, *weights* (2 vesting contracts, grants starting early, now and late), *roots* (credits 1..24), *gov*, *registry*, *vest*, *deciding* and *rewiring* (marketplace settings), *timelock* |
| `services` | is what was promised covered, do prices follow fresh reports, is trade fair | *trade*, *wrap*, *tranche*, *referral*, *queue*, *median* (3 feeders), *history* (ring), *setting* |
| `disputes` | does custody match records, do outcomes stand, does everything end | *escrow* (2 invoices), *cases*, *nomination* (2 supporters, 2 nominations), *attestation* (2 invoices) |
| `market_doc_share` | violated: the concentration cap holds across calls | 1 listing, 2 contributions |
| `pool_doc_twice` | violated: "No investor receives yield twice" | 1 pool |
| `pool_doc_unanimous` | violated: buyout needs 100% of the shares | 1 pool, 3 investors |

The product of all operations of a contract over several objects is too large.
A behaviour therefore keeps to a *focus*, chosen by its initial state: one focus
takes every operation on one object, the others keep the operations of one
concern and give it more objects, actors and time. A focus only leaves out
actions or bounds primed values; it changes no definition of the contract's
module. Amounts of 1 to 4 suffice for rounding (odd amounts halved), exact, short
and excess payment; two or three time points put every event before, at and after
a deadline, more where one delay follows another (treasury caps, vesting); two
pools or listings suffice for one to be paid from the other's money; three traders
for a stake to pass on while another holds; two signer sets with different
thresholds for a former signer's approval to meet a lower threshold. Bounds are
named constants (`MaxTime`, `MaxId`, `MaxAudit`, `MaxExposure`, `MaxShares`,
`MaxProposals`, `MaxRequests`, ...) in guards. `CHECK_DEADLOCK FALSE` appears where
time or counters are bounded and an instance runs out of moves: the contracts may
stand still. In `nft`, where the status machine can go round, deadlock is checked.

Symmetry: in `nft`, `s2` and `s3` are named by no initial value, limit or bound. In
`market`, *refunds* and *currencies* tell no investor apart; in *all* only `i1`
acts, so no reachable state is the image of a different one.

### Fairness and liveness

Most steps wait for an external caller, and nothing is claimed of them. Two
promises rest on less. `EveryDisputeEnds`: a payment held in escrow leaves it,
assuming weak fairness of the ledger's clock and of `resolve_timeout`, which anybody
may call and which nothing but the passing of time can keep disabled for ever;
pause and freeze may come and go meanwhile and must not matter. `StakeComesBack`:
a stake behind a nomination returns, assuming the clock and that the supporter, who
wants the money, asks for it whenever the contract would give it. No fairness is
assumed of admins, candidates or verifiers. Both runs bound time after the last
deadline an instance can set.

### What the runs show

All passing properties hold on their instances, and each fails under its mutant.
Some are conditional, because the unconditional statement does not hold:

- `PaidFromOwnReceipts` holds for invoices repaid in the pool's currency whose
  money was only shared out while the stakes added up (`loose`): `repay_partial`
  pays the cumulative amount again, a pool without positions pays the treasury's
  cut of a default out of other pools' money, and positions or shares over the
  whole pay more than was received. While all invoices are of that kind, the one
  balance covers the capital of all pools and the pending buyouts.
- `BooksAgree`: a settled invoice has a closed pool unless a netting named it twice.
- `SideRecordsExplained`: the exposure cache is wrong by exactly what amendments
  changed, not right.
- `StakesCovered`: stakes are covered up to what disputes took from verifiers
  already removed (`overdrawn`).
- `ReserveKept`: the reserve is kept up to what `refund_fee` and `claim_share` paid
  out (`drawn`) and what bare reports earmarked (`unbacked`); `CollectedAccounted`
  likewise, up to bare reports and transfers (`unreported`). Without these allowances
  one call of `collect_fee`, which anybody may make and which moves no tokens
  (treasury:457, 479), breaks both.
- `StakesNotCreated`: positions never gain from trade. What a repayment would pay
  (`InvestorsOut`) does not grow by a sale or transfer of a share; nor by a split or
  a position changing hands, unless that leaves somebody with more split off than
  held: `distribute_yield` pays shares for what they say, and `split_position` looks
  only at the position (financing_pool:1333), so two splits of more than half suffice
  for more to be paid. The instance *trade* reaches such splits.
- `SnapshotHolds`: under a vesting contract a vote weighs no more than has vested
  when it is cast, and no more than at the proposal's creation *while contract and
  grant are those of then*. A revocation answers for every earlier time as of the
  revocation, a grant may start in the past, and another contract may be set
  (vesting:374-377, governance_voting:500). The instance *weights* reaches all three,
  and in each a vote may weigh more than had vested at the proposal's creation.
- `AverageIsSteady`: a debtor's average may also change when an attestor is admitted
  anew. By the code it does not, since a verifier added again stays Removed
  (risk_registry:492), where the docs and a test expect Active; the property leaves
  this open and says nothing for either.
- `StrayedPairWaits` is about pegs with `auto_flag`: only those flag a pair. A pair
  without it refuses the one price and takes the next.
- `TwiceTheCap`: any window as long as an epoch sees at most twice the cap leave.
- `PrivilegeNeedsQuorum` counts only current signers, as `execute_action` does;
  `QuorumForWithdrawals` and `ParametersGuarded` count approvals as treasury,
  parameter registry and marketplace do, former signers included.

`Disputes`, `Decisions` and `Services` state one property per concern as the
conjunction of those of the contracts that share it; the parts are named in the
contracts' modules.

### Disagreements between code and documentation

Three are runs (`findings` in `PROJECT.json`): the concentration cap
(marketplace:896), the repeated distribution (financing_pool:1661) and the buyout
(financing_pool:2738). Others, met while modelling, which follow from
the models but have no run of their own:

| Code | Says |
|---|---|
| `amend_invoice` leaves the exposure cache (invoice_nft:935) | docs/invoice-nft.md:549 "Should always equal `get_outstanding_exposure(sme)`" |
| `mint_invoices_batch` reads no credit limit (invoice_nft:882) | docs/invoice-nft.md:606 a batch over the limit is rejected |
| `mint_invoice` charges two quota units (invoice_nft:657, 677) | invoice_nft:1663 "one unit per invoice" |
| `set_created` goes back from Listed (invoice_nft:1048) | docs/invoice-nft.md:112 "no backward transitions" |
| transitions do not read the freeze (invoice_nft:1056) | docs/invoice-nft.md:25 they call `require_not_frozen` |
| `amend_listing` changes the price (marketplace:1563) and leaves the exposure counter | THREAT_MODEL.md:66 "listings are immutable post-creation"; marketplace:683 |
| `cancel_listing` releases exposure twice (marketplace:1172) | docs/FEE_CLAWBACK_POLICY.md:24 |
| cross-token contributions are refunded in the listing's token (marketplace:1020) | marketplace:1402 the net amount sent to the pool is returned |
| refunds stay in `get_outstanding_contribution` (marketplace:1462) | marketplace:1621 "still outstanding" |
| a position can be split repeatedly by its full amount (financing_pool:1333), and `distribute_yield` pays every share on top | financing_pool:1289 shares add up to the position |
| a transfer onto an existing position leaves `AggregateFunded` (financing_pool:3475) | financing_pool:158 aggregate across active pools |
| rounding dust stays in the pool (financing_pool:2244) | financing_pool/verification/README.md:78 credited to the first investor |
| `repay` accepts more than is owed (financing_pool:1882) | verification/README.md:16 never exceeds `total_owed` |
| late penalty on the last installment leaves pool open, schedule exhausted (financing_pool:1782) | financing_pool:1772 "pool should have been closed" |
| `mark_default` leaves the pool open (financing_pool:2380) | financing_pool:2310 "closed (repaid or defaulted)" |
| penalty from the due date on (financing_pool:1846) | docs/financing-pool.md:26 none in the grace period |
| the treasury's part of the penalty comes out of the investors' payout (financing_pool:2240) | financing_pool:1799 the remainder is added for investors |
| a closing `repay` fails while paused (financing_pool:1926, invoice_nft:1094) | docs/SECURITY.md:30 "SMEs must always be able to repay" |
| `net_settle` with an invoice listed twice takes both allocations and writes the pool twice from the same old record: the first closes it and marks the NFT Repaid, the second leaves it open (financing_pool:2099-2140) | financing_pool:1946 allocations equal the transfer |
| positions of a pool may come to more than 100 %, since each is checked against the caller's `total_pool` (financing_pool:1208-1222) | financing_pool:1161 the investor's share of the pool |
| a default of a pool with nobody recorded still pays the treasury's cut, from the other pools' balance (financing_pool:2218) | nothing promises otherwise |
| `record_position` overwrites, so a retry after a sale restores the sold position (financing_pool:1251) | nothing promises otherwise |
| a default is refused while the treasury's cut exceeds what was repaid (financing_pool:2244) | nothing promises otherwise |
| `set_auto_compound` stores a preference nothing reads (financing_pool:1115) | financing_pool:1116 the payout is routed into `target_invoice` |
| no v2 to v3 migration exists, and v1 to v2 rewrites a key no longer read (invoice_nft:374) | the comment there promises it |
| a multisig `WhitelistToken` skips the whitelist's delay; `WhitelistedTokenList` is left as it was (marketplace:2119) | the timelocked path beside it |
| approvals of former signers count (marketplace:1969, treasury, parameter_registry:404, access_control:1346) | access_control:863 counts current ones |
| updating the address of access_control does not change the one `multisig_config` reads (marketplace:2033, 2177) | one key per dependency |
| `set_debtor_attestation` is immediate (marketplace:702); whitelist and dependency calls ignore the quorum | the timelocked dependency path |
| the contract calls `set_parameter` (marketplace:2085), which parameter_registry does not have | |
| the withdrawal queue numbers from 1 and starts at 0: the youngest request is not reached (shared/queue.rs) | its test `test_withdrawal_queue_fifo_and_partial_fill` expects nothing left |
| a changed delay applies to pending proposals (shared/timelock.rs) | |
| the threshold after a rotation is truncated twice, 3 of 7 becomes 2 of 7 (shared/key_rotation.rs) | "Maintain same percentage threshold" |
| parameter proposals do not expire (access_control:1279) | access_control:1277 |
| a multisig `TransferAdmin` leaves the old admin its role (929), `RevokeRole` may take the admin's (915); batches check the admin of their start (1082) | |
| a sponsored rotation does not supersede a pending one (access_control:1563) | the direct rotation does |
| delegations are recorded and counted by no vote (access_control:1774) | its doc |
| `RoleMembers` keeps revoked members (access_control:432); electing a sitting member lowers the number of distinct signers below the threshold (2019) | |
| `finalize_verifier_removal` pays out with disputes open; a later slash is paid from others' stakes | |
| a verifier added again stays Removed, though its fields are set anew (risk_registry:492) | docs/risk-registry.md:76 "Active (re-added)"; `test_verifier_readdition_cooldown_blocks_bypass` (risk_registry:4548) |
| raising a dispute twice leaves `DisputeCount` up for ever (risk_registry:1975); `locked_until` and `PausedForDebtor` are not used | |
| `score_to_tier_symbol` ignores changed tiers; `update_sme_score` leaves the tier counters; a breaker with no minimal sample divides by zero | |
| the "rolling 24-hour limit" (treasury:726) is a fixed window: twice the cap within a day | |
| `collect_fee` and `collect_fee_with_invoice` raise `Collected` and the reserve by whatever anybody reports and move no tokens (treasury:457-510) | docs/treasury.md:460 the reserve never exceeds the live balance |
| `propose_upgrade` needs no proposal under a quorum (treasury:1178) | docs/treasury.md:461 |
| `claim_share` and `refund_fee` ignore the reserve (treasury:539, 2163); `claim_share` stores no pool and leaves `Collected` | docs/treasury.md:150 |
| `do_emergency_withdraw` has no body, the pause is read under another key, `SetTimelockDelay` has no bound (treasury:1751) | |
| delegated weight is not counted, and a delegator may still vote; only cycles of two are refused (governance_voting) | its docs, lib.rs:275-288 |
| a proposal is executed without majority and before its vote ends (governance_voting, governance:333) | |
| a past vesting balance changes by a revocation, which answers as of the revocation, a grant with an early start or another contract set (vesting:374-377, governance_voting:500) | vesting:420 the weight at proposal creation |
| vesting defines `calculate_vested` twice and no `calculate_vested_at` (vesting:374, 413, 439); the first, whose body names `at_time`, is modelled | |
| the fast track's timelock is read at execution (governance:542); with quorum 0 and no votes the execution traps | |
| defaults of `ReferrerSplit` and `TierFees` differ from the module doc (parameter_registry) | 0 there, 1000 and 25 in the code |
| a removed feeder's prices count until stale; `add_feeder` ignores `MAX_FEEDERS` (price_oracle) | |
| the last redeemer does not get the rest (fractionalizer:296) | docs/fractionalizer.md:62, :140; `test_redeem_non_divisible_dust_to_last_redeemer` |
| `wrap` overwrites a record, and two wraps of an invoice share one position (fractionalizer) | |
| `list_position`'s holder check always succeeds, since the pool answers with an empty position (financing_pool:3404) | secondary_market:152, 166 |
| a stale listing sells a later position at the old price (secondary_market:243) | |
| a second funding overwrites the position and may exceed the face value (tranche) | |
| any single signer decides a dispute (dispute_resolution:273); opening checks neither default nor window | lib.rs:157-161, 87-88 |
| an unjudged case past its window stays open and blocks `mark_default` (dispute_resolution:185) | |
| `store_record` reloads the state, so nonces are not kept (debtor_attestation:543) | `test_nonce_replay_rejected`, :678 |
| an elected candidate may answer at any time (verifier_nomination) | |

## 4. Proofs

Each large contract, and each composition of small ones, has a proof module that
extends it, access_control and the services one in common. A theorem there holds for
every finite set of invoices, investors, addresses and tokens, every amount, delay
and bound, and from the named `ASSUME`s of that module only: sets over
which the code iterates are finite, amounts and prices positive where the code
refuses others, basis points at most 10000, clocks and bounds natural numbers,
`No...` values none of the ordinary ones. TLC evaluates each assumption in the
runs. A proof has one lemma per action, one step per conjunct it can disturb, and
lemmas for what leaves a conjunct alone (`...Kept`, `Same...`, `One...`).

**`FiniteSums`.** Money is counted with `SumOver(f, S)`, a function on the
subsets of `S`. `NumberInduction` and `SubsetInduction` state induction with a set
`G` for the claim, so that no operator is passed as a parameter; they rest on the
least element of a set of naturals. `SumRecursion` shows that the sum is what its
definition says; from it come the facts the contracts use: one summand changes
(`SumReplaced`), pointwise comparison, union, sums by group, a mean lies between
its values, floor shares of a total do not exceed it (`SharesOfTotal`).

| Theorem | Inductive invariant, and why the property is not one by itself |
|---|---|
| `InvoiceNft`: `StorageAndIndex`, `TypeCorrect` | `StorageOk /\ IndexSound`: an identifier of a batch is fresh because no index and no record is at or above `nextId` |
| `TimesAlwaysMatch` | the above and `TimesMatchStatus`; its core is `TransitionTimes`, one edge of the status machine |
| `LifecycleImplemented` | refinement: the initial state maps to the abstract one (`InitIsAbstract`), and every step is a birth, a move along an edge or a stutter (`OneMoves`, `RecordsMove`, `StepIsAbstract`) |
| `StatedTermsStay` | an action property from the same lemmas: only a record still Created loses its terms |
| `NoReferralCycle` | `Ranked`: SMEs can be numbered so that a referrer's number is larger. The walk that `ReferrerOk` makes before a link is set meets the newcomer nowhere and comes to its end, so everybody on it can be lifted above the newcomer (`LinkKeepsRank`); `FirstReferred`: only an SME that has minted has a referrer |
| `SideRecordsAlwaysExplained` | `ExposureExplained`, `WindowsOk` (without a limit no window is open), `DisputesOk` (no dispute beyond `nextId`), `AuditRingLatest`: entry `n` sits in slot `n % MaxAudit` for every ring size |
| `Marketplace`: `FundingAlwaysAccounted`, `RefundsAreExact`, `CancellationsAreComplete`, `ContractsStayInStep` | `Settled(id)`: `StatusOk`, `BooksOk`, `CancelOk`. The four properties need each other: a refund is exact because whoever paid is still in the index, which is cleared only when the listing closes |
| `TermsStayFixed` | an action property from the same invariant |
| `FinancingPool`: `BooksAlwaysAgree`, `PaidAlwaysFromReceipts` | `Conserved` (a balance is exactly the worth of the pools) and per pool `Fresh`, `ClosedOk`, `PartsOk`, `ReceiptsOk`: a Funded invoice whose stakes add up has paid nothing out yet, which is why it is shared out once. `InvestorsOutFair` shows that rounding never pays more than there is |
| `SettledStandsStill` | `Still(x)` for each action: a closed pool's NFT is not Funded, so every closing path's `set_repaid` fails |
| `TradeCreatesNothing` | positions: the sum over two changed holders (`MovesAddNothing`, `OwnersAddNothing`). Payouts: the investors get at least what the basis points of their positions entitle them to, and exactly that while nobody has more split off than held (`OutFair`), so neither a move nor a split that leaves it so adds anything (`EntitledPaid`, `SplitAddsNothing`), and shares that only change owners pay the same amounts |
| `Treasury`: `ReserveAlwaysKept`, `BooksAlwaysFollowMoney` | `MoneyKept /\ GrantsPaidOnProof`, where a bare report adds to `reserve` and `unbacked` alike; `SweepIsExact`: shares and dust are what is swept |
| `NeverMoreThanTwiceTheCap` | `EpochsKept`: the counter of a token holds what its epoch has seen, a capped payment found no more than its cap and came within its epoch, epochs of a token do not overlap. A stretch as long as an epoch meets at most two (`TwoEpochs`) |
| `QuorumAlwaysAsked` | step property: only executing a proposal moves money, fees, decimals or the registry's ratio under a quorum |
| `AccessControl`: `QuorumAlwaysAsked`, `ResolvedStaysResolved`, `RotationNeverOvertakes` | `TypeOK /\ Unopposed`; every step is `Quiet` (powers and closed decisions stay) or `Executing`, whatever the proposals of a batch are |
| `RiskRegistry`: `StakesAlwaysCovered` | `Covered` with `Reserve`, the larger of stake and bond: a default cuts the stake alone, so a later slash may take more than the stake holds. `VerifierOk` says who still has open disputes |
| `CountersAlwaysKept` | `TierCountsAddUp` (sum by group), `Attested` |
| `TermsAlwaysNeedAVerifier`, `AverageAlwaysSteady` | `ProfileOk`; action properties |
| `Disputes`: `HeldAlwaysMatches` | `EscrowInv`: the escrow's tokens are the sum of the open disputes' payments, and each of them is reserved and owed at the pool (`HeldIsOwed`), without which a verdict could find the loan closed. `NomInv`: `total` of a nomination is the sum of its stakes (`Backed`), also after withdrawals |
| `OutcomesAlwaysStand` | step property of `dispute_escrow` and `dispute_resolution`, from `EscrowInv` and `CaseTypes` |
| `GateAlwaysHolds` | `AttestInv`: the record in storage is the last word given |
| `Decisions`: `VotesAlwaysCounted` | `VoteInv`: tallies are sums of the records by choice, and `RootFound`: the bisection of `integer_sqrt` finds the exact root, since its interval encloses it and shrinks each turn. `DelegInv`: the index lists a delegator once, exactly under its delegate |
| `ExecutedAlwaysWon` | `GovInv`: `OneCounter` (standard and fast-track proposals share their numbers), `OneBallotEach`, `StandardFine` and `FastFine` (tallies are the ballots, and an executed proposal is `Decided`); `ScheduleInv`: what was handed to the timelock is what is executed, each once, since an executed proposal is no longer Active |
| `SnapshotAlwaysHolds`, `ParametersAlwaysGuarded`, `ScheduleAlwaysKept` | step properties from `VoteInv`, `WeightInv` (grants are sound and `opening` is what stood when the proposal was created; what has vested only grows with time), `RegInv` (every parameter in its bounds), `SetTypes`, `UpgradesInv` (what runs was executed) and `VestInv` (`GrantOk`: released is what was received and no more than vested) |
| `Services`: `ClaimsAlwaysCovered` | `PositionInv`: of a settled wrap, what was redeemed and what is left are the payout booked, and nothing is settled before the pool closed (`WrapOk`); `TrancheInv`; `RewardInv`: `paid` is a bonus per rewarded SME and the deposits left are held; `QueueInv`: nobody beyond the head was paid, nothing behind it waits, kept by every turn of the loop (`FillStays`, `ServingInOrder`) |
| `TradesAlwaysFair` | step property from `PositionInv`: no other step takes money from an investor (`NobodyPays`) |
| `PricesAlwaysFaithful` | `OracleInv`: the ring holds the last `HistoryCap` medians published, number `j` in slot `(j - 1) % HistoryCap`, and their times ascend (`RingInv`), so `get_price_at` finds one slot of that time (`GetPriceAtIs`, `PlaceOnce`). `SortedIs`: after pass `i` of the exchange sort the first `i` places are in order, none above a later one, and the list is a rearrangement; `MedianIs` counts what lies below and above from it. `ConversionIs`: two divisions in either direction never exceed the exact quotient |
| `StrayedPairsAlwaysWait` | a pair in `strayed` is flagged under a peg, whichever peg it is now, and a flagged pair under a peg is in `strayed`; a report of it is refused, and no other step changes reports |

Every module also proves its `TypeOK` (`TypeCorrect`). That says more than typing:
balances, reserves, bonds and rests are natural numbers, so no sequence of calls
overdraws them.

The proofs corrected the models. `PaidFromOwnReceipts` once excluded only partial
repayments and splits; induction failed on a default of a pool without positions, on
positions above 100 % and on shares above their position, and the statement now
names that condition. `BooksAgree` failed on a netting that names an invoice twice,
which the instance did not contain and now does. Reserves of verifiers had to be
the larger of stake and bond.

**Loops.** A loop of the code is a recursive function over its turns. That such a
function exists and obeys its recursion is proved for each (`IterationExists`,
`RunIs`, `PassesExist`, `BestsExist` and others), by induction with a set for the
claim as above; what the loop keeps is then an invariant over its turns, and holds
for lists, rings and queues of every length. For this the loops that were folds in
`PriceOracle` and `WithdrawalQueue` became functions; TLC finds the same states.

Only model-checked: the two liveness properties of `disputes` (`EveryDisputeEnds`,
`StakeComesBack`), since the prover has neither fairness nor `ENABLED`; and the
three findings, which are counterexamples. Every other property of a passing run is
stated by a theorem.

## 5. Plan

Every contract with state of its own has a module, and every safety property of a
run a theorem. What could follow:

1. One abstract specification of the timelocked multisig (proposed, approved,
   delayed, executed once) that access control, treasury, marketplace and parameter
   registry implement.
2. A composition of NFT, marketplace and pool that shares the invoice status, in
   place of the part of it that each of the three modules carries.
3. The keeper's job queue.

## 6. Not modelled

Migration and TTL (no effect between calls of one version), events and
formatting, audit logs outside invoice_nft; settings that are stored and read by
nothing; functions the source calls but does not define; the key-rotation helper,
which no contract uses. The pool's own verification model and the tests are
references, not subjects. Services, SDK, web application, infrastructure and build
tools keep no protocol state; the keeper's job queue is a candidate for a module of
its own. Cross-currency repayment is in `FinancingPool` (`Rate`) and runs at par
only.
