-------------------------------- MODULE Treasury --------------------------------
(***************************************************************************)
(* contracts/treasury: the protocol's fees.  Tokens come in with the fees  *)
(* the marketplace reports (or unasked) and leave by withdrawal, sweep,    *)
(* refund, grant, revenue share and from the loss reserve.  The token      *)
(* contract, access_control's signer set and parameter_registry's reserve  *)
(* ratio are external.                                                     *)
(*                                                                         *)
(* The crate holds some helpers twice (docs/MERGE_CORRUPTION_REPORT.md     *)
(* tells how).  Of enforce_rate_limit and require_no_quorum_required the   *)
(* first, documented definition is the one modelled.  require_not_paused   *)
(* reads a key that set_access_control does not write, so no action here   *)
(* depends on a pause.  EmergencyWithdraw has no body in the crate.        *)
(***************************************************************************)
EXTENDS Integers, FiniteSets, Sequences, FiniteSetsExt, Sums

CONSTANTS
  Address, Deployer, Nobody,
  Tokens,
  Amounts,       \* amounts of fees and payments
  Rates,         \* basis points: reserve allocation, distribution, reserve ratio
  Caps,          \* withdrawal caps; 0 is no cap
  Configs,       \* [signers, threshold] access_control may report
  Actions,       \* treasury actions that may be proposed
  Milestones,    \* milestone sequences of grants
  Splits,        \* [shares, primary] of the sweep
  MaxProposals, MaxGrants, MaxPayments, MaxEpoch, MaxTime, \* bounds
  MaxReceived,   \* bound: tokens that come in
  UpgradeDelay,  \* UPGRADE_TIMELOCK_DELAY
  DefaultDelay,  \* DEFAULT_UPGRADE_DELAY
  Ttl,           \* TREASURY_PROPOSAL_TTL
  EpochLength,   \* EPOCH_DURATION
  ReclaimDelay   \* GRANT_RECLAIM_DELAY

(* What a proposed action carries; its amounts are checked when it runs.   *)
ActionOk(act) ==
  /\ act.type = "Withdraw" => act.token \in Tokens /\ act.amount \in Int
  /\ act.type = "SetFeeBps" => act.bps \in Nat
  /\ act.type = "SetTimelockDelay" => act.delay \in Nat
  /\ act.type = "SetTokenDecimals" => act.token \in Tokens /\ act.decimals \in Nat

ShareRecord == [to : Address, bps : Nat]

ASSUME AddressesOk ==
  Deployer \in Address /\ Nobody \notin Address /\ IsFiniteSet(Address)
ASSUME AmountsOk ==
  Amounts \subseteq Nat \ {0} /\ Rates \subseteq 0..10000 /\ Caps \subseteq Nat
ASSUME BoundsOk ==
  /\ MaxProposals \in Nat /\ MaxGrants \in Nat /\ MaxPayments \in Nat /\ MaxEpoch \in Nat
  /\ MaxTime \in Nat /\ MaxReceived \in Nat
ASSUME DelaysOk ==
  /\ UpgradeDelay \in Nat /\ DefaultDelay \in Nat /\ Ttl \in Nat /\ ReclaimDelay \in Nat
  /\ EpochLength \in Nat \ {0}
ASSUME ActionsOk == \A act \in Actions : ActionOk(act)
ASSUME ConfigsOk == \A c \in Configs : c.signers \subseteq Address /\ c.threshold \in Nat
ASSUME SplitInputsOk == \A s \in Splits : s.shares \in Seq(ShareRecord)
ASSUME MilestonesOk == \A m \in Milestones : m \in Seq(Int)

VARIABLES
  admin, pendingAdmin, feeBps, upgrade, \* Admin, PendingAdmin, FeeBps, UpgradeProposal
  account,     \* per token: its balance and keys (see Empty)
  allowed,     \* AllowedRecipient
  recipientAt, \* RecipientProposal: when proposed; -1 where absent
  reserveBps, reserveCallers, marketplace, ratio, \* ratio: MinReserveRatioBps; -1 while no registry is set
  config,      \* the MultisigConfig access_control reports; NoConfig where none
  delay,       \* TimelockKey::Delay
  proposals,   \* TreasuryProposal(id) and TreasuryProposalTimelock(id)
  grants,      \* Grant(id), with the milestones that have a proof
  dist,        \* the current epoch, its configuration and the pending proposal
  claims,      \* StakeholderClaim
  splits,      \* SweepSplit and SweepPrimaryDestination; NoSplits where absent
  report,      \* the latest TreasuryReport
  payments,    \* history: withdrawals as [token, at, amount, cap, start], start of the epoch
  unbooked, drawn, \* history, per token: paid out without touching Collected; by claims and refunds
  unreported,  \* history, per token: what came in without a fee report, less the fees reported
               \* that no tokens came in for
  unbacked,    \* history, per token: what those reports earmarked for the reserve
  received,    \* history: all that came in or was reported
  now

adminVars  == <<admin, pendingAdmin, feeBps, upgrade, reserveBps, reserveCallers, marketplace,
                ratio, config, delay>>
payeeVars  == <<allowed, recipientAt, splits>>
history    == <<payments, unbooked, drawn, received, unreported, unbacked>>
rest       == <<payeeVars, grants, dist, claims, report>>
vars == <<adminVars, account, rest, proposals, history, now>>

-------------------------------------------------------------------------------
NoConfig == [signers |-> {}, threshold |-> 0]
NoSplits == [shares |-> <<>>, primary |-> Nobody]
NoDist   == [stakeholders |-> {}, bps |-> 0]
Empty == [listed |-> FALSE, balance |-> 0, collected |-> 0, reserve |-> 0, decimals |-> -1,
          cap |-> 0, proposedCap |-> 0, capAt |-> -1, start |-> -1, withdrawn |-> 0]

Init ==
  /\ admin = Deployer /\ pendingAdmin = Nobody /\ feeBps = 50 /\ upgrade = -1
  /\ account = [t \in Tokens |-> Empty]
  /\ allowed = {} /\ recipientAt = [a \in Address |-> -1]
  /\ reserveBps = 0 /\ reserveCallers = {} /\ marketplace = Nobody /\ ratio = -1
  /\ config = NoConfig /\ delay = DefaultDelay
  /\ proposals = <<>> /\ grants = <<>>
  /\ dist = [epoch |-> 0, config |-> NoDist, proposal |-> NoDist, expires |-> -1]
  /\ claims = {} /\ splits = NoSplits
  /\ report = [epoch |-> 0, inflows |-> 0, outflows |-> 0, balance |-> 0]
  /\ payments = <<>> /\ received = 0
  /\ unbooked = [t \in Tokens |-> 0] /\ drawn = [t \in Tokens |-> 0]
  /\ unreported = [t \in Tokens |-> 0] /\ unbacked = [t \in Tokens |-> 0]
  /\ now = 0

BpsOf(amount, bps) == (amount * bps) \div 10000

(* require_no_quorum_required: more than one signer has to agree.          *)
Direct(a) == a = admin /\ config.threshold <= 1
IsSigner(a) == config # NoConfig /\ a \in config.signers

-------------------------------------------------------------------------------
(* Fees come in.                                                           *)

Earmarked(amount) == BpsOf(amount, reserveBps)

(* paid of the amount comes in with the report.                            *)
Reported(acc, paid, amount) ==
  [acc EXCEPT !.balance = @ + paid, !.collected = @ + amount, !.reserve = @ + Earmarked(amount)]

(* collect_fee only records: it moves no tokens and asks nobody's          *)
(* authorization, so that a fee may be reported that nobody paid.          *)
CollectFee(t, amount) ==
  /\ account[t].listed /\ received + amount <= MaxReceived
  /\ account' = [account EXCEPT ![t] = Reported(@, 0, amount)]
  /\ received' = received + amount
  /\ unreported' = [unreported EXCEPT ![t] = @ - amount]
  /\ unbacked' = [unbacked EXCEPT ![t] = @ + Earmarked(amount)]
  /\ UNCHANGED <<adminVars, rest, proposals, payments, unbooked, drawn, now>>

(* fund_invoice of the marketplace, and a payout of the pool with a late   *)
(* penalty, transfer the fee and report it in one transaction.             *)
PayFee(t, amount) ==
  /\ account[t].listed /\ received + amount <= MaxReceived
  /\ account' = [account EXCEPT ![t] = Reported(@, amount, amount)]
  /\ received' = received + amount
  /\ UNCHANGED <<adminVars, rest, proposals, payments, unbooked, drawn, unreported, unbacked, now>>

(* Anybody may transfer tokens to the contract; the pool does when its     *)
(* report is refused.                                                      *)
Donate(t, amount) ==
  /\ received + amount <= MaxReceived
  /\ account' = [account EXCEPT ![t].balance = @ + amount]
  /\ received' = received + amount /\ unreported' = [unreported EXCEPT ![t] = @ + amount]
  /\ UNCHANGED <<adminVars, rest, proposals, payments, unbooked, drawn, unbacked, now>>

(* A clawback of the fee, paid from whatever the contract holds.           *)
RefundFee(caller, t, amount) ==
  /\ caller = marketplace /\ account[t].listed /\ amount <= account[t].balance
  /\ account' = [account EXCEPT ![t].balance = @ - amount, ![t].collected = @ - amount]
  /\ drawn' = [drawn EXCEPT ![t] = @ + amount]
  /\ UNCHANGED <<adminVars, rest, proposals, payments, unbooked, received, unreported, unbacked, now>>

-------------------------------------------------------------------------------
(* Withdrawals.                                                            *)

EpochOver(acc) == acc.start >= 0 /\ now - acc.start >= EpochLength

(* enforce_rate_limit begins a new epoch when the old one is over, but     *)
(* only while a cap is set.                                                *)
InEpoch(acc) ==
  IF acc.cap > 0 /\ EpochOver(acc) THEN [acc EXCEPT !.start = now, !.withdrawn = 0] ELSE acc

(* Mutant: the amount is compared with the cap by itself.                  *)
EachWithinCap(acc, amount) == acc.cap > 0 => amount <= acc.cap

WithinCap(acc, amount) == acc.cap > 0 => InEpoch(acc).withdrawn + amount <= acc.cap

(* Mutant: the whole balance may be withdrawn.                             *)
SpendableIsBalance(acc) == acc.balance

Spendable(acc) == acc.balance - acc.reserve

Withdrawn(acc, amount) ==
  [InEpoch(acc) EXCEPT !.balance = @ - amount, !.collected = @ - amount,
     !.start = IF @ = -1 THEN now ELSE @, !.withdrawn = @ + amount]

DoWithdraw(t, recipient, amount) ==
  /\ amount > 0 /\ account[t].listed /\ recipient \in allowed
  /\ WithinCap(account[t], amount) /\ amount <= Spendable(account[t])
  /\ Len(payments) < MaxPayments
  /\ account' = [account EXCEPT ![t] = Withdrawn(@, amount)]
  /\ payments' = Append(payments, [token |-> t, at |-> now, amount |-> amount, cap |-> account[t].cap,
                                   start |-> account'[t].start])
  /\ UNCHANGED <<adminVars, rest, unbooked, drawn, received, unreported, unbacked, now>>

Withdraw(a, t, recipient, amount) ==
  /\ Direct(a) /\ DoWithdraw(t, recipient, amount)
  /\ UNCHANGED proposals

ProposeWithdrawalCap(a, t, cap) ==
  /\ a = admin /\ cap >= 0
  /\ account' = [account EXCEPT ![t].proposedCap = cap, ![t].capAt = now]
  /\ UNCHANGED <<adminVars, rest, proposals, history, now>>

ExecuteWithdrawalCap(a, t) ==
  /\ a = admin /\ account[t].capAt >= 0 /\ now >= account[t].capAt + UpgradeDelay
  /\ account' = [account EXCEPT ![t].cap = account[t].proposedCap, ![t].proposedCap = 0, ![t].capAt = -1]
  /\ UNCHANGED <<adminVars, rest, proposals, history, now>>

-------------------------------------------------------------------------------
(* Recipients, the reserve and the sweep.                                  *)

ProposeRecipient(a, r) ==
  /\ a = admin
  /\ recipientAt' = [recipientAt EXCEPT ![r] = now]
  /\ UNCHANGED <<adminVars, account, allowed, splits, grants, dist, claims, report, proposals, history, now>>

ExecuteRecipient(a, r) ==
  /\ a = admin /\ recipientAt[r] >= 0 /\ now >= recipientAt[r] + UpgradeDelay
  /\ recipientAt' = [recipientAt EXCEPT ![r] = -1]
  /\ allowed' = allowed \union {r}
  /\ UNCHANGED <<adminVars, account, splits, grants, dist, claims, report, proposals, history, now>>

DisburseFromReserve(c, t, amount) ==
  /\ c \in reserveCallers /\ amount > 0
  /\ amount <= account[t].reserve /\ amount <= account[t].balance
  /\ account' = [account EXCEPT ![t].reserve = @ - amount, ![t].balance = @ - amount]
  /\ unbooked' = [unbooked EXCEPT ![t] = @ + amount]
  /\ UNCHANGED <<adminVars, rest, proposals, payments, drawn, received, unreported, unbacked, now>>

SplitsOk(s) ==
  /\ s.shares # <<>>
  /\ SumOver([i \in DOMAIN s.shares |-> s.shares[i].bps], DOMAIN s.shares) = 10000
  /\ \E i \in DOMAIN s.shares : s.shares[i].to = s.primary

ConfigureSweepSplits(a, s) ==
  /\ a = admin /\ SplitsOk(s)
  /\ splits' = s
  /\ UNCHANGED <<adminVars, account, allowed, recipientAt, grants, dist, claims, report, proposals, history, now>>

Distributable(acc) == Min({Max({0, Spendable(acc)}), acc.collected})

SweptShares(amount) ==
  SumOver([i \in DOMAIN splits.shares |-> BpsOf(amount, splits.shares[i].bps)], DOMAIN splits.shares)

(* Rounding dust goes to the primary destination.                          *)
Dust(amount) == Max({0, amount - SweptShares(amount)})

(* Mutant: the dust is paid but not booked.                                *)
SharesBooked(amount) == SweptShares(amount)

Booked(amount) == SweptShares(amount) + Dust(amount)

(* Permissionless.                                                         *)
Sweep(t) ==
  LET d == Distributable(account[t])
  IN  /\ account[t].listed /\ splits # NoSplits /\ d > 0
      /\ account' = [account EXCEPT ![t].balance = @ - SweptShares(d) - Dust(d),
                                    ![t].collected = Max({0, @ - Booked(d)})]
      /\ UNCHANGED <<adminVars, rest, proposals, history, now>>

-------------------------------------------------------------------------------
(* Revenue shares of an epoch.                                             *)

ProposeDistribution(a, stakeholders, bps) ==
  /\ a = admin /\ stakeholders # {} /\ dist.epoch < MaxEpoch
  /\ dist' = [dist EXCEPT !.proposal = [stakeholders |-> stakeholders, bps |-> bps], !.expires = now + Ttl]
  /\ UNCHANGED <<adminVars, account, payeeVars, grants, claims, report, proposals, history, now>>

ExecuteDistribution(a) ==
  /\ a = admin /\ dist.proposal # NoDist /\ now <= dist.expires
  /\ dist' = [epoch |-> dist.epoch + 1, config |-> dist.proposal, proposal |-> NoDist, expires |-> -1]
  /\ UNCHANGED <<adminVars, account, payeeVars, grants, claims, report, proposals, history, now>>

(* The pool that a share is taken from is never stored, so each share is   *)
(* taken from all that is collected at the time; Collected stays.          *)
Share(t) == BpsOf(account[t].collected, dist.config.bps) \div Cardinality(dist.config.stakeholders)

ClaimKey(s, t) == <<s, dist.epoch, t>>

ClaimShare(s, t) ==
  /\ dist.epoch > 0 /\ s \in dist.config.stakeholders
  /\ ClaimKey(s, t) \notin claims
  /\ Share(t) > 0 /\ Share(t) <= account[t].balance
  /\ claims' = claims \union {ClaimKey(s, t)}
  /\ account' = [account EXCEPT ![t].balance = @ - Share(t)]
  /\ unbooked' = [unbooked EXCEPT ![t] = @ + Share(t)] /\ drawn' = [drawn EXCEPT ![t] = @ + Share(t)]
  /\ UNCHANGED <<adminVars, payeeVars, grants, dist, report, proposals, payments, received, unreported, unbacked, now>>

-------------------------------------------------------------------------------
(* Grants: anybody submits one; signers review it, release its milestones  *)
(* or reclaim it.                                                          *)

SubmitGrantProposal(recipient, t, milestones) ==
  /\ account[t].listed /\ Len(grants) < MaxGrants
  /\ milestones # <<>> /\ \A i \in DOMAIN milestones : milestones[i] > 0
  /\ grants' = Append(grants,
       [recipient |-> recipient, token |-> t, milestones |-> milestones, next |-> 1, proofs |-> {},
        remaining |-> SumOver(milestones, DOMAIN milestones),
        reviewed |-> FALSE, closed |-> FALSE, active |-> now])
  /\ UNCHANGED <<adminVars, account, payeeVars, dist, claims, report, proposals, history, now>>

SubmitGrantMilestoneProof(r, g) ==
  /\ grants[g].recipient = r /\ grants[g].reviewed /\ ~grants[g].closed
  /\ grants[g].next <= Len(grants[g].milestones) /\ grants[g].next \notin grants[g].proofs
  /\ grants' = [grants EXCEPT ![g].proofs = @ \union {grants[g].next}, ![g].active = now]
  /\ UNCHANGED <<adminVars, account, payeeVars, dist, claims, report, proposals, history, now>>

ReviewGrant(g) ==
  /\ g \in DOMAIN grants /\ ~grants[g].closed /\ ~grants[g].reviewed
  /\ grants' = [grants EXCEPT ![g].reviewed = TRUE, ![g].active = now]
  /\ UNCHANGED <<adminVars, account, payeeVars, dist, claims, report, history, now>>

(* check_grant_reserve: beside the reserve, the ratio of the balance must  *)
(* remain, rounded up.                                                     *)
GrantReserveOk(acc, amount) ==
  /\ Spendable(acc) >= amount
  /\ acc.balance - amount >= (acc.balance * ratio + 9999) \div 10000

ProofGiven(g) == grants[g].next \in grants[g].proofs

ReleaseGrantMilestone(g) ==
  LET grant  == grants[g]
      amount == grant.milestones[grant.next]
  IN  /\ g \in DOMAIN grants /\ ~grant.closed /\ grant.reviewed /\ ProofGiven(g)
      /\ grant.next <= Len(grant.milestones) /\ ratio >= 0
      /\ GrantReserveOk(account[grant.token], amount)
      /\ grants' = [grants EXCEPT ![g].remaining = @ - amount, ![g].next = @ + 1, ![g].active = now,
                                  ![g].closed = (grant.next = Len(grant.milestones))]
      /\ account' = [account EXCEPT ![grant.token].balance = @ - amount]
      /\ unbooked' = [unbooked EXCEPT ![grant.token] = @ + amount]
      /\ UNCHANGED <<adminVars, payeeVars, dist, claims, report, payments, drawn, received, unreported, unbacked, now>>

ReclaimGrant(g) ==
  /\ g \in DOMAIN grants /\ ~grants[g].closed /\ grants[g].reviewed /\ grants[g].remaining > 0
  /\ now >= grants[g].active + ReclaimDelay
  /\ grants' = [grants EXCEPT ![g].closed = TRUE, ![g].remaining = 0]
  /\ UNCHANGED <<adminVars, account, payeeVars, dist, claims, report, history, now>>

-------------------------------------------------------------------------------
(* Settings the signers may change as well as the admin alone.             *)

DoSetFeeBps(bps) ==
  /\ bps <= 10000
  /\ feeBps' = bps
  /\ UNCHANGED <<admin, pendingAdmin, upgrade, reserveBps, reserveCallers, marketplace, ratio, config,
                 delay, account, rest, history, now>>

DoProposeUpgrade ==
  /\ upgrade' = now
  /\ UNCHANGED <<admin, pendingAdmin, feeBps, reserveBps, reserveCallers, marketplace, ratio, config,
                 delay, account, rest, history, now>>

SetTimelockDelay(d) ==
  /\ d >= UpgradeDelay
  /\ delay' = d
  /\ UNCHANGED <<admin, pendingAdmin, feeBps, upgrade, reserveBps, reserveCallers, marketplace, ratio,
                 config, account, rest, history, now>>

(* The registry must answer with a ratio in range.                         *)
UpdateParameterRegistry(r) ==
  /\ r \in 0..10000
  /\ ratio' = r
  /\ UNCHANGED <<admin, pendingAdmin, feeBps, upgrade, reserveBps, reserveCallers, marketplace, config,
                 delay, account, rest, history, now>>

UpdateTokenDecimals(t, d) ==
  /\ d <= 18
  /\ account' = [account EXCEPT ![t].decimals = d]
  /\ UNCHANGED <<adminVars, rest, history, now>>

SetFeeBps(a, bps)            == Direct(a) /\ DoSetFeeBps(bps) /\ UNCHANGED proposals
SetParameterRegistry(a, r)   == Direct(a) /\ UpdateParameterRegistry(r) /\ UNCHANGED proposals
SetTokenDecimals(a, t, d)    == Direct(a) /\ UpdateTokenDecimals(t, d) /\ UNCHANGED proposals
ProposeUpgrade(a)            == a = admin /\ DoProposeUpgrade /\ UNCHANGED proposals

-------------------------------------------------------------------------------
(* Proposals of the signers.                                               *)

ProposeTreasuryAction(s, act) ==
  /\ IsSigner(s) /\ Len(proposals) < MaxProposals
  /\ proposals' = Append(proposals, [action |-> act, approvals |-> {s}, executed |-> FALSE,
                                     created |-> now, expires |-> now + Ttl, delay |-> delay])
  /\ UNCHANGED <<adminVars, account, rest, history, now>>

Open(p) == ~p.executed /\ now <= p.expires

ApproveTreasuryAction(s, id) ==
  /\ IsSigner(s) /\ Open(proposals[id]) /\ s \notin proposals[id].approvals
  /\ proposals' = [proposals EXCEPT ![id].approvals = @ \union {s}]
  /\ UNCHANGED <<adminVars, account, rest, history, now>>

Perform(act) ==
  \/ act.type = "Withdraw" /\ DoWithdraw(act.token, act.to, act.amount)
  \/ act.type = "SetFeeBps" /\ DoSetFeeBps(act.bps)
  \/ act.type = "ProposeUpgrade" /\ DoProposeUpgrade
  \/ act.type = "ReviewGrant" /\ ReviewGrant(act.grant)
  \/ act.type = "ReleaseGrantMilestone" /\ ReleaseGrantMilestone(act.grant)
  \/ act.type = "ReclaimGrant" /\ ReclaimGrant(act.grant)
  \/ act.type = "SetTimelockDelay" /\ SetTimelockDelay(act.delay)
  \/ act.type = "SetParameterRegistry" /\ UpdateParameterRegistry(act.ratio)
  \/ act.type = "SetTokenDecimals" /\ UpdateTokenDecimals(act.token, act.decimals)

(* Mutant: only the delay in force now is waited for.                      *)
ElapsedNow(p) == now >= p.created + delay

(* The delay at the time of the proposal or the one in force, the longer.  *)
Elapsed(p) == now >= p.created + Max({p.delay, delay})

ExecuteTreasuryAction(s, id) ==
  /\ IsSigner(s) /\ Open(proposals[id])
  /\ Cardinality(proposals[id].approvals) >= config.threshold /\ Elapsed(proposals[id])
  /\ proposals' = [proposals EXCEPT ![id].executed = TRUE]
  /\ Perform(proposals[id].action)

-------------------------------------------------------------------------------
(* The admin's other settings, reports and the outside world.              *)

Administer(a, p, rBps, callers, market, up) ==
  /\ admin' = a /\ pendingAdmin' = p /\ reserveBps' = rBps /\ reserveCallers' = callers
  /\ marketplace' = market /\ upgrade' = up
  /\ UNCHANGED <<feeBps, ratio, config, delay, account, rest, proposals, history, now>>

ProposeAdmin(a, new) ==
  a = admin /\ new # a /\ Administer(admin, new, reserveBps, reserveCallers, marketplace, upgrade)
AcceptAdmin(new) ==
  new = pendingAdmin /\ Administer(new, Nobody, reserveBps, reserveCallers, marketplace, upgrade)
CancelAdminProposal(a) ==
  a = admin /\ pendingAdmin # Nobody /\ Administer(admin, Nobody, reserveBps, reserveCallers, marketplace, upgrade)
SetReserveAllocationBps(a, bps) ==
  a = admin /\ bps <= 10000 /\ Administer(admin, pendingAdmin, bps, reserveCallers, marketplace, upgrade)
SetReserveCaller(a, c, on) ==
  /\ a = admin
  /\ Administer(admin, pendingAdmin, reserveBps,
                IF on THEN reserveCallers \union {c} ELSE reserveCallers \ {c}, marketplace, upgrade)
SetMarketplace(a, m) ==
  a = admin /\ Administer(admin, pendingAdmin, reserveBps, reserveCallers, m, upgrade)
ExecuteUpgrade(a) ==
  /\ a = admin /\ upgrade >= 0 /\ now >= upgrade + UpgradeDelay
  /\ Administer(admin, pendingAdmin, reserveBps, reserveCallers, marketplace, -1)

WhitelistToken(a, t) ==
  /\ a = admin
  /\ account' = [account EXCEPT ![t].listed = TRUE]
  /\ UNCHANGED <<adminVars, rest, proposals, history, now>>

GenerateTransparencyReport(a, t) ==
  /\ a = admin /\ account[t].decimals >= 0
  /\ report' = [epoch |-> now, inflows |-> account[t].collected, balance |-> account[t].balance,
                outflows |-> Max({0, account[t].collected - account[t].balance})]
  /\ UNCHANGED <<adminVars, account, payeeVars, grants, dist, claims, proposals, history, now>>

(* access_control configures its multisig, after set_access_control.       *)
Reconfigure(c) ==
  /\ config' = c
  /\ UNCHANGED <<admin, pendingAdmin, feeBps, upgrade, reserveBps, reserveCallers, marketplace, ratio,
                 delay, account, rest, proposals, history, now>>

Tick ==
  /\ now < MaxTime
  /\ now' = now + 1
  /\ UNCHANGED <<adminVars, account, rest, proposals, history>>

-------------------------------------------------------------------------------
Collecting  == \E t \in Tokens, n \in Amounts : CollectFee(t, n) \/ PayFee(t, n) \/ Donate(t, n)
Withdrawing == \E a, r \in Address, t \in Tokens, n \in Amounts : Withdraw(a, t, r, n)
Capping ==
  \E a \in Address, t \in Tokens :
    ExecuteWithdrawalCap(a, t) \/ \E c \in Caps : ProposeWithdrawalCap(a, t, c)
Naming == \E a, r \in Address : ProposeRecipient(a, r) \/ ExecuteRecipient(a, r)
Returning ==
  \E a \in Address, t \in Tokens, n \in Amounts : RefundFee(a, t, n) \/ DisburseFromReserve(a, t, n)
Sweeping == (\E a \in Address, s \in Splits : ConfigureSweepSplits(a, s)) \/ \E t \in Tokens : Sweep(t)
Sharing ==
  \/ \E a \in Address, ss \in SUBSET Address, b \in Rates : ProposeDistribution(a, ss, b)
  \/ \E a \in Address : ExecuteDistribution(a) \/ \E t \in Tokens : ClaimShare(a, t)
Granting ==
  \/ \E r \in Address, t \in Tokens, m \in Milestones : SubmitGrantProposal(r, t, m)
  \/ \E r \in Address, g \in DOMAIN grants : SubmitGrantMilestoneProof(r, g)
Proposing ==
  \E s \in Address :
    \/ \E act \in Actions : ProposeTreasuryAction(s, act)
    \/ \E id \in DOMAIN proposals : ApproveTreasuryAction(s, id) \/ ExecuteTreasuryAction(s, id)
Setting ==
  \E a \in Address :
    \/ \E b \in Rates : SetFeeBps(a, b) \/ SetReserveAllocationBps(a, b) \/ SetParameterRegistry(a, b)
    \/ \E c \in Address : \/ SetReserveCaller(a, c, TRUE) \/ SetReserveCaller(a, c, FALSE)
                          \/ SetMarketplace(a, c) \/ ProposeAdmin(a, c)
    \/ AcceptAdmin(a) \/ CancelAdminProposal(a)
    \/ \E t \in Tokens : WhitelistToken(a, t) \/ SetTokenDecimals(a, t, 7) \/ GenerateTransparencyReport(a, t)
    \/ ProposeUpgrade(a) \/ ExecuteUpgrade(a)

Next ==
  \/ Collecting \/ Withdrawing \/ Capping \/ Naming \/ Returning \/ Sweeping \/ Sharing \/ Granting
  \/ Proposing \/ Setting \/ (\E c \in Configs : Reconfigure(c)) \/ Tick

Spec == Init /\ [][Next]_vars

-------------------------------------------------------------------------------
AccountRecord ==
  [listed : BOOLEAN, balance : Nat, collected : Int, reserve : Nat, decimals : Int,
   cap : Nat, proposedCap : Nat, capAt : Int, start : Nat \union {-1}, withdrawn : Nat]
GrantRecord ==
  [recipient : Address, token : Tokens, milestones : Seq(Nat \ {0}), next : Nat \ {0},
   proofs : SUBSET Nat, remaining : Nat, reviewed : BOOLEAN, closed : BOOLEAN, active : Nat]
ProposalRecord ==
  [action : Actions, approvals : SUBSET Address, executed : BOOLEAN,
   created : Nat, expires : Nat, delay : Nat]
PaymentRecord == [token : Tokens, at : Nat, amount : Nat \ {0}, cap : Nat, start : Nat]
DistRecord == [stakeholders : SUBSET Address, bps : Nat]

AdminOk ==
  /\ admin \in Address /\ pendingAdmin \in Address \union {Nobody}
  /\ reserveBps \in 0..10000 /\ ratio \in Int /\ delay \in Nat /\ now \in Nat
  /\ feeBps \in Nat /\ upgrade \in Int /\ reserveCallers \subseteq Address
  /\ config = NoConfig \/ config \in Configs
PayeesOk ==
  /\ allowed \subseteq Address /\ recipientAt \in [Address -> Int]
  /\ splits # NoSplits => splits \in Splits /\ SplitsOk(splits)
DistOk ==
  /\ dist \in [epoch : Nat, config : DistRecord, proposal : DistRecord, expires : Int]
  /\ dist.proposal # NoDist => dist.proposal.stakeholders # {}
  /\ dist.epoch > 0 => dist.config.stakeholders # {}
GrantsOk == grants \in Seq(GrantRecord)
ProposalsOk == proposals \in Seq(ProposalRecord)
HistoryOk ==
  /\ payments \in Seq(PaymentRecord) /\ received \in Nat
  /\ unbooked \in [Tokens -> Nat] /\ drawn \in [Tokens -> Nat]
  /\ unreported \in [Tokens -> Int] /\ unbacked \in [Tokens -> Nat]

(* The shape of the keys: no balance or reserve is overdrawn, a grant owes *)
(* no negative amount, and splits and stakeholders in force are complete.  *)
TypeOK ==
  /\ AdminOk /\ PayeesOk /\ DistOk /\ HistoryOk /\ GrantsOk /\ ProposalsOk
  /\ account \in [Tokens -> AccountRecord]

(* No withdrawal, sweep, disbursement or grant reaches into the loss       *)
(* reserve: what the balance lacks of it was paid out by refund_fee and    *)
(* claim_share, or earmarked by a report (collect_fee) that no tokens came *)
(* in for.                                                                 *)
ReserveKept ==
  \A t \in Tokens : account[t].balance + drawn[t] + unbacked[t] >= account[t].reserve

(* Collected is what was reported, less what withdrawals, sweeps and       *)
(* refunds paid: it differs from the balance by what came in unreported or *)
(* was reported without coming in, and by what grants, reserve and shares  *)
(* paid out, over any sequence of the six ways out.                        *)
CollectedAccounted ==
  \A t \in Tokens : account[t].balance + unbooked[t] = account[t].collected + unreported[t]

(* A grant pays its milestones in order, each on its own proof, and no     *)
(* more than the sum it was reviewed for.                                  *)
GrantsPaidOnProof ==
  \A g \in DOMAIN grants :
    LET grant == grants[g]
    IN  /\ 1..(grant.next - 1) \subseteq grant.proofs
        /\ grant.proofs \subseteq 1..Len(grant.milestones)
        /\ ~grant.closed =>
             grant.remaining = SumOver(grant.milestones, grant.next..Len(grant.milestones))

(* What the books say was collected, and is still owed to grants, follows  *)
(* the money.                                                              *)
BooksFollowMoney == CollectedAccounted /\ GrantsPaidOnProof

(* Withdrawals under a cap: no stretch of EPOCH_DURATION sees more than    *)
(* twice the cap leave (two epochs meet inside it), cap changes included.  *)
TwiceTheCap ==
  \A i \in DOMAIN payments :
    LET window == {j \in DOMAIN payments :
                     /\ payments[j].token = payments[i].token /\ payments[j].cap > 0
                     /\ payments[j].at \in (payments[i].at - EpochLength + 1)..payments[i].at}
    IN  payments[i].cap > 0 =>
          SumOver([j \in window |-> payments[j].amount], window)
            <= 2 * Max({payments[j].cap : j \in window})

(* Who may act for the signers: a proposal that ran in this step, with the *)
(* approvals in force and after the delay known when it was made.          *)
ByProposal ==
  \E id \in DOMAIN proposals :
    /\ ~proposals[id].executed /\ proposals'[id].executed
    /\ Cardinality(proposals[id].approvals) >= config.threshold
    /\ now >= proposals[id].created + proposals[id].delay

DecimalsChange == \E t \in Tokens : account'[t].decimals # account[t].decimals

(* Once two signers or more have to agree, money is withdrawn and fees,    *)
(* decimals and the registry change only by a proposal that enough signers *)
(* approved and that waited for the delay known when it was made. Not so   *)
(* an upgrade, which the admin proposes alone (lib.rs:1178).               *)
QuorumForWithdrawals ==
  [][config.threshold > 1 /\ (payments' # payments \/ feeBps' # feeBps \/ ratio' # ratio \/ DecimalsChange)
       => ByProposal]_vars

===============================================================================
