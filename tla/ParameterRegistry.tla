---------------------------- MODULE ParameterRegistry ----------------------------
(***************************************************************************)
(* contracts/parameter_registry: the bounded protocol parameters, set by   *)
(* the admin while access_control reports no multisig and by approved,     *)
(* timelocked proposals of its signers afterwards.  The signer set is      *)
(* access_control's and external here.  The audit ring is left out.        *)
(***************************************************************************)
EXTENDS Integers, FiniteSets, Sequences, SequencesExt

CONSTANTS
  Address, Deployer, Nobody,
  Keys,              \* the parameters of this instance, of those below
  Values,            \* values proposed or set
  SignerConfigs,     \* [signers, threshold] access_control may report
  Timelock,          \* GOVERNANCE_TIMELOCK = UPGRADE_TIMELOCK_DELAY
  ProposalTtl,       \* PROPOSAL_TTL_SECS
  MaxParamProposals, RegMaxTime \* bounds

VARIABLES
  regAdmin, regPending, \* Admin, PendingAdmin
  regUpgrade,  \* when UpgradeProposal was made; -1 where absent
  linked,      \* whether AccessControl is set
  signing,     \* what access_control reports; NoConfig where no multisig
  params,      \* Param(key)
  changes,     \* ParamProposal(id), in order
  regNow       \* ledger time

state == <<regAdmin, regPending, regUpgrade, linked, signing, params, changes>>
vars  == <<state, regNow>>
adminState == <<regAdmin, regPending, regUpgrade, linked>>

NoConfig == [signers |-> {}, threshold |-> 0]

BpsKeys == {"MarketplaceFeeBps", "ReferrerSplitBps", "TierFeeAaa", "TierFeeAa", "TierFeeA", "TierFeeB",
            "TierFeeC", "LatePenaltyBps", "LatePenaltyTreasurySplitBps", "MaxPositionBps",
            "SlashPercentageBps", "TreasuryFeeBps", "ReserveAllocationBps"}

Unbounded == 2^30  \* stands for i128::MAX / 2
MaxBps    == 10000
MaxGrace  == 7776000

(* bootstrap_defaults: value, min_value and max_value of every key.        *)
BootstrapDefault(key) ==
  LET P(v, lo, hi) == [value |-> v, min |-> lo, max |-> hi]
  IN CASE key \in {"MarketplaceFeeBps", "TierFeeA", "TreasuryFeeBps"} -> P(50, 0, MaxBps)
       [] key = "ReferrerSplitBps" -> P(1000, 0, 5000)
       [] key = "MinContributionAmount" -> P(10000000, 0, Unbounded)
       [] key = "TierFeeAaa" -> P(25, 0, MaxBps)
       [] key = "TierFeeAa" -> P(35, 0, MaxBps)
       [] key = "TierFeeB" -> P(75, 0, MaxBps)
       [] key = "TierFeeC" -> P(100, 0, MaxBps)
       [] key \in {"LatePenaltyBps", "SlashPercentageBps"} -> P(500, 0, MaxBps)
       [] key = "LatePenaltyTreasurySplitBps" -> P(5000, 0, MaxBps)
       [] key = "MaxPositionBps" -> P(5000, 1, MaxBps)
       [] key = "GracePeriodSecs" -> P(604800, 0, MaxGrace)
       [] key = "MinimumVerifierStake" -> P(1000000000, 0, Unbounded)
       [] key = "MinimumDebtorScore" -> P(0, 0, 100)
       [] key = "ReserveAllocationBps" -> P(1000, 0, 5000)

Init ==
  /\ regAdmin = Deployer /\ regPending = Nobody /\ regUpgrade = -1
  /\ linked \in BOOLEAN
  /\ signing = NoConfig
  /\ params = [k \in Keys |-> BootstrapDefault(k)]
  /\ changes = <<>>
  /\ regNow = 0

-----------------------------------------------------------------------------
(* Who may write, and what                                                 *)

Config == IF linked THEN signing ELSE NoConfig
IsMultisigConfigured == Config # NoConfig
GovernanceThreshold == IF IsMultisigConfigured THEN Config.threshold ELSE 1
IsGovernanceSigner(a) == IF IsMultisigConfigured THEN a \in Config.signers ELSE a = regAdmin

ValidateParamValue(key, v) ==
  /\ params[key].max > 0 => v <= params[key].max
  /\ v >= params[key].min
  /\ v >= 0
  /\ key \in BpsKeys => v <= MaxBps
  /\ key = "MinimumDebtorScore" => v <= 100
  /\ key = "GracePeriodSecs" => v <= MaxGrace

ApplyParamUpdate(key, v) ==
  /\ ValidateParamValue(key, v)
  /\ params' = [params EXCEPT ![key].value = v]

AdminSetParameter(key, v) ==
  /\ ~IsMultisigConfigured
  /\ ApplyParamUpdate(key, v)
  /\ UNCHANGED <<adminState, signing, changes, regNow>>

-----------------------------------------------------------------------------
(* Proposals                                                               *)

ProposeParamUpdate(a, key, v) ==
  /\ IsGovernanceSigner(a)
  /\ ValidateParamValue(key, v)
  /\ Len(changes) < MaxParamProposals
  /\ changes' = Append(changes,
       [key |-> key, value |-> v, proposer |-> a, approvals |-> {a}, executed |-> FALSE, cancelled |-> FALSE,
        executableAfter |-> regNow + Timelock, expiresAt |-> regNow + ProposalTtl])
  /\ UNCHANGED <<adminState, signing, params, regNow>>

Pending(c) == ~c.executed /\ ~c.cancelled

ApproveParamUpdate(a, id) ==
  /\ IsGovernanceSigner(a)
  /\ Pending(changes[id])
  /\ regNow <= changes[id].expiresAt
  /\ a \notin changes[id].approvals
  /\ changes' = [changes EXCEPT ![id].approvals = @ \cup {a}]
  /\ UNCHANGED <<adminState, signing, params, regNow>>

(* Mutant: the approvals needed are those of a single admin.               *)
ApprovedByOne(c) == c.approvals # {}

(* Approvals of signers who have left since still count.                   *)
Approved(c) == Cardinality(c.approvals) >= GovernanceThreshold

ExecuteParamUpdate(a, id) ==
  LET c == changes[id]
  IN /\ IsGovernanceSigner(a)
     /\ Pending(c)
     /\ regNow <= c.expiresAt
     /\ Approved(c)
     /\ regNow >= c.executableAfter
     /\ ApplyParamUpdate(c.key, c.value)
     /\ changes' = [changes EXCEPT ![id].executed = TRUE]
     /\ UNCHANGED <<adminState, signing, regNow>>

CancelParamUpdate(a, id) ==
  /\ Pending(changes[id])
  /\ a \in {changes[id].proposer, regAdmin}
  /\ changes' = [changes EXCEPT ![id].cancelled = TRUE]
  /\ UNCHANGED <<adminState, signing, params, regNow>>

-----------------------------------------------------------------------------
(* The admin's keys                                                        *)

SetAccessControl == linked' = TRUE /\ UNCHANGED <<regAdmin, regPending, regUpgrade>>
ProposeUpgrade == regUpgrade' = regNow /\ UNCHANGED <<regAdmin, regPending, linked>>
ExecuteUpgrade ==
  /\ regUpgrade # -1 /\ regNow >= regUpgrade + Timelock
  /\ regUpgrade' = -1
  /\ UNCHANGED <<regAdmin, regPending, linked>>
ProposeAdmin(a) == regPending' = a /\ UNCHANGED <<regAdmin, regUpgrade, linked>>
AcceptAdmin ==
  /\ regPending # Nobody
  /\ regAdmin' = regPending /\ regPending' = Nobody
  /\ UNCHANGED <<regUpgrade, linked>>

Administer ==
  /\ \/ SetAccessControl \/ ProposeUpgrade \/ ExecuteUpgrade \/ AcceptAdmin
     \/ \E a \in Address : ProposeAdmin(a)
  /\ UNCHANGED <<signing, params, changes, regNow>>

(* access_control's signer set comes and goes by itself.                   *)
Reconfigure(c) ==
  /\ signing' = c
  /\ UNCHANGED <<adminState, params, changes, regNow>>

Tick == regNow < RegMaxTime /\ regNow' = regNow + 1 /\ UNCHANGED state

Next ==
  \/ \E k \in Keys, v \in Values : AdminSetParameter(k, v)
  \/ \E a \in Address, k \in Keys, v \in Values : ProposeParamUpdate(a, k, v)
  \/ \E a \in Address, id \in DOMAIN changes :
       ApproveParamUpdate(a, id) \/ ExecuteParamUpdate(a, id) \/ CancelParamUpdate(a, id)
  \/ Administer
  \/ \E c \in SignerConfigs : Reconfigure(c)
  \/ Tick

Spec == Init /\ [][Next]_vars

-----------------------------------------------------------------------------
(* What could be wrong                                                     *)

(* No way of writing takes a parameter out of the bounds it started with,  *)
(* not even a proposal validated long before it is executed.               *)
ParamsInBounds ==
  \A k \in Keys :
    /\ params[k].value \in params[k].min .. params[k].max
    /\ k \in BpsKeys => params[k].value <= MaxBps

(* Under a multisig, a parameter changes only by one open proposal that    *)
(* waited out its timelock with as many approvals as the threshold in      *)
(* force asks for, and stays within the bounds it started with; a proposal *)
(* executed or cancelled keeps that state, whoever retries.                *)
ParametersGuardedStep ==
  /\ params' # params /\ IsMultisigConfigured =>
       \E id \in DOMAIN changes :
         /\ ~changes[id].executed /\ changes'[id].executed /\ ~changes'[id].cancelled
         /\ params'[changes[id].key].value = changes[id].value
         /\ Cardinality(changes[id].approvals) >= Config.threshold
         /\ regNow \in changes[id].executableAfter .. changes[id].expiresAt
  /\ ParamsInBounds'
  /\ \A id \in DOMAIN changes :
       changes[id].executed \/ changes[id].cancelled => changes'[id] = changes[id]
ParametersGuarded == [][ParametersGuardedStep]_vars

=============================================================================
