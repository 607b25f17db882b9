-------------------------------- MODULE Decisions --------------------------------
(***************************************************************************)
(* What is decided by votes, signers and time: governance_voting,          *)
(* governance, parameter_registry, vesting, the marketplace's settings and *)
(* the timelock that contracts share, each with its own state.  Any of     *)
(* them may be called at any time.                                         *)
(***************************************************************************)
EXTENDS Integers, FiniteSets, Sequences

CONSTANTS
  Voter, NoOne, Weights, Credits, Quorums, Durations, PollDuration, Vestings, MaxPolls, VoteMaxTime,
  Account, Stakes, Hashes, NoHash, Results, TrackSettings, Sizes,
  MinStake, Quorum, ThresholdBps, VotingDuration, MaxCount, GovMaxTime,
  Deployer, Keys, Values, SignerConfigs, Timelock, ProposalTtl, MaxParamProposals, RegMaxTime,
  Schedules, Deposits, UpgradeDelay, VestMaxFunds, VestMaxTime,
  Tokens, Fields, Contracts, Rates, Tiers, Quora, MktDelay, MaxActs, MktMaxTime,
  Proposers, Codes, Delays, DefaultDelay, MaxUpgrades, LockMaxTime

ASSUME Nameable == NoOne \notin Voter \union Account \union Vestings
ASSUME FiniteCrowd == IsFiniteSet(Voter) /\ IsFiniteSet(Account)
ASSUME WeightsOk ==
  /\ Weights \subseteq Int /\ Credits \subseteq Int /\ Quorums \subseteq Int
  /\ VoteMaxTime \in Nat
ASSUME PollsOk == PollDuration \in Nat /\ Durations \subseteq Nat
ASSUME GovernanceOk ==
  /\ Stakes \subseteq Int /\ Results \subseteq Int \X Int
  /\ MinStake \in Nat /\ Quorum \in Nat /\ ThresholdBps \in Nat /\ VotingDuration \in Nat
  /\ MaxCount \in Nat /\ GovMaxTime \in Nat
  /\ TrackSettings \subseteq [enabled : BOOLEAN, threshold : Nat, timelock : Nat, maxSize : Nat]
ASSUME KeysKnown ==
  Keys \subseteq {"MarketplaceFeeBps", "ReferrerSplitBps", "MinContributionAmount", "TierFeeAaa", "TierFeeAa", "TierFeeA",
                  "TierFeeB", "TierFeeC", "LatePenaltyBps", "LatePenaltyTreasurySplitBps", "MaxPositionBps",
                  "GracePeriodSecs", "MinimumVerifierStake", "MinimumDebtorScore", "SlashPercentageBps",
                  "TreasuryFeeBps", "ReserveAllocationBps"}
ASSUME RegistryOk == Values \subseteq Int /\ Timelock \in Nat /\ ProposalTtl \in Nat /\ RegMaxTime \in Nat
ASSUME VestingOk ==
  /\ Schedules \subseteq [total : Int, start : Nat, cliff : Nat, duration : Nat]
  /\ Deposits \subseteq Nat /\ UpgradeDelay \in Nat /\ VestMaxTime \in Nat
ASSUME SettingsOk ==
  /\ Rates \subseteq Int /\ MktDelay \in Nat /\ MktMaxTime \in Nat
  /\ Quora \subseteq [signers : SUBSET Account, threshold : Nat]
ASSUME TimelockOk == Delays \subseteq Nat /\ DefaultDelay \in Nat /\ LockMaxTime \in Nat

VARIABLES
  weight, vesting, granted, delegation, delegatedBy, proposals, records, opening, now,
  stake, target, count, standard, fast, voted, offchain, track, critical, ballots, scheduled, govNow,
  regAdmin, regPending, regUpgrade, linked, signing, params, changes, regNow,
  grants, funds, received, vestUpgrade, vestNow,
  rates, listed, codeAt, wiring, acts, reported, accepts, mktNow,
  delay, upgrades, running, lockNow

voteVars == <<weight, vesting, granted, delegation, delegatedBy, proposals, records, opening, now>>
govVars  == <<stake, target, count, standard, fast, voted, offchain, track, critical, ballots, scheduled, govNow>>
regVars  == <<regAdmin, regPending, regUpgrade, linked, signing, params, changes, regNow>>
vestVars == <<grants, funds, received, vestUpgrade, vestNow>>
setVars  == <<rates, listed, codeAt, wiring, acts, reported, accepts, mktNow>>
lockVars == <<delay, upgrades, running, lockNow>>
decisionsVars == <<voteVars, govVars, regVars, vestVars, setVars, lockVars>>

Voting   == INSTANCE GovernanceVoting WITH Address <- Voter, Nobody <- NoOne, DefaultDuration <- PollDuration,
              MaxProposals <- MaxPolls, MaxTime <- VoteMaxTime
Gov      == INSTANCE Governance WITH Address <- Account
Registry == INSTANCE ParameterRegistry WITH Address <- Account, Nobody <- NoOne
Vest     == INSTANCE Vesting WITH Address <- Account
Settings == INSTANCE MarketplaceSettings WITH Address <- Account, Nobody <- NoOne, tokens <- listed, SignerSets <- Quora
Lock     == INSTANCE UpgradeTimelock

DecisionsInit == Voting!Init /\ Gov!Init /\ Registry!Init /\ Vest!Init /\ Settings!Init /\ Lock!Init

VotingStep   == Voting!Next /\ UNCHANGED <<govVars, regVars, vestVars, setVars, lockVars>>
GovStep      == Gov!Next /\ UNCHANGED <<voteVars, regVars, vestVars, setVars, lockVars>>
RegistryStep == Registry!Next /\ UNCHANGED <<voteVars, govVars, vestVars, setVars, lockVars>>
VestStep     == Vest!Next /\ UNCHANGED <<voteVars, govVars, regVars, setVars, lockVars>>
SettingsStep == Settings!Next /\ UNCHANGED <<voteVars, govVars, regVars, vestVars, lockVars>>
LockStep     == Lock!Next /\ UNCHANGED <<voteVars, govVars, regVars, vestVars, setVars>>

DecisionsNext == VotingStep \/ GovStep \/ RegistryStep \/ VestStep \/ SettingsStep \/ LockStep

DecisionsSpec == DecisionsInit /\ [][DecisionsNext]_decisionsVars

-----------------------------------------------------------------------------
(* Each property under the name its module gives it; ParametersGuarded is  *)
(* parameter_registry's, the marketplace's and the shared timelock's.      *)
VotesCounted      == Voting!VotesCounted
SnapshotHolds     == [][Voting!SnapshotHoldsStep]_voteVars
ExecutedStaysWon  == Gov!ExecutedStaysWon
ParametersGuarded ==
  /\ [][Registry!ParametersGuardedStep]_regVars
  /\ [][Settings!SettingsGuardedStep]_setVars
  /\ [][Lock!RunsOnceStep]_lockVars
ScheduleKept      == [][Vest!ScheduleKeptStep]_vestVars
=============================================================================
