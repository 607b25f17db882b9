------------------------------- MODULE Governance -------------------------------
(***************************************************************************)
(* contracts/governance: stake-weighted votes on upgrades, with off-chain  *)
(* tallies the admin anchors and a fast track for critical bugs.  Standard *)
(* and fast-track proposals draw their ids from one counter and share the  *)
(* Voted keys.                                                             *)
(*                                                                         *)
(* A call that returns an error is rolled back by the host.  The status    *)
(* Failed is only ever written before returning an error, so no proposal   *)
(* has it: what fails stays Active and may be executed again.              *)
(***************************************************************************)
EXTENDS Sums, FiniteSets, Sequences

CONSTANTS
  Address,
  Stakes,             \* what the admin may set as a stake, of any sign
  Hashes, NoHash,     \* code hashes of the target contract; the zero hash
  Results,            \* off-chain tallies, pairs of votes for and against
  TrackSettings,      \* [enabled, threshold, timelock, maxSize] of the fast track
  Sizes,              \* proposal_size_bytes
  MinStake, Quorum, ThresholdBps, VotingDuration, \* fixed by initialize
  MaxCount, GovMaxTime \* bounds

VARIABLES
  stake,     \* StakedBalance
  target,    \* TargetCurrentHash of the one target contract
  count,     \* ProposalCount
  standard,  \* Proposal(id), on the ids it exists for
  fast,      \* FastTrackProposal(id), likewise
  voted,     \* Voted(id, voter)
  offchain,  \* OffchainResult(id), likewise
  track,     \* FastTrackEnabled, ...ThresholdBps, ...Timelock, ...MaxProposalSize
  critical,  \* whether the bug report is registered as critical
  ballots,   \* history: [id, fast, voter, support, weight]
  scheduled, \* the upgrade records of governance's own timelock, by proposal
  govNow     \* ledger time

state == <<stake, target, count, standard, fast, voted, offchain, track, critical, ballots, scheduled>>
vars  == <<state, govNow>>
settings == <<stake, target, track, critical>>

None == <<>>  \* no proposals
Put(f, id, v) == [x \in {id} \cup DOMAIN f |-> IF x = id THEN v ELSE f[x]]

Init ==
  /\ stake = [a \in Address |-> 0]
  /\ target = NoHash
  /\ count = 0
  /\ standard = None /\ fast = None /\ offchain = None
  /\ voted = {} /\ ballots = {}
  /\ track = [enabled |-> FALSE, threshold |-> 7500, timelock |-> 7200, maxSize |-> 1000]
  /\ critical = FALSE
  /\ scheduled = <<>>
  /\ govNow = 0

-----------------------------------------------------------------------------
(* The admin's settings                                                    *)

SetStake(a, w) == stake' = [stake EXCEPT ![a] = w] /\ UNCHANGED <<target, track, critical>>
SetTargetHash(h) == target' = h /\ UNCHANGED <<stake, track, critical>>
ConfigureFastTrack(t) == track' = t /\ UNCHANGED <<stake, target, critical>>
RegisterCriticalBugReport == critical' = TRUE /\ UNCHANGED <<stake, target, track>>

Setting ==
  /\ \/ \E a \in Address, w \in Stakes : SetStake(a, w)
     \/ \E h \in Hashes : SetTargetHash(h)
     \/ \E t \in TrackSettings : ConfigureFastTrack(t)
     \/ RegisterCriticalBugReport
  /\ UNCHANGED <<count, standard, fast, voted, offchain, ballots, scheduled, govNow>>

-----------------------------------------------------------------------------
(* Proposals                                                               *)

Poll ==
  [for |-> 0, against |-> 0, end |-> govNow + VotingDuration, status |-> "Active", hash |-> target,
   mode |-> "OnChain"]

CreateProposal(a) ==
  /\ stake[a] >= MinStake
  /\ count < MaxCount
  /\ count' = count + 1
  /\ standard' = Put(standard, count + 1, Poll)
  /\ UNCHANGED <<settings, fast, voted, offchain, ballots, scheduled, govNow>>

FastTrackId == count + 1

FastTrackPoll ==
  [for |-> 0, against |-> 0, end |-> govNow + track.timelock, status |-> "Active", hash |-> target,
   created |-> govNow, disclosed |-> FALSE]

CreateFastTrackProposal(a, size) ==
  /\ track.enabled /\ critical
  /\ size <= track.maxSize
  /\ stake[a] >= MinStake
  /\ count < MaxCount
  /\ count' = FastTrackId
  /\ fast' = Put(fast, FastTrackId, FastTrackPoll)
  /\ UNCHANGED <<settings, standard, voted, offchain, ballots, scheduled, govNow>>

-----------------------------------------------------------------------------
(* Voting                                                                  *)

(* Mutant: votes are taken until the end whatever the status.              *)
OpenUntilTheEnd(p) == govNow < p.end

Open(p) == p.status = "Active" /\ govNow < p.end

Counted(p, a, support) ==
  IF support THEN [p EXCEPT !.for = @ + stake[a]] ELSE [p EXCEPT !.against = @ + stake[a]]

(* What vote and vote_fast_track have in common.                           *)
Cast(a, id, p, support, isFast) ==
  /\ Open(p)
  /\ <<id, a>> \notin voted
  /\ stake[a] > 0
  /\ voted' = voted \cup {<<id, a>>}
  /\ ballots' = ballots \cup
       {[id |-> id, fast |-> isFast, voter |-> a, support |-> support, weight |-> stake[a]]}
  /\ UNCHANGED <<settings, count, offchain, scheduled, govNow>>

Vote(a, id, support) ==
  /\ Cast(a, id, standard[id], support, FALSE)
  /\ standard[id].mode = "OnChain"
  /\ standard' = [standard EXCEPT ![id] = Counted(@, a, support)]
  /\ UNCHANGED fast

VoteFastTrack(a, id, support) ==
  /\ Cast(a, id, fast[id], support, TRUE)
  /\ fast' = [fast EXCEPT ![id] = Counted(@, a, support)]
  /\ UNCHANGED standard

DesignateOffchainVoting(id) ==
  /\ standard[id].status = "Active" /\ standard[id].mode = "OnChain"
  /\ standard[id].for = 0 /\ standard[id].against = 0
  /\ standard' = [standard EXCEPT ![id].mode = "OffChain"]
  /\ UNCHANGED <<settings, count, fast, voted, offchain, ballots, scheduled, govNow>>

VotingOver(p) == govNow >= p.end

AnchorOffchainResult(id, result) ==
  /\ standard[id].status = "Active" /\ standard[id].mode = "OffChain" /\ VotingOver(standard[id])
  /\ result[1] >= 0 /\ result[2] >= 0
  /\ id \notin DOMAIN offchain
  /\ offchain' = Put(offchain, id, result)
  /\ UNCHANGED <<settings, count, standard, fast, voted, ballots, scheduled, govNow>>

-----------------------------------------------------------------------------
(* Execution, by anyone                                                    *)

(* With a quorum of 0 and no votes the division traps.                     *)
Won(for, against, threshold) ==
  /\ for + against >= Quorum
  /\ for + against # 0
  /\ (for * 10000) \div (for + against) >= threshold

(* Nothing asks whether an on-chain vote is over.  The upgrade won is      *)
(* recorded by the library all contracts share (UpgradeTimelock), in the   *)
(* caller's own storage: governance has no entry point that executes it.   *)
ExecuteProposal(id) ==
  LET p == standard[id]
      tally == IF p.mode = "OnChain" THEN <<p.for, p.against>> ELSE offchain[id]
  IN /\ p.status = "Active"
     /\ p.mode = "OffChain" => id \in DOMAIN offchain
     /\ Won(tally[1], tally[2], ThresholdBps)
     /\ target = p.hash
     /\ standard' = [standard EXCEPT ![id].status = "Executed"]
     /\ scheduled' = Append(scheduled, id)
     /\ UNCHANGED <<settings, count, fast, voted, offchain, ballots, govNow>>

ExecuteFastTrackProposal(id) ==
  /\ fast[id].status = "Active"
  /\ govNow >= fast[id].created + track.timelock
  /\ Won(fast[id].for, fast[id].against, track.threshold)
  /\ target = fast[id].hash
  /\ fast' = [fast EXCEPT ![id].status = "Executed"]
  /\ scheduled' = Append(scheduled, id)
  /\ UNCHANGED <<settings, count, standard, voted, offchain, ballots, govNow>>

PublishFastTrackDisclosure(id) ==
  /\ fast' = [fast EXCEPT ![id].disclosed = TRUE]
  /\ UNCHANGED <<settings, count, standard, voted, offchain, ballots, scheduled, govNow>>

Tick == govNow < GovMaxTime /\ govNow' = govNow + 1 /\ UNCHANGED state

Next ==
  \/ Setting
  \/ \E a \in Address : CreateProposal(a)
  \/ \E a \in Address, size \in Sizes : CreateFastTrackProposal(a, size)
  \/ \E id \in DOMAIN standard :
       \/ \E a \in Address, b \in BOOLEAN : Vote(a, id, b)
       \/ DesignateOffchainVoting(id)
       \/ \E r \in Results : AnchorOffchainResult(id, r)
       \/ ExecuteProposal(id)
  \/ \E id \in DOMAIN fast :
       \/ \E a \in Address, b \in BOOLEAN : VoteFastTrack(a, id, b)
       \/ ExecuteFastTrackProposal(id)
       \/ PublishFastTrackDisclosure(id)
  \/ Tick

Spec == Init /\ [][Next]_vars

-----------------------------------------------------------------------------
(* What could be wrong                                                     *)

SupportFor(id, isFast, support) ==
  SumOver([b \in ballots |-> b.weight], {b \in ballots : b.id = id /\ b.fast = isFast /\ b.support = support})

(* Standard and fast-track proposals never meet in an id, so that having   *)
(* voted on one keeps nobody from voting on another: every Voted key goes  *)
(* with one ballot on the only proposal of that id.                        *)
VotedOnceOnOne ==
  /\ DOMAIN standard \cap DOMAIN fast = {}
  /\ \A v \in voted : Cardinality({b \in ballots : b.id = v[1] /\ b.voter = v[2]}) = 1
  /\ \A b \in ballots : IF b.fast THEN b.id \in DOMAIN fast ELSE b.id \in DOMAIN standard

Carried ==
  {id \in DOMAIN standard : standard[id].status = "Executed"}
    \cup {id \in DOMAIN fast : fast[id].status = "Executed"}

(* Every proposal executed, standard or fast-track, has handed its upgrade *)
(* to the timelock exactly once, however often execution is called again.  *)
ScheduledOnce ==
  /\ {scheduled[i] : i \in DOMAIN scheduled} = Carried
  /\ \A i, j \in DOMAIN scheduled : scheduled[i] = scheduled[j] => i = j

(* What was executed had won by ballots cast once each, and still has: no  *)
(* later vote, change of stake or late result turns an executed proposal   *)
(* into one that lost.  Off-chain proposals are decided by a result alone, *)
(* after the end of their voting period.                                   *)
ExecutedStaysWon ==
  /\ VotedOnceOnOne
  /\ ScheduledOnce
  /\ \A id \in DOMAIN standard : standard[id].status = "Executed" =>
       IF standard[id].mode = "OnChain"
       THEN Won(SupportFor(id, FALSE, TRUE), SupportFor(id, FALSE, FALSE), ThresholdBps)
       ELSE /\ SupportFor(id, FALSE, TRUE) + SupportFor(id, FALSE, FALSE) = 0
            /\ Won(offchain[id][1], offchain[id][2], ThresholdBps)
            /\ govNow >= standard[id].end
  /\ \A id \in DOMAIN fast : fast[id].status = "Executed" =>
       SupportFor(id, TRUE, TRUE) + SupportFor(id, TRUE, FALSE) >= Quorum
=============================================================================
