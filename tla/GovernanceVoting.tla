---------------------------- MODULE GovernanceVoting ----------------------------
(***************************************************************************)
(* contracts/governance_voting: weighted and quadratic votes on proposals, *)
(* and delegation of voting weight.  A vesting contract decides the        *)
(* weights once it is set, and any of several may be set, again and again: *)
(* granted holds the grants of each, which its admin makes and revokes     *)
(* while votes run, and VestingSchedule says what has vested of them.      *)
(***************************************************************************)
EXTENDS Sums, FiniteSets, Sequences, SequencesExt, VestingSchedule

CONSTANTS
  Address, Nobody,
  Weights,         \* voting weights the admin sets
  Credits,         \* voice credits voters spend
  Quorums,         \* quorum_required, of any sign
  Durations, DefaultDuration,
  Vestings,        \* vesting contracts
  Schedules,       \* [total, start, cliff, duration] of their grants
  MaxProposals, MaxTime \* bounds

VARIABLES
  weight,      \* VotingWeight
  vesting,     \* Vesting; Nobody where absent
  granted,     \* Grant(beneficiary) of each vesting contract
  delegation,  \* Delegation; Nobody where absent
  delegatedBy, \* DelegatedBy, the reverse index
  proposals,   \* Proposal(id) at position id + 1
  records,     \* VoteRecord(id, voter); NoVote where absent
  opening,     \* history: per proposal the vesting contract, its grants and the weights when it was created
  now

state == <<weight, vesting, granted, delegation, delegatedBy, proposals, records, opening>>
vars  == <<state, now>>
weightVars   == <<weight, vesting, granted>>
delegateVars == <<delegation, delegatedBy>>
pollVars     == <<proposals, records, opening>>

VoteChoice == {"For", "Against", "Abstain"}
NoVote  == [choice |-> "none", weight |-> 0, credits |-> 0]

Init ==
  /\ weight = [a \in Address |-> 0]
  /\ vesting = Nobody
  /\ granted = [v \in Vestings |-> [a \in Address |-> NoGrant]]
  /\ delegation = [a \in Address |-> Nobody]
  /\ delegatedBy = [a \in Address |-> <<>>]
  /\ proposals = <<>>
  /\ records = <<>> /\ opening = <<>>
  /\ now = 0

-----------------------------------------------------------------------------
(* Weights and delegation                                                  *)

SetVotingWeight(a, w) ==
  /\ w >= 0
  /\ weight' = [weight EXCEPT ![a] = w]
  /\ UNCHANGED <<vesting, granted, delegateVars, pollVars, now>>

SetVestingContract(v) ==
  /\ vesting' = v
  /\ UNCHANGED <<weight, granted, delegateVars, pollVars, now>>

(* By the admin of a vesting contract.                                     *)
CreateGrant(v, a, s) ==
  /\ Schedulable(s)
  /\ granted[v][a] = NoGrant
  /\ granted' = [granted EXCEPT ![v][a] = NewGrant(s)]
  /\ UNCHANGED <<weight, vesting, delegateVars, pollVars, now>>

RevokeGrant(v, a) ==
  /\ Revocable(granted[v][a])
  /\ granted' = [granted EXCEPT ![v][a] = Revoked(@, now)]
  /\ UNCHANGED <<weight, vesting, delegateVars, pollVars, now>>

BaseWeight(a) == IF vesting = Nobody THEN weight[a] ELSE VestedBalanceAt(granted[vesting][a], now)

(* Mutant: the weight is always today's.                                   *)
WeightNow(a, at) == BaseWeight(a)

(* Without a vesting contract there is no snapshot: the weight is today's. *)
BaseWeightAtSnapshot(a, at) == IF vesting = Nobody THEN weight[a] ELSE VestedBalanceAt(granted[vesting][a], at)

DelegatedWeight(a) == FoldLeft(LAMBDA sum, d : sum + BaseWeight(d), 0, delegatedBy[a])

(* What get_voting_weight answers; vote does not ask it.                   *)
VotingWeight(a) == BaseWeight(a) + DelegatedWeight(a)

AddToDelegatedByIndex(index, to, from) ==
  IF from \in ToSet(index[to]) THEN index ELSE [index EXCEPT ![to] = Append(@, from)]

(* The loop that copies the entries of another delegator.                  *)
Without(delegators, from) ==
  LET Kept[i \in 0..Len(delegators)] ==
        IF i = 0 THEN <<>>
        ELSE IF delegators[i] = from THEN Kept[i - 1] ELSE Append(Kept[i - 1], delegators[i])
  IN Kept[Len(delegators)]

RemoveFromDelegatedByIndex(index, to, from) == [index EXCEPT ![to] = Without(@, from)]

(* The index without the delegator's former entry.                         *)
Undelegated(from) ==
  IF delegation[from] = Nobody THEN delegatedBy
  ELSE RemoveFromDelegatedByIndex(delegatedBy, delegation[from], from)

Delegate(from, to) ==
  /\ from # to
  /\ delegation[to] # from
  /\ delegation' = [delegation EXCEPT ![from] = to]
  /\ delegatedBy' = AddToDelegatedByIndex(Undelegated(from), to, from)
  /\ UNCHANGED <<weightVars, pollVars, now>>

RevokeDelegation(from) ==
  /\ delegation[from] # Nobody
  /\ delegation' = [delegation EXCEPT ![from] = Nobody]
  /\ delegatedBy' = Undelegated(from)
  /\ UNCHANGED <<weightVars, pollVars, now>>

-----------------------------------------------------------------------------
(* Proposals and votes                                                     *)

CreateProposal(type, mode, quorum, duration) ==
  /\ ~(type = "Financial" /\ mode = "Quadratic")
  /\ Len(proposals) < MaxProposals
  /\ proposals' = Append(proposals,
       [type |-> type, mode |-> mode, quorum |-> quorum, executed |-> FALSE, createdAt |-> now,
        expiresAt |-> now + (IF duration > 0 THEN duration ELSE DefaultDuration),
        tally |-> [c \in VoteChoice |-> 0]])
  /\ records' = Append(records, [a \in Address |-> NoVote])
  /\ opening' = Append(opening,
       [contract |-> vesting, weights |-> [a \in Address |-> BaseWeight(a)],
        grants |-> [a \in Address |-> IF vesting = Nobody THEN NoGrant ELSE granted[vesting][a]]])
  /\ UNCHANGED <<weightVars, delegateVars, now>>

(* A turn of integer_sqrt's loop, a binary search for the largest root; a  *)
(* root that is exact ends it.                                             *)
Narrowed(n, s) ==
  LET mid == s.low + (s.high - s.low) \div 2
  IN CASE s.low > s.high -> s
       [] s.low <= s.high /\ mid * mid = n -> [low |-> mid + 1, high |-> mid, result |-> mid]
       [] s.low <= s.high /\ mid * mid < n -> [low |-> mid + 1, high |-> s.high, result |-> mid]
       [] s.low <= s.high /\ mid * mid > n -> [low |-> s.low, high |-> mid - 1, result |-> s.result]

(* The interval is empty after n turns, if not before.                     *)
IntegerSqrt(n) ==
  LET Search[turn \in 0..n] ==
        IF turn = 0 THEN [low |-> 1, high |-> n, result |-> 1] ELSE Narrowed(n, Search[turn - 1])
  IN IF n < 0 THEN 0 ELSE IF n \in {0, 1} THEN n ELSE Search[n].result

Ballot(mode, base, choice, credits) ==
  [choice |-> choice,
   weight |-> IF mode = "Standard" THEN base ELSE IntegerSqrt(credits),
   credits |-> IF mode = "Standard" THEN 0 ELSE credits]

(* Mutant: the credits are counted, not their root.                        *)
CreditsTallied(p, ballot) ==
  [p EXCEPT !.tally[ballot.choice] = @ + (IF p.mode = "Quadratic" THEN ballot.credits ELSE ballot.weight)]

Tallied(p, ballot) == [p EXCEPT !.tally[ballot.choice] = @ + ballot.weight]

Ongoing(p) == now <= p.expiresAt /\ ~p.executed

Vote(voter, id, choice, credits) ==
  LET p == proposals[id]
      base == BaseWeightAtSnapshot(voter, p.createdAt)
      ballot == Ballot(p.mode, base, choice, credits)
  IN /\ Ongoing(p)
     /\ records[id][voter] = NoVote
     /\ base > 0
     /\ p.mode = "Quadratic" => credits > 0 /\ credits <= base
     /\ records' = [records EXCEPT ![id][voter] = ballot]
     /\ proposals' = [proposals EXCEPT ![id] = Tallied(p, ballot)]
     /\ UNCHANGED <<weightVars, delegateVars, opening, now>>

TotalVotes(p) == SumOver(p.tally, VoteChoice)

(* By the admin; neither the end of voting nor a majority is asked for.    *)
ExecuteProposal(id) ==
  /\ Ongoing(proposals[id])
  /\ TotalVotes(proposals[id]) >= proposals[id].quorum
  /\ proposals' = [proposals EXCEPT ![id].executed = TRUE]
  /\ UNCHANGED <<weightVars, delegateVars, records, opening, now>>

Tick == now < MaxTime /\ now' = now + 1 /\ UNCHANGED state

Next ==
  \/ \E a \in Address, w \in Weights : SetVotingWeight(a, w)
  \/ \E v \in Vestings :
       \/ SetVestingContract(v)
       \/ \E a \in Address : RevokeGrant(v, a) \/ \E s \in Schedules : CreateGrant(v, a, s)
  \/ \E a, b \in Address : Delegate(a, b)
  \/ \E a \in Address : RevokeDelegation(a)
  \/ \E type \in {"Sentiment", "Financial"}, mode \in {"Standard", "Quadratic"}, q \in Quorums, d \in Durations :
       CreateProposal(type, mode, q, d)
  \/ \E a \in Address, id \in DOMAIN proposals, c \in VoteChoice, n \in Credits : Vote(a, id, c, n)
  \/ \E id \in DOMAIN proposals : ExecuteProposal(id)
  \/ Tick

Spec == Init /\ [][Next]_vars

-----------------------------------------------------------------------------
(* What could be wrong                                                     *)

(* Every tally is the sum of the vote records of that choice: vote keeps   *)
(* the two apart, and a quadratic vote counts its root, not its credits.   *)
TalliesAreVotes ==
  \A id \in DOMAIN proposals, c \in VoteChoice :
    proposals[id].tally[c] =
      SumOver([a \in Address |-> records[id][a].weight], {a \in Address : records[id][a].choice = c})

(* delegate and revoke_delegation keep DelegatedBy the exact reverse of    *)
(* Delegation, without duplicates, whatever the order of re-delegations;   *)
(* so nobody's weight is delegated twice, or back and forth between two.   *)
DelegationMirrored ==
  /\ \A a, b \in Address : delegation[a] = b <=> a \in ToSet(delegatedBy[b])
  /\ \A a \in Address : Cardinality(ToSet(delegatedBy[a])) = Len(delegatedBy[a])
  /\ \A a, b \in Address : ~(delegation[a] = b /\ delegation[b] = a)

(* integer_sqrt gives a quadratic vote the whole root of its credits.      *)
QuadraticRoot ==
  \A id \in DOMAIN records : \A a \in Address :
    LET r == records[id][a]
    IN proposals[id].mode = "Quadratic" /\ r # NoVote =>
         r.weight * r.weight <= r.credits /\ r.credits < (r.weight + 1) * (r.weight + 1)

(* Votes and the weight delegated to a voter are counted once.             *)
VotesCounted == TalliesAreVotes /\ QuadraticRoot /\ DelegationMirrored

(* Under a vesting contract a vote weighs no more than what has vested by  *)
(* the time it is cast, whatever was granted, revoked or set in between;   *)
(* and while contract and grant are those of the proposal's creation, no   *)
(* more than what had vested then, however late it is cast (vote,          *)
(* get_base_weight_at_snapshot).  A revocation, a grant with an early      *)
(* start or another contract may add to it, against vesting lib.rs:420.    *)
SnapshotHoldsStep ==
  \A id \in DOMAIN records : \A a \in Address :
    LET vote == records'[id][a]   was == opening[id]
    IN vesting # Nobody /\ vote # records[id][a] =>
         /\ vote.weight <= BaseWeight(a)
         /\ vesting = was.contract /\ granted[vesting][a] = was.grants[a] => vote.weight <= was.weights[a]
SnapshotHolds == [][SnapshotHoldsStep]_vars

=============================================================================
