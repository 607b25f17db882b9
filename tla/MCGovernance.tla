------------------------------ MODULE MCGovernance ------------------------------
(***************************************************************************)
(* The contracts that decide by votes and time, each by itself: one focus  *)
(* per contract, four for governance_voting, two for the marketplace's    *)
(* settings, and one for the shared timelock.  Their clocks differ only in *)
(* name.                                                                   *)
(***************************************************************************)
EXTENDS Decisions

CONSTANTS a1, a2, a3, h1, v1, v2

VARIABLE focus

MCCredits  == 1..24
MCResults  == {<<3, 1>>, <<0, 3>>, <<-1, 3>>}
MCTrack    == {[enabled |-> TRUE, threshold |-> 6000, timelock |-> 1, maxSize |-> 1]}
MCSigners  == {[signers |-> {a1, a2}, threshold |-> 2], [signers |-> {a2}, threshold |-> 1],
               [signers |-> {}, threshold |-> 0]}
MCQuora    == {[signers |-> {a1, a2}, threshold |-> 2], [signers |-> {a2}, threshold |-> 1]}
MCSchedules == {[total |-> 5, start |-> 1, cliff |-> 1, duration |-> 3],
                [total |-> 3, start |-> 2, cliff |-> 0, duration |-> 2],
                [total |-> 3, start |-> 0, cliff |-> 2, duration |-> 2]}

(* Delegation by itself, among three.                                      *)
Delegating == \E a, b \in {a1, a2, a3} : Voting!Delegate(a, b) \/ Voting!RevokeDelegation(a)

(* Weights and votes of two, on a standard or a quadratic proposal.        *)
Balloting ==
  \/ \E a \in {a1, a2}, w \in {1, 3} : Voting!SetVotingWeight(a, w)
  \/ \E type \in {"Financial", "Sentiment"}, mode \in {"Standard", "Quadratic"}, q \in {0, 3}, d \in {0, 1} :
       proposals = <<>> /\ Voting!CreateProposal(type, mode, q, d)
  \/ \E a \in {a1, a2}, id \in DOMAIN proposals, c \in {"For", "Against", "Abstain"}, n \in {2, 3} :
       Voting!Vote(a, id, c, n)
  \/ \E id \in DOMAIN proposals : Voting!ExecuteProposal(id)
  \/ now < 2 /\ Voting!Tick

(* One voter's grants of two vesting contracts around a proposal.          *)
Weighing ==
  \/ \E v \in Vestings : Voting!SetVestingContract(v)
  \/ Voting!RevokeGrant(v1, a1)
  \/ \E v \in Vestings, s \in Schedules : (v = v2 => s.total = 5) /\ Voting!CreateGrant(v, a1, s)
  \/ \E mode \in {"Standard", "Quadratic"} : proposals = <<>> /\ Voting!CreateProposal("Sentiment", mode, 0, 0)
  \/ \E id \in DOMAIN proposals, n \in {1, 3} : Voting!Vote(a1, id, "For", n)
  \/ Voting!Tick

(* The admin prepares the fast track before there are proposals; later     *)
(* only a1's stake and the target's code change.                           *)
Governing ==
  /\ Gov!Next
  /\ count > 0 => track' = track /\ critical' = critical
  /\ count' > 0 => stake'[a2] = 2
  /\ count = 0 => govNow' = 0 /\ target' = target
  /\ Cardinality(DOMAIN standard') <= 1

(* The contract's own admin is replaced or upgraded before proposals.      *)
Registering ==
  /\ Registry!Next
  /\ changes' # <<>> => regPending' = NoOne /\ regUpgrade' = -1
  /\ regUpgrade' # -1 \/ regPending' # NoOne => signing' = signing /\ params' = params
  /\ signing' # signing => linked
  /\ Len(changes') = 2 => changes'[2].key # changes'[1].key

(* An upgrade is proposed only while the contract has no tokens.           *)
Granting == Vest!Next /\ (vestUpgrade' > -1 => funds' = 0 /\ grants' = grants)

(* One voter, every number of credits.                                     *)
Rooting ==
  \/ Voting!SetVotingWeight(a1, 24) /\ proposals = <<>>
  \/ Voting!CreateProposal("Sentiment", "Quadratic", 3, 1)
  \/ \E n \in 1..24, id \in DOMAIN proposals : Voting!Vote(a1, id, "For", n)
  \/ \E id \in DOMAIN proposals : Voting!ExecuteProposal(id)

(* What signers and admin decide, until the first delay ends.  A second    *)
(* proposal completes or undoes the first.                                 *)
Deciding ==
  /\ Settings!Signing \/ Settings!Tick \/ Settings!ProposeTokenWhitelist("t1")
       \/ Settings!ExecuteTokenWhitelist("t1") \/ Settings!RemoveTokenWhitelist("t1")
  /\ mktNow' <= 1 /\ (acts' # <<>> => accepts')
  /\ Len(acts') = 2 => acts'[2].action.type \in {"RemoveTokenWhitelist", "ExecuteUpgrade"}

(* The addresses and the whitelist over time.                              *)
Rewiring == Settings!Wiring \/ Settings!Listing \/ Settings!Tick

MCInit ==
  /\ focus \in {"delegation", "ballots", "weights", "roots", "gov", "registry", "vest", "deciding", "rewiring", "timelock"}
  /\ DecisionsInit
MCNext ==
  /\ \/ focus = "delegation" /\ Delegating /\ UNCHANGED <<govVars, regVars, vestVars, setVars, lockVars>>
     \/ focus = "ballots" /\ Balloting /\ UNCHANGED <<govVars, regVars, vestVars, setVars, lockVars>>
     \/ focus = "weights" /\ Weighing /\ UNCHANGED <<govVars, regVars, vestVars, setVars, lockVars>>
     \/ focus = "roots" /\ Rooting /\ UNCHANGED <<govVars, regVars, vestVars, setVars, lockVars>>
     \/ focus = "gov" /\ Governing /\ UNCHANGED <<voteVars, regVars, vestVars, setVars, lockVars>>
     \/ focus = "registry" /\ Registering /\ UNCHANGED <<voteVars, govVars, vestVars, setVars, lockVars>>
     \/ focus = "vest" /\ Granting /\ UNCHANGED <<voteVars, govVars, regVars, setVars, lockVars>>
     \/ focus = "deciding" /\ Deciding /\ UNCHANGED <<voteVars, govVars, regVars, vestVars, lockVars>>
     \/ focus = "rewiring" /\ Rewiring /\ UNCHANGED <<voteVars, govVars, regVars, vestVars, lockVars>>
     \/ focus = "timelock" /\ Lock!Next /\ UNCHANGED <<voteVars, govVars, regVars, vestVars, setVars>>
  /\ UNCHANGED focus
MCSpec == MCInit /\ [][MCNext]_<<focus, decisionsVars>>
=============================================================================
