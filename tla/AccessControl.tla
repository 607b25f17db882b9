----------------------------- MODULE AccessControl -----------------------------
(***************************************************************************)
(* contracts/access_control: who administers the protocol.  One admin acts *)
(* directly until a multisig is configured; from then on the privileged    *)
(* operations need a proposal with enough approvals.  The signer set       *)
(* itself changes by configuration, by recovery and by council elections.  *)
(*                                                                         *)
(* Stored sequences numbered from 1 (proposals, recoveries, elections) are *)
(* TLA+ sequences whose index is the id.  Approvals are sets: the code     *)
(* refuses a second approval of the same address.                          *)
(***************************************************************************)
EXTENDS Integers, FiniteSets, Sequences, SequencesExt

CONSTANTS
  Address,       \* addresses of admins, signers, guardians and others
  Deployer,      \* the admin initialize names
  Nobody,        \* no address
  Configs,       \* [signers, threshold] that may be configured or recovered to
  Actions,       \* admin actions that may be proposed
  Parameters,    \* parameter keys
  Values,        \* valid parameter values
  Terms,         \* [length, grace] that may be configured
  MaxProposals,  \* bound: proposals, and as many of each other kind
  MaxTime,       \* bound: ledger timestamps 0..MaxTime
  Ttl,           \* PROPOSAL_TTL_LEDGERS
  GovDelay,      \* GOVERNANCE_TIMELOCK_DELAY
  RecoveryDelay, \* RECOVERY_TIMELOCK_DELAY
  Cooldown       \* COMMUNITY_PROPOSAL_COOLDOWN

Time == 0..MaxTime

Roles     == {"Admin", "Operator", "Verifier", "Guardian", "None"}
Grantable == {"Operator", "Verifier", "Guardian"}
Rulings   == {"upheld", "rejected"}

(* A stored MultisigConfig, and an AdminAction.                            *)
ConfigRecord == [signers : Seq(Address), threshold : Nat]
ConfigOk(c)  == c \in ConfigRecord /\ c.threshold \in 1..Len(c.signers)
ActionOk(act) ==
  /\ act.type \in {"Pause", "Unpause", "GrantRole", "RevokeRole", "TransferAdmin", "RotateAdmin",
                   "ResolveDispute"}
  /\ act.type \in {"GrantRole", "RevokeRole", "TransferAdmin", "RotateAdmin"} => act.target \in Address
  /\ act.type = "GrantRole" => act.role \in Grantable
  /\ act.type = "ResolveDispute" => act.upheld \in Rulings

ASSUME AddressesOk == Deployer \in Address /\ Nobody \notin Address
ASSUME BoundsOk    == MaxProposals \in Nat /\ MaxTime \in Nat
ASSUME DelaysOk    == Ttl \in Nat /\ GovDelay \in Nat /\ RecoveryDelay \in Nat /\ Cooldown \in Nat
ASSUME ConfigsOk   == Configs \subseteq ConfigRecord
ASSUME ActionsOk   == \A act \in Actions : ActionOk(act)
ASSUME TermsOk     == Terms \subseteq [length : Nat, grace : Nat]

VARIABLES
  admin, role, members, paused, initiator, \* Admin, Role, RoleMembers, Paused, EmergencyPauseInitiator
  config,          \* MultisigConfig; NoConfig where the key is absent
  proposals,       \* Proposal(id)
  pendingRotation, \* PendingAdminRotation; 0 where absent
  disputes,        \* DisputeResolution is set
  ruling,          \* the ruling dispute_resolution received, for one open dispute
  params,          \* ParameterProposal(id)
  parameter,       \* Parameter(key)
  community,       \* CommunityProposal(id), with open FALSE once removed
  lastSubmission,  \* CommunityProposalCooldown(address)
  recoveries,      \* RecoveryProposal(id)
  elections,       \* CouncilElection(id)
  seatElection,    \* CouncilSeatElection(address); 0 where absent
  termStart,       \* CouncilSeatTermStart(address); 0 where absent
  terms,           \* CouncilTermLength and CouncilTermExtensionGracePeriod
  delegatedTo,     \* DelegatedTo(address)
  delegators,      \* Delegators(address)
  upgrade,         \* UpgradeProposal: when it was proposed; -1 where absent
  now

adminVars      == <<admin, role, members, paused, initiator>>
actionVars     == <<proposals, pendingRotation, disputes, ruling>>
paramVars      == <<params, parameter>>
communityVars  == <<community, lastSubmission>>
councilVars    == <<recoveries, elections, seatElection, termStart, terms>>
delegationVars == <<delegatedTo, delegators>>
vars == <<adminVars, config, actionVars, paramVars, communityVars, councilVars,
          delegationVars, upgrade, now>>

-------------------------------------------------------------------------------
NoConfig == [signers |-> <<>>, threshold |-> 0]

Init ==
  /\ admin = Deployer
  /\ role = [a \in Address |-> IF a = Deployer THEN "Admin" ELSE "None"]
  /\ members = [r \in Grantable |-> {}]
  /\ paused = FALSE /\ initiator = Nobody
  /\ config = NoConfig
  /\ proposals = <<>> /\ pendingRotation = 0
  /\ disputes = FALSE /\ ruling = "none"
  /\ params = <<>> /\ parameter = [k \in Parameters |-> -1]
  /\ community = <<>> /\ lastSubmission = [a \in Address |-> 0]
  /\ recoveries = <<>> /\ elections = <<>>
  /\ seatElection = [a \in Address |-> 0] /\ termStart = [a \in Address |-> 0]
  /\ terms = [length |-> 0, grace |-> 259200]
  /\ delegatedTo = [a \in Address |-> Nobody] /\ delegators = [a \in Address |-> {}]
  /\ upgrade = -1
  /\ now = 0

Configured  == config # NoConfig
Signer      == ToSet(config.signers)
IsSigner(a) == Configured /\ a \in Signer

(* require_admin and the DirectCallProhibited check.                       *)
ActsDirectly(a) == a = admin /\ ~Configured

Pending(p) == ~p.executed /\ ~p.cancelled
Live(p)    == Pending(p) /\ now <= p.expires

-------------------------------------------------------------------------------
(* The admin acting alone.                                                 *)

Pause(a) ==
  /\ ActsDirectly(a) /\ ~paused
  /\ paused' = TRUE
  /\ UNCHANGED <<admin, role, members, initiator, config, actionVars, paramVars, communityVars,
                 councilVars, delegationVars, upgrade, now>>

Unpause(a) ==
  /\ ActsDirectly(a) /\ paused
  /\ paused' = FALSE
  /\ UNCHANGED <<admin, role, members, initiator, config, actionVars, paramVars, communityVars,
                 councilVars, delegationVars, upgrade, now>>

EmergencyPauseByGuardian(g) ==
  /\ role[g] = "Guardian" /\ ~paused
  /\ paused' = TRUE /\ initiator' = g
  /\ UNCHANGED <<admin, role, members, config, actionVars, paramVars, communityVars,
                 councilVars, delegationVars, upgrade, now>>

(* Set the role and enter the address in the role's registry.  An earlier  *)
(* role's registry keeps its entry.                                        *)
Granted(st, target, r) ==
  [st EXCEPT !.role    = [st.role EXCEPT ![target] = r],
             !.members = [st.members EXCEPT ![r] = @ \union {target}]]

Revoked(st, target) ==
  LET r == st.role[target]
  IN  [st EXCEPT !.role    = [st.role EXCEPT ![target] = "None"],
                 !.members = IF r \in Grantable THEN [st.members EXCEPT ![r] = @ \ {target}]
                                                ELSE st.members]

TransferTargetOk(st, new, current) == new # current /\ st.role[new] \in {"None", "Admin"}

Handover(st, new, old) ==
  [st EXCEPT !.admin = new, !.role = [st.role EXCEPT ![new] = "Admin", ![old] = "None"]]

(* The part of the state that admin actions change.                        *)
Now == [admin |-> admin, role |-> role, members |-> members, paused |-> paused,
        proposals |-> proposals, pending |-> pendingRotation, ruling |-> ruling, ok |-> TRUE]

Becomes(st) ==
  /\ admin' = st.admin /\ role' = st.role /\ members' = st.members /\ paused' = st.paused
  /\ proposals' = st.proposals /\ pendingRotation' = st.pending /\ ruling' = st.ruling
  /\ UNCHANGED <<initiator, config, disputes, paramVars, communityVars, councilVars,
                 delegationVars, upgrade, now>>

GrantRole(a, target, r) ==
  /\ ActsDirectly(a) /\ target # a
  /\ Becomes(Granted(Now, target, r))

RevokeRole(a, target) ==
  /\ ActsDirectly(a) /\ role[target] \notin {"Admin", "None"}
  /\ Becomes(Revoked(Now, target))

TransferAdmin(a, new) ==
  /\ ActsDirectly(a) /\ TransferTargetOk(Now, new, a)
  /\ Becomes(Handover(Now, new, a))

(* Mutant: the scan stops at the proposal being executed.                  *)
NoOlderLive(st, skip) == \A id \in DOMAIN st.proposals : id < skip => ~Live(st.proposals[id])

(* require_no_other_active_proposals.                                      *)
NoOtherLive(st, skip) == \A id \in DOMAIN st.proposals \ {skip} : ~Live(st.proposals[id])

RotateAdmin(a, new) ==
  /\ ActsDirectly(a) /\ NoOtherLive(Now, 0) /\ TransferTargetOk(Now, new, a)
  /\ Becomes(Handover(Now, new, a))

ConfigureMultisig(a, c) ==
  /\ a = admin /\ c.threshold \in 1..Len(c.signers)
  /\ config' = c
  /\ UNCHANGED <<adminVars, actionVars, paramVars, communityVars, councilVars,
                 delegationVars, upgrade, now>>

SetDisputeResolution(a) ==
  /\ a = admin
  /\ disputes' = TRUE
  /\ UNCHANGED <<adminVars, config, proposals, pendingRotation, ruling, paramVars,
                 communityVars, councilVars, delegationVars, upgrade, now>>

-------------------------------------------------------------------------------
(* Proposed actions.                                                       *)

NewProposal(a, by, proposer) ==
  [action |-> a, proposer |-> proposer, approvals |-> {by}, executed |-> FALSE,
   cancelled |-> FALSE, created |-> now, expires |-> now + Ttl]

IsRotation(p) == p.action.type = "RotateAdmin"

(* supersede_pending_admin_rotation: a live rotation gives way to a new    *)
(* one; a proposal that is sponsored rather than proposed supersedes none. *)
Superseding ==
  IF pendingRotation # 0 /\ Live(proposals[pendingRotation]) /\ IsRotation(proposals[pendingRotation])
    THEN [proposals EXCEPT ![pendingRotation].cancelled = TRUE]
    ELSE proposals

ProposeAction(s, act) ==
  /\ IsSigner(s) /\ Len(proposals) < MaxProposals
  /\ LET rotation == act.type = "RotateAdmin"
     IN  /\ proposals' = Append(IF rotation THEN Superseding ELSE proposals, NewProposal(act, s, s))
         /\ pendingRotation' = IF rotation THEN Len(proposals) + 1 ELSE pendingRotation
  /\ UNCHANGED <<adminVars, config, disputes, ruling, paramVars, communityVars,
                 councilVars, delegationVars, upgrade, now>>

ApproveAction(s, id) ==
  /\ IsSigner(s) /\ id \in DOMAIN proposals
  /\ Live(proposals[id]) /\ s \notin proposals[id].approvals
  /\ proposals' = [proposals EXCEPT ![id].approvals = @ \union {s}]
  /\ UNCHANGED <<adminVars, config, pendingRotation, disputes, ruling, paramVars,
                 communityVars, councilVars, delegationVars, upgrade, now>>

(* Mutant: approvals of former signers count.                              *)
EnoughRecorded(id) == Cardinality(proposals[id].approvals) >= config.threshold

(* Only approvals of current signers count.                                *)
EnoughApprovals(id) == Cardinality(proposals[id].approvals \intersect Signer) >= config.threshold

RotationDue(p) ==
  /\ p.created + GovDelay <= p.expires
  /\ p.created + GovDelay <= now /\ now <= p.expires

Executable(s, id) ==
  /\ IsSigner(s) /\ id \in DOMAIN proposals
  /\ Live(proposals[id]) /\ EnoughApprovals(id)

ExecuteAdminRotation(st, id) ==
  LET p == st.proposals[id] new == p.action.target
  IN  [Handover(st, new, st.admin) EXCEPT
         !.ok = /\ @ /\ RotationDue(p) /\ ~st.paused
                /\ TransferTargetOk(st, new, st.admin) /\ NoOtherLive(st, id),
         !.pending = IF @ = id THEN 0 ELSE @]

(* The match on the action.  A call is refused as a whole when one of its  *)
(* actions is; current is the admin read before the first action.          *)
Apply(st, id, current) ==
  LET p    == st.proposals[id]
      done == [st EXCEPT !.proposals[id].executed = TRUE]
      act  == p.action
  IN  CASE act.type = "Pause"   -> [done EXCEPT !.paused = TRUE]
        [] act.type = "Unpause" -> [done EXCEPT !.paused = FALSE]
        [] act.type = "GrantRole" ->
             [Granted(done, act.target, act.role) EXCEPT !.ok = @ /\ act.target # current]
        [] act.type = "RevokeRole" -> Revoked(done, act.target)
        [] act.type = "TransferAdmin" ->
             [done EXCEPT !.ok = @ /\ TransferTargetOk(st, act.target, current),
                          !.admin = act.target, !.role = [st.role EXCEPT ![act.target] = "Admin"]]
        [] act.type = "RotateAdmin" -> ExecuteAdminRotation(done, id)
        [] act.type = "ResolveDispute" ->
             IF disputes THEN [done EXCEPT !.ok = @ /\ st.ruling = "none", !.ruling = act.upheld]
                         ELSE done

ExecuteAction(s, id) ==
  /\ Executable(s, id)
  /\ LET after == Apply(Now, id, admin) IN after.ok /\ Becomes(after)

CancelAction(s, id) ==
  /\ IsSigner(s) /\ id \in DOMAIN proposals /\ Pending(proposals[id])
  /\ proposals[id].proposer = s \/ Cardinality(proposals[id].approvals) >= config.threshold
  /\ proposals' = [proposals EXCEPT ![id].cancelled = TRUE]
  /\ UNCHANGED <<adminVars, config, pendingRotation, disputes, ruling, paramVars,
                 communityVars, councilVars, delegationVars, upgrade, now>>

(* require_no_conflict: two changes of the admin, or two of one target.    *)
Conflict(p, q) ==
  \/ {p.action.type, q.action.type} \subseteq {"TransferAdmin", "RotateAdmin"}
  \/ /\ {p.action.type, q.action.type} \subseteq {"GrantRole", "RevokeRole"}
     /\ p.action.target = q.action.target

(* execute_batch, on a batch of two.                                       *)
ExecuteBatch(s, ids) ==
  /\ \A i \in DOMAIN ids :
       /\ Executable(s, ids[i])
       /\ IsRotation(proposals[ids[i]]) => RotationDue(proposals[ids[i]])
       /\ \A j \in 1..(i - 1) : ~Conflict(proposals[ids[i]], proposals[ids[j]])
  /\ LET after == Apply(Apply(Now, ids[1], admin), ids[2], admin)
     IN  after.ok /\ Becomes(after)

-------------------------------------------------------------------------------
(* Parameters.                                                             *)

ProposeParameterChange(s, k, v) ==
  /\ IsSigner(s) /\ Len(params) < MaxProposals
  /\ params' = Append(params, NewProposal([type |-> "Parameter", key |-> k, value |-> v], s, s))
  /\ UNCHANGED <<adminVars, config, actionVars, parameter, communityVars, councilVars,
                 delegationVars, upgrade, now>>

(* Unlike admin actions, parameter changes do not expire in the code.      *)
VoteParameterChange(s, id) ==
  /\ IsSigner(s) /\ id \in DOMAIN params
  /\ Pending(params[id]) /\ s \notin params[id].approvals
  /\ params' = [params EXCEPT ![id].approvals = @ \union {s}]
  /\ UNCHANGED <<adminVars, config, actionVars, parameter, communityVars, councilVars,
                 delegationVars, upgrade, now>>

ExecuteParameterChange(s, id) ==
  /\ IsSigner(s) /\ id \in DOMAIN params /\ Pending(params[id])
  /\ Cardinality(params[id].approvals) >= config.threshold
  /\ now >= params[id].created + GovDelay
  /\ params' = [params EXCEPT ![id].executed = TRUE]
  /\ parameter' = [parameter EXCEPT ![params[id].action.key] = params[id].action.value]
  /\ UNCHANGED <<adminVars, config, actionVars, communityVars, councilVars, delegationVars,
                 upgrade, now>>

CancelParameterChange(s, id) ==
  /\ IsSigner(s) /\ id \in DOMAIN params /\ Pending(params[id])
  /\ params[id].proposer = s \/ Cardinality(params[id].approvals) >= config.threshold
  /\ params' = [params EXCEPT ![id].cancelled = TRUE]
  /\ UNCHANGED <<adminVars, config, actionVars, parameter, communityVars, councilVars,
                 delegationVars, upgrade, now>>

-------------------------------------------------------------------------------
(* Proposals of addresses that are no signers.                             *)

SubmitCommunityProposal(a, act) ==
  /\ now >= lastSubmission[a] + Cooldown /\ Len(community) < MaxProposals
  /\ community' = Append(community, [submitter |-> a, action |-> act, expires |-> now + Ttl,
                                     open |-> TRUE])
  /\ lastSubmission' = [lastSubmission EXCEPT ![a] = now]
  /\ UNCHANGED <<adminVars, config, actionVars, paramVars, councilVars, delegationVars,
                 upgrade, now>>

SponsorCommunityProposal(s, id) ==
  /\ IsSigner(s) /\ id \in DOMAIN community /\ community[id].open
  /\ now <= community[id].expires /\ Len(proposals) < MaxProposals
  /\ proposals' = Append(proposals, NewProposal(community[id].action, s, community[id].submitter))
  /\ community' = [community EXCEPT ![id].open = FALSE]
  /\ UNCHANGED <<adminVars, config, pendingRotation, disputes, ruling, paramVars, lastSubmission,
                 councilVars, delegationVars, upgrade, now>>

-------------------------------------------------------------------------------
(* Changes of the signer set.                                              *)

ProposeSignerRecovery(s, c) ==
  /\ IsSigner(s) /\ c.threshold \in 1..Len(c.signers) /\ Len(recoveries) < MaxProposals
  /\ recoveries' = Append(recoveries, [config |-> c, created |-> now, objections |-> {},
                                       executed |-> FALSE])
  /\ UNCHANGED <<adminVars, config, actionVars, paramVars, communityVars, elections,
                 seatElection, termStart, terms, delegationVars, upgrade, now>>

ObjectSignerRecovery(s, id) ==
  /\ IsSigner(s) /\ id \in DOMAIN recoveries
  /\ ~recoveries[id].executed /\ s \notin recoveries[id].objections
  /\ recoveries' = [recoveries EXCEPT ![id].objections = @ \union {s}]
  /\ UNCHANGED <<adminVars, config, actionVars, paramVars, communityVars, elections,
                 seatElection, termStart, terms, delegationVars, upgrade, now>>

(* Mutant: an objection of somebody who lost the seat is forgotten.        *)
ExecuteSignerRecoveryOver(s, id) ==
  /\ IsSigner(s) /\ id \in DOMAIN recoveries /\ ~recoveries[id].executed
  /\ now >= recoveries[id].created + RecoveryDelay /\ s \notin recoveries[id].objections
  /\ recoveries' = [recoveries EXCEPT ![id].executed = TRUE]
  /\ config' = recoveries[id].config
  /\ UNCHANGED <<adminVars, actionVars, paramVars, communityVars, elections, seatElection,
                 termStart, terms, delegationVars, upgrade, now>>

ExecuteSignerRecovery(s, id) ==
  /\ IsSigner(s) /\ id \in DOMAIN recoveries /\ ~recoveries[id].executed
  /\ now >= recoveries[id].created + RecoveryDelay /\ recoveries[id].objections = {}
  /\ recoveries' = [recoveries EXCEPT ![id].executed = TRUE]
  /\ config' = recoveries[id].config
  /\ UNCHANGED <<adminVars, actionVars, paramVars, communityVars, elections, seatElection,
                 termStart, terms, delegationVars, upgrade, now>>

ConfigureCouncilTerms(a, t) ==
  /\ a = admin /\ t.length > 0
  /\ terms' = t
  /\ UNCHANGED <<adminVars, config, actionVars, paramVars, communityVars, recoveries, elections,
                 seatElection, termStart, delegationVars, upgrade, now>>

InitiateCouncilRotation(s, seat, candidate) ==
  /\ IsSigner(s) /\ IsSigner(seat) /\ Len(elections) < MaxProposals
  /\ elections' = Append(elections, [seat |-> seat, candidate |-> candidate, for |-> 1,
                                     against |-> 0, voters |-> {s}, concluded |-> FALSE,
                                     confirmed |-> FALSE])
  /\ seatElection' = [seatElection EXCEPT ![seat] = Len(elections) + 1]
  /\ UNCHANGED <<adminVars, config, actionVars, paramVars, communityVars, recoveries, termStart,
                 terms, delegationVars, upgrade, now>>

VoteCouncilRotation(s, id, support) ==
  /\ IsSigner(s) /\ id \in DOMAIN elections
  /\ ~elections[id].concluded /\ s \notin elections[id].voters
  /\ elections' = [elections EXCEPT ![id].voters = @ \union {s},
                                    ![id].for = IF support THEN @ + 1 ELSE @,
                                    ![id].against = IF support THEN @ ELSE @ + 1]
  /\ UNCHANGED <<adminVars, config, actionVars, paramVars, communityVars, recoveries,
                 seatElection, termStart, terms, delegationVars, upgrade, now>>

(* Every occurrence of the seat in the signer list is replaced.            *)
Seated(signers, seat, candidate) ==
  [i \in DOMAIN signers |-> IF signers[i] = seat THEN candidate ELSE signers[i]]

(* Anybody concludes an election, at any time: with enough votes the       *)
(* candidate takes the seat, otherwise the term of the seat is extended.   *)
ConcludeCouncilRotation(id) ==
  /\ Configured /\ id \in DOMAIN elections /\ ~elections[id].concluded
  /\ LET e == elections[id]
         confirmed == e.for >= config.threshold
         reseated == Seated(config.signers, e.seat, e.candidate)
         started == IF termStart[e.seat] # 0 THEN termStart[e.seat] ELSE now
     IN  /\ confirmed => config.threshold >= 2 /\ Len(reseated) >= config.threshold
         /\ elections' = [elections EXCEPT ![id].concluded = TRUE, ![id].confirmed = confirmed]
         /\ config' = IF confirmed THEN [config EXCEPT !.signers = reseated] ELSE config
         /\ termStart' = IF confirmed
                           THEN [[termStart EXCEPT ![e.candidate] = now] EXCEPT ![e.seat] = 0]
                           ELSE [termStart EXCEPT ![e.seat] = started + terms.grace]
         /\ seatElection' = [seatElection EXCEPT ![e.seat] = 0]
  /\ UNCHANGED <<adminVars, actionVars, paramVars, communityVars, recoveries, terms,
                 delegationVars, upgrade, now>>

-------------------------------------------------------------------------------
(* Delegation of votes: recorded, and read by no other operation.          *)

DelegateVote(s, d) ==
  /\ IsSigner(s) /\ IsSigner(d) /\ s # d
  /\ delegators' = [a \in Address |-> IF a = d THEN delegators[a] \union {s}
                                      ELSE IF a = delegatedTo[s] THEN delegators[a] \ {s}
                                      ELSE delegators[a]]
  /\ delegatedTo' = [delegatedTo EXCEPT ![s] = d]
  /\ UNCHANGED <<adminVars, config, actionVars, paramVars, communityVars, councilVars, upgrade, now>>

RevokeDelegation(s) ==
  /\ IsSigner(s) /\ delegatedTo[s] # Nobody
  /\ delegators' = [delegators EXCEPT ![delegatedTo[s]] = @ \ {s}]
  /\ delegatedTo' = [delegatedTo EXCEPT ![s] = Nobody]
  /\ UNCHANGED <<adminVars, config, actionVars, paramVars, communityVars, councilVars, upgrade, now>>

ProposeUpgrade(a) ==
  /\ a = admin
  /\ upgrade' = now
  /\ UNCHANGED <<adminVars, config, actionVars, paramVars, communityVars, councilVars,
                 delegationVars, now>>

ExecuteUpgrade(a) ==
  /\ a = admin /\ upgrade # -1 /\ now >= upgrade + GovDelay
  /\ upgrade' = -1
  /\ UNCHANGED <<adminVars, config, actionVars, paramVars, communityVars, councilVars,
                 delegationVars, now>>

Tick ==
  /\ now < MaxTime
  /\ now' = now + 1
  /\ UNCHANGED <<adminVars, config, actionVars, paramVars, communityVars, councilVars,
                 delegationVars, upgrade>>

-------------------------------------------------------------------------------
Alone ==
  \E a \in Address :
    \/ Pause(a) \/ Unpause(a) \/ EmergencyPauseByGuardian(a) \/ SetDisputeResolution(a)
    \/ \E t \in Address : RevokeRole(a, t) \/ TransferAdmin(a, t) \/ RotateAdmin(a, t)
    \/ \E t \in Address, r \in Grantable : GrantRole(a, t, r)
    \/ \E c \in Configs : ConfigureMultisig(a, c)

Proposing ==
  \E s \in Address :
    \/ \E act \in Actions : ProposeAction(s, act)
    \/ \E id \in DOMAIN proposals : ApproveAction(s, id) \/ ExecuteAction(s, id) \/ CancelAction(s, id)
    \/ \E ids \in [1..2 -> DOMAIN proposals] : ExecuteBatch(s, ids)

Parametrizing ==
  \E s \in Address :
    \/ \E k \in Parameters, v \in Values : ProposeParameterChange(s, k, v)
    \/ \E id \in DOMAIN params :
         VoteParameterChange(s, id) \/ ExecuteParameterChange(s, id) \/ CancelParameterChange(s, id)

Sponsoring ==
  \E a \in Address :
    \/ \E act \in Actions : SubmitCommunityProposal(a, act)
    \/ \E id \in DOMAIN community : SponsorCommunityProposal(a, id)

Reseating ==
  \/ \E s \in Address :
       \/ \E c \in Configs : ProposeSignerRecovery(s, c)
       \/ \E id \in DOMAIN recoveries : ObjectSignerRecovery(s, id) \/ ExecuteSignerRecovery(s, id)
       \/ \E t \in Terms : ConfigureCouncilTerms(s, t)
       \/ \E seat, c \in Address : InitiateCouncilRotation(s, seat, c)
       \/ \E id \in DOMAIN elections, yes \in BOOLEAN : VoteCouncilRotation(s, id, yes)
  \/ \E id \in DOMAIN elections : ConcludeCouncilRotation(id)

Delegating == \E s \in Address : RevokeDelegation(s) \/ \E d \in Address : DelegateVote(s, d)

Upgrading == \E a \in Address : ProposeUpgrade(a) \/ ExecuteUpgrade(a)

Next == Alone \/ Proposing \/ Parametrizing \/ Sponsoring \/ Reseating \/ Delegating
        \/ Upgrading \/ Tick

Spec == Init /\ [][Next]_vars

-------------------------------------------------------------------------------
Instants == 0..(MaxTime + Ttl)
ProposalRecord ==
  [action : Actions, proposer : Address, approvals : SUBSET Address, executed : BOOLEAN,
   cancelled : BOOLEAN, created : Time, expires : Instants]
ParameterChange == [type : {"Parameter"}, key : Parameters, value : Values]
ParamRecord ==
  [action : ParameterChange, proposer : Address, approvals : SUBSET Address, executed : BOOLEAN,
   cancelled : BOOLEAN, created : Time, expires : Instants]
CommunityRecord == [submitter : Address, action : Actions, expires : Instants, open : BOOLEAN]
RecoveryRecord ==
  [config : ConfigRecord, created : Time, objections : SUBSET Address, executed : BOOLEAN]
ElectionRecord ==
  [seat : Address, candidate : Address, for : Nat, against : Nat, voters : SUBSET Address,
   concluded : BOOLEAN, confirmed : BOOLEAN]

AdminOk ==
  /\ admin \in Address /\ role \in [Address -> Roles] /\ members \in [Grantable -> SUBSET Address]
  /\ paused \in BOOLEAN /\ initiator \in Address \union {Nobody}
  /\ disputes \in BOOLEAN /\ ruling \in Rulings \union {"none"}
  /\ upgrade \in Time \union {-1} /\ now \in Time
ProposalsOk == proposals \in Seq(ProposalRecord) /\ pendingRotation \in 0..Len(proposals)
ParamsOk    == params \in Seq(ParamRecord) /\ parameter \in [Parameters -> Values \union {-1}]
CommunityOk == community \in Seq(CommunityRecord) /\ lastSubmission \in [Address -> Time]
CouncilOk ==
  /\ recoveries \in Seq(RecoveryRecord) /\ \A id \in DOMAIN recoveries : ConfigOk(recoveries[id].config)
  /\ elections \in Seq(ElectionRecord)
  /\ seatElection \in [Address -> Nat] /\ termStart \in [Address -> Nat]
  /\ terms \in [length : Nat, grace : Nat]
DelegationOk ==
  /\ delegatedTo \in [Address -> Address \union {Nobody}]
  /\ delegators \in [Address -> SUBSET Address]

(* Storage keeps its types, and the threshold fits the signer list.        *)
TypeOK ==
  /\ AdminOk /\ ProposalsOk /\ ParamsOk /\ CommunityOk /\ CouncilOk /\ DelegationOk
  /\ Configured => ConfigOk(config)

(* Once a multisig governs, nobody becomes admin, gains or loses a role,   *)
(* and no pause is lifted, except in a call that executes proposals each   *)
(* approved by a threshold of the signers of that moment: no direct call   *)
(* left open, no approval of a former signer counted (execute_action,      *)
(* execute_batch).                                                         *)
PrivilegeNeedsQuorum ==
  [][Configured /\ (admin' # admin \/ role' # role \/ (paused /\ ~paused')) =>
       \E id \in DOMAIN proposals :
         /\ ~proposals[id].executed /\ proposals'[id].executed
         /\ Cardinality(proposals[id].approvals \intersect Signer) >= config.threshold]_vars

Closed(p) == p.executed \/ p.cancelled

(* An executed or cancelled proposal, parameter change, election or        *)
(* recovery never changes again, whoever retries, votes late or concludes; *)
(* and an objection of any signer, though removed from the set since,      *)
(* stops a recovery for good (execute_signer_recovery).                    *)
ResolvedIsFinal ==
  [][/\ \A id \in DOMAIN proposals : Closed(proposals[id]) => proposals'[id] = proposals[id]
     /\ \A id \in DOMAIN params : Closed(params[id]) => params'[id] = params[id]
     /\ \A id \in DOMAIN elections : elections[id].concluded => elections'[id] = elections[id]
     /\ \A id \in DOMAIN recoveries :
          /\ recoveries[id].executed => recoveries'[id] = recoveries[id]
          /\ recoveries[id].objections # {} => ~recoveries'[id].executed]_vars

(* A rotation of the admin key never overtakes a proposal that was voted   *)
(* for the old admin, also when it is one of a batch                       *)
(* (require_no_other_active_proposals).                                    *)
RotationOvertakesNothing ==
  [][\A id \in DOMAIN proposals :
       IsRotation(proposals[id]) /\ ~proposals[id].executed /\ proposals'[id].executed =>
         \A o \in DOMAIN proposals : Live(proposals[o]) => proposals'[o].executed]_vars

===============================================================================
