------------------------------- MODULE MCTreasury -------------------------------
(***************************************************************************)
(* Instances of Treasury for TLC, one focus per behaviour: the ways money  *)
(* comes in and goes out, the withdrawal caps over time, the signers'      *)
(* proposals, grants, or the admin's settings.                             *)
(***************************************************************************)
EXTENDS Treasury

CONSTANTS a1, a2, t1

VARIABLE focus

MCConfigs == {[signers |-> {a1, a2}, threshold |-> 2], [signers |-> {a2}, threshold |-> 1]}
GrantActions ==
  {[type |-> "ReviewGrant", grant |-> 1], [type |-> "ReleaseGrantMilestone", grant |-> 1],
   [type |-> "ReclaimGrant", grant |-> 1]}
MCActions == GrantActions \union
  {[type |-> "Withdraw", token |-> t1, to |-> a1, amount |-> 3],
   [type |-> "SetFeeBps", bps |-> 5000], [type |-> "ProposeUpgrade"],
   [type |-> "SetTimelockDelay", delay |-> 3], [type |-> "SetTimelockDelay", delay |-> 1],
   [type |-> "SetParameterRegistry", ratio |-> 5000],
   [type |-> "SetTokenDecimals", token |-> t1, decimals |-> 18]}
MCSplits ==
  {[shares |-> <<[to |-> a1, bps |-> 5000], [to |-> a2, bps |-> 5000]>>, primary |-> a1],
   [shares |-> <<[to |-> a1, bps |-> 5000]>>, primary |-> a1]}
MCMilestones == {<<1, 2>>}

(* Every way in and out, with the payees known.                            *)
Money ==
  \/ (\E n \in Amounts : PayFee(t1, n)) \/ CollectFee(t1, 3) \/ Donate(t1, 3) \/ Withdrawing \/ Returning \/ Sweeping
  \/ SetReserveAllocationBps(admin, 5000)
  \/ ProposeDistribution(admin, {a1, a2}, 5000) \/ ExecuteDistribution(admin)
  \/ \E a \in Address : ClaimShare(a, t1)

(* Withdrawals under caps that come and go.                                *)
Limits == PayFee(t1, 3) \/ Withdrawing \/ Capping

(* Proposals while the signer set changes.                                 *)
Quorum ==
  \/ Proposing /\ Len(proposals') <= 2 /\ \A id \in DOMAIN proposals' :
       /\ id = 1 => proposals'[id].action.type \in {"Withdraw", "SetTimelockDelay"}
       /\ proposals'[id].action \notin GrantActions
  \/ Withdraw(admin, t1, a1, 3)
  \/ PayFee(t1, 3) /\ received = 0
  \/ \E c \in Configs : Reconfigure(c)
  \/ SetFeeBps(admin, 0)
  \/ /\ proposals = <<>> /\ received = 0 /\ upgrade = -1 /\ account[t1].decimals = -1
     /\ SetTokenDecimals(admin, t1, 7) \/ ProposeUpgrade(admin)

(* One grant, handled by a single signer.                                  *)
Grants ==
  \/ Granting
  \/ \E act \in GrantActions :
       /\ ProposeTreasuryAction(a2, act)
       /\ Cardinality({id \in DOMAIN proposals : ~proposals[id].executed}) < 2
  \/ \E id \in DOMAIN proposals : ExecuteTreasuryAction(a2, id)
  \/ SetParameterRegistry(admin, 5000)
  \/ SetReserveAllocationBps(admin, 5000) \/ PayFee(t1, 3)

(* The admin's keys, one marketplace and one caller of the reserve.        *)
Settings ==
  /\ Setting \/ Tick
  /\ reserveCallers' \subseteq {a2} /\ marketplace' # a1 /\ now' <= 1
  /\ ratio' = -1 /\ feeBps' # 0 /\ reserveBps' = 0

(* Every focus but the settings begins with the same calls of the admin.   *)
Ready ==
  /\ account[t1].listed /\ a1 \in allowed
  /\ focus = "money" => marketplace = a2 /\ a2 \in reserveCallers
  /\ focus = "grants" => config # NoConfig
Setup ==
  \/ WhitelistToken(admin, t1) /\ ~account[t1].listed
  \/ account[t1].listed /\ recipientAt[a1] = -1 /\ a1 \notin allowed /\ ProposeRecipient(admin, a1)
  \/ Tick \/ ExecuteRecipient(admin, a1)
  \/ a1 \in allowed /\ focus = "money" /\ (SetMarketplace(admin, a2) \/ SetReserveCaller(admin, a2, TRUE))
  \/ a1 \in allowed /\ focus = "grants" /\ Reconfigure([signers |-> {a2}, threshold |-> 1])

MCInit == focus \in {"money", "caps", "quorum", "grants", "settings"} /\ Init
MCNext ==
  /\ \/ focus = "settings" /\ Settings
     \/ focus # "settings" /\ ~Ready /\ Setup
     \/ focus = "money" /\ Ready /\ Money
     \/ focus = "caps" /\ Ready /\ (Limits \/ Tick)
     \/ focus = "quorum" /\ Ready /\ (Quorum \/ Tick)
     \/ focus = "grants" /\ Ready /\ (Grants \/ Tick)
  /\ UNCHANGED focus
MCSpec == MCInit /\ [][MCNext]_<<vars, focus>>
===============================================================================
