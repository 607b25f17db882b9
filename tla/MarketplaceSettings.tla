--------------------------- MODULE MarketplaceSettings ---------------------------
(***************************************************************************)
(* contracts/marketplace, its governance: fees, the token whitelist, the   *)
(* code and the addresses of the other contracts are changed by the admin, *)
(* some only after a delay, some only by a quorum of access_control's      *)
(* signers once that is larger than one.  Marketplace takes the settings   *)
(* as given; here is how they come about.                                  *)
(***************************************************************************)
EXTENDS Integers, FiniteSets, Sequences

CONSTANTS
  Address, Nobody,
  Tokens, Fields,      \* DependencyField
  Contracts,           \* addresses a dependency may point to
  Rates, Tiers,        \* basis points asked for, ordinals of risk tiers
  SignerSets,          \* [signers, threshold] access_control may report
  MktDelay,            \* UPGRADE_TIMELOCK_DELAY
  MaxActs, MktMaxTime  \* bounds

VARIABLES
  rates,      \* Config.fee_bps, Config.referrer_split_bps, TierFeeBps(ordinal)
  tokens,     \* WhitelistedToken, WhitelistedTokenList, TokenWhitelistProposal, TokenCurrency
  codeAt,     \* when UpgradeProposal was made; -1 where absent
  wiring,     \* the address of each dependency, and its DependencyUpdateProposal
  acts,       \* AdminProposal(id), in order
  reported,   \* what the access_control of initialize reports
  accepts,    \* whether parameter_registry takes set_parameter
  mktNow      \* ledger time

settingVars == <<rates, tokens, codeAt, wiring>>
outside     == <<reported, accepts, mktNow>>
vars        == <<settingVars, acts, outside>>

NoSigners == [signers |-> {}, threshold |-> 0]

Actions ==
  [type : {"SetFeeBps", "SetReferrerSplitBps"}, bps : Rates]
  \cup [type : {"SetTierFeeBps"}, tier : Tiers, bps : Rates]
  \cup [type : {"WhitelistToken", "RemoveTokenWhitelist"}, token : Tokens]
  \cup [type : {"ProposeUpgrade", "ExecuteUpgrade"}]

Init ==
  /\ rates = [fee |-> 50, split |-> 0, tier |-> [n \in Tiers |-> -1]]
  /\ tokens = [usable |-> {}, list |-> {}, at |-> [t \in Tokens |-> -1], priced |-> {}]
  /\ codeAt = -1
  /\ wiring = [f \in Fields |-> [to |-> IF f = "DebtorAttestation" THEN Nobody ELSE CHOOSE c \in Contracts : TRUE,
                                 next |-> Nobody, at |-> -1]]
  /\ acts = <<>>
  /\ reported = NoSigners /\ accepts = TRUE /\ mktNow = 0

-----------------------------------------------------------------------------
(* What a privileged action does, whichever way it was authorised.  The    *)
(* two rates parameter_registry also keeps change only if it takes them.   *)

ApplySetFeeBps(bps) ==
  /\ bps <= 10000 /\ accepts
  /\ rates' = [rates EXCEPT !.fee = bps]
  /\ UNCHANGED <<tokens, codeAt>>

ApplySetReferrerSplitBps(bps) ==
  /\ bps <= 10000 /\ accepts
  /\ rates' = [rates EXCEPT !.split = bps]
  /\ UNCHANGED <<tokens, codeAt>>

ApplySetTierFeeBps(n, bps) ==
  /\ bps <= 10000
  /\ rates' = [rates EXCEPT !.tier[n] = bps]
  /\ UNCHANGED <<tokens, codeAt>>

(* The enumerable list is left as it is, and so is a pending proposal.     *)
ApplyWhitelistToken(t) ==
  tokens' = [tokens EXCEPT !.usable = @ \cup {t}] /\ UNCHANGED <<rates, codeAt>>

ApplyRemoveTokenWhitelist(t) ==
  /\ t \in tokens.usable
  /\ tokens' = [tokens EXCEPT !.usable = @ \ {t}]
  /\ UNCHANGED <<rates, codeAt>>

ApplyProposeUpgrade == codeAt' = mktNow /\ UNCHANGED <<rates, tokens>>

ApplyExecuteUpgrade ==
  /\ codeAt # -1 /\ mktNow >= codeAt + MktDelay
  /\ codeAt' = -1
  /\ UNCHANGED <<rates, tokens>>

Enact(act) ==
  /\ \/ act.type = "SetFeeBps" /\ ApplySetFeeBps(act.bps)
     \/ act.type = "SetReferrerSplitBps" /\ ApplySetReferrerSplitBps(act.bps)
     \/ act.type = "SetTierFeeBps" /\ ApplySetTierFeeBps(act.tier, act.bps)
     \/ act.type = "WhitelistToken" /\ ApplyWhitelistToken(act.token)
     \/ act.type = "RemoveTokenWhitelist" /\ ApplyRemoveTokenWhitelist(act.token)
     \/ act.type = "ProposeUpgrade" /\ ApplyProposeUpgrade
     \/ act.type = "ExecuteUpgrade" /\ ApplyExecuteUpgrade
  /\ UNCHANGED wiring

-----------------------------------------------------------------------------
(* The admin alone                                                         *)

RequireDirectAdminAllowed == reported.threshold <= 1

SetFeeBps(bps) ==
  RequireDirectAdminAllowed /\ ApplySetFeeBps(bps) /\ UNCHANGED <<wiring, acts, outside>>

SetReferrerSplitBps(bps) ==
  RequireDirectAdminAllowed /\ ApplySetReferrerSplitBps(bps) /\ UNCHANGED <<wiring, acts, outside>>

SetTierFeeBps(n, bps) ==
  RequireDirectAdminAllowed /\ ApplySetTierFeeBps(n, bps) /\ UNCHANGED <<wiring, acts, outside>>

ProposeUpgrade ==
  RequireDirectAdminAllowed /\ ApplyProposeUpgrade /\ UNCHANGED <<wiring, acts, outside>>

ExecuteUpgrade ==
  RequireDirectAdminAllowed /\ ApplyExecuteUpgrade /\ UNCHANGED <<wiring, acts, outside>>

ProposeTokenWhitelist(t) ==
  /\ tokens' = [tokens EXCEPT !.at[t] = mktNow]
  /\ UNCHANGED <<rates, codeAt, wiring, acts, outside>>

ExecuteTokenWhitelist(t) ==
  /\ tokens.at[t] # -1 /\ mktNow >= tokens.at[t] + MktDelay
  /\ tokens' = [tokens EXCEPT !.at[t] = -1, !.usable = @ \cup {t}, !.list = @ \cup {t}]
  /\ UNCHANGED <<rates, codeAt, wiring, acts, outside>>

RemoveTokenWhitelist(t) ==
  /\ t \in tokens.usable
  /\ tokens' = [tokens EXCEPT !.usable = @ \ {t}, !.list = @ \ {t}]
  /\ UNCHANGED <<rates, codeAt, wiring, acts, outside>>

SetTokenCurrency(t) ==
  /\ tokens' = [tokens EXCEPT !.priced = @ \cup {t}]
  /\ UNCHANGED <<rates, codeAt, wiring, acts, outside>>

ProposeDependencyUpdate(f, c) ==
  /\ wiring' = [wiring EXCEPT ![f].next = c, ![f].at = mktNow]
  /\ UNCHANGED <<rates, tokens, codeAt, acts, outside>>

(* A new access_control answers for the pause; the signers stay those of   *)
(* the one given to initialize, which has a key of its own.                *)
ExecuteDependencyUpdate(f) ==
  /\ wiring[f].at # -1 /\ mktNow >= wiring[f].at + MktDelay
  /\ wiring[f].to # Nobody
  /\ wiring' = [wiring EXCEPT ![f] = [to |-> wiring[f].next, next |-> Nobody, at |-> -1]]
  /\ UNCHANGED <<rates, tokens, codeAt, acts, outside>>

(* At once and either way; a pending update stays.                         *)
SetDebtorAttestation(c) ==
  /\ wiring' = [wiring EXCEPT !["DebtorAttestation"].to = c]
  /\ UNCHANGED <<rates, tokens, codeAt, acts, outside>>

-----------------------------------------------------------------------------
(* The signers                                                             *)

RequireSigner(a) == reported # NoSigners /\ a \in reported.signers

ProposeAdminAction(a, act) ==
  /\ RequireSigner(a) /\ Len(acts) < MaxActs
  /\ acts' = Append(acts, [action |-> act, approvals |-> {a}, executed |-> FALSE])
  /\ UNCHANGED <<settingVars, outside>>

ApproveAdminAction(a, id) ==
  /\ RequireSigner(a)
  /\ ~acts[id].executed /\ a \notin acts[id].approvals
  /\ acts' = [acts EXCEPT ![id].approvals = @ \cup {a}]
  /\ UNCHANGED <<settingVars, outside>>

(* Approvals of signers who have left since still count.                   *)
ExecuteAdminAction(a, id) ==
  /\ RequireSigner(a)
  /\ ~acts[id].executed /\ Cardinality(acts[id].approvals) >= reported.threshold
  /\ acts' = [acts EXCEPT ![id].executed = TRUE]
  /\ Enact(acts[id].action)
  /\ UNCHANGED outside

-----------------------------------------------------------------------------
(* The other contracts, and time                                           *)

Report(c) == reported' = c /\ UNCHANGED <<settingVars, acts, accepts, mktNow>>
Refuse    == accepts' = ~accepts /\ UNCHANGED <<settingVars, acts, reported, mktNow>>
Tick      == mktNow < MktMaxTime /\ mktNow' = mktNow + 1 /\ UNCHANGED <<settingVars, acts, reported, accepts>>

Signing ==
  \/ \E bps \in Rates : SetFeeBps(bps) \/ SetReferrerSplitBps(bps) \/ \E n \in Tiers : SetTierFeeBps(n, bps)
  \/ ProposeUpgrade \/ ExecuteUpgrade
  \/ \E a \in Address, act \in Actions : ProposeAdminAction(a, act)
  \/ \E a \in Address, id \in DOMAIN acts : ApproveAdminAction(a, id) \/ ExecuteAdminAction(a, id)
  \/ \E c \in SignerSets : Report(c)
  \/ Refuse
Listing ==
  \E t \in Tokens :
    ProposeTokenWhitelist(t) \/ ExecuteTokenWhitelist(t) \/ RemoveTokenWhitelist(t) \/ SetTokenCurrency(t)
Wiring ==
  \/ \E f \in Fields : ExecuteDependencyUpdate(f) \/ \E c \in Contracts : ProposeDependencyUpdate(f, c)
  \/ \E c \in Contracts \cup {Nobody} : SetDebtorAttestation(c)
Next == Signing \/ Listing \/ Wiring \/ Tick

-----------------------------------------------------------------------------
(* Once a quorum larger than one is reported, rates and code change only   *)
(* by a proposal executed in that step with as many approvals; and a token *)
(* becomes usable only that way or at the end of its delay, whichever      *)
(* mixture of direct calls, proposals and removals came before.            *)
SettingsGuardedStep ==
  LET Decided(kinds) ==
        \E id \in DOMAIN acts :
          /\ acts'[id].executed /\ ~acts[id].executed
          /\ acts[id].action.type \in kinds
          /\ Cardinality(acts[id].approvals) >= reported.threshold
  IN /\ reported.threshold > 1 /\ rates' # rates =>
          Decided({"SetFeeBps", "SetReferrerSplitBps", "SetTierFeeBps"})
     /\ reported.threshold > 1 /\ codeAt' # codeAt => Decided({"ProposeUpgrade", "ExecuteUpgrade"})
     /\ \A t \in tokens'.usable \ tokens.usable :
          (tokens.at[t] # -1 /\ mktNow >= tokens.at[t] + MktDelay) \/ Decided({"WhitelistToken"})
=============================================================================
