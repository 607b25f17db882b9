---------------------------- MODULE MCAccessControl ----------------------------
(***************************************************************************)
(* Instances of AccessControl for TLC.  The product of all operations is   *)
(* too large, so each behaviour has a focus, fixed by its initial state:   *)
(* admin actions, proposed and direct; or the signer set, parameters and   *)
(* delegation under a multisig that has been configured.                   *)
(***************************************************************************)
EXTENDS AccessControl

CONSTANTS a1, a2, a3

VARIABLE focus

ThreeSigners == [signers |-> <<a1, a2, a3>>, threshold |-> 2]
TwoSigners   == [signers |-> <<a2, a3>>, threshold |-> 2]
MCConfigs    == {ThreeSigners, TwoSigners}
MCTerms      == {[length |-> 1, grace |-> 1]}
MCActions ==
  {[type |-> "Pause"], [type |-> "Unpause"],
   [type |-> "GrantRole", target |-> a3, role |-> "Operator"],
   [type |-> "RevokeRole", target |-> a3],
   [type |-> "TransferAdmin", target |-> a3], [type |-> "RotateAdmin", target |-> a2],
   [type |-> "ResolveDispute", upheld |-> "upheld"]}

Configuring == \E c \in Configs : ConfigureMultisig(admin, c)

(* The admin alone, until a multisig takes over.                           *)
Directly == Alone /\ members'["Verifier"] = {}

(* Proposals while the signer set is changed: the first is made by a2, the *)
(* second by a3.                                                           *)
Turns     == \A id \in DOMAIN proposals' : proposals'[id].proposer = <<a2, a3>>[id]
Actioning == Proposing /\ Turns

(* A rotation proposed by an outsider beside a proposal of a signer.       *)
Joining ==
  /\ Sponsoring \/ Proposing
  /\ Len(community') <= 1 /\ Len(proposals') <= 1 + Len(community')
  /\ \A id \in DOMAIN community' :
       community'[id].submitter = a1 /\ community'[id].action.type = "RotateAdmin"
  /\ \A id \in DOMAIN proposals' : proposals'[id].proposer \in {a1, a2}

(* Elections for the seat of a2, and recoveries.                           *)
Seating ==
  /\ Reseating /\ Len(elections') + Len(recoveries') <= 2
  /\ \A id \in DOMAIN elections' : elections'[id].seat = a2

Registering == (Parametrizing \/ Delegating \/ Upgrading) /\ Len(params') <= 1

Parties == {"direct", "actions", "community", "seats", "params"}

MCInit == focus \in Parties /\ Init
MCNext ==
  /\ \/ focus = "direct" /\ Directly
     \/ focus = "actions" /\ (Actioning \/ Configuring \/ SetDisputeResolution(admin))
     \/ focus = "community" /\ Joining
     \/ focus = "seats" /\ Seating
     \/ focus = "params" /\ (Registering \/ Configuring)
     \/ focus \in {"community", "seats"} /\ ~Configured /\ Configuring
     \/ focus # "direct" /\ Tick
  /\ UNCHANGED focus
MCSpec == MCInit /\ [][MCNext]_<<vars, focus>>
===============================================================================
