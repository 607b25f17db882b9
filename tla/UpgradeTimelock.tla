----------------------------- MODULE UpgradeTimelock -----------------------------
(***************************************************************************)
(* contracts/shared/src/timelock.rs: numbered upgrade proposals, each      *)
(* executed or cancelled once, after a delay that may change meanwhile.    *)
(* The contract around it authorises the calls; it executes by calling     *)
(* prepare_execute, replacing the code and calling mark_executed, in one   *)
(* transaction.                                                            *)
(***************************************************************************)
EXTENDS Integers, Sequences

CONSTANTS
  Proposers, Codes,
  Delays,            \* delays set
  DefaultDelay,      \* DEFAULT_UPGRADE_DELAY
  MaxUpgrades, LockMaxTime   \* bounds

VARIABLES
  delay,       \* TimelockKey::Delay; -1 where absent
  upgrades,    \* Proposal(id), in order; NextId is their number
  running,     \* history: the hashes the code was replaced with
  lockNow      \* ledger time

vars == <<delay, upgrades, running, lockNow>>

Init == delay = -1 /\ upgrades = <<>> /\ running = <<>> /\ lockNow = 0

GetDelay == IF delay = -1 THEN DefaultDelay ELSE delay

SetDelay(d) == delay' = d /\ UNCHANGED <<upgrades, running, lockNow>>

ProposeUpgrade(a, code) ==
  /\ Len(upgrades) < MaxUpgrades
  /\ upgrades' = Append(upgrades,
       [code |-> code, proposer |-> a, proposedAt |-> lockNow, executed |-> FALSE, cancelled |-> FALSE])
  /\ UNCHANGED <<delay, running, lockNow>>

ExecutableAt(id) == upgrades[id].proposedAt + GetDelay

PrepareExecute(id) ==
  /\ ~upgrades[id].cancelled
  /\ ~upgrades[id].executed
  /\ lockNow >= ExecutableAt(id)

MarkExecuted(id) == upgrades' = [upgrades EXCEPT ![id].executed = TRUE]

Execute(id) ==
  /\ PrepareExecute(id)
  /\ MarkExecuted(id)
  /\ running' = Append(running, id)
  /\ UNCHANGED <<delay, lockNow>>

CancelUpgrade(id) ==
  /\ ~upgrades[id].executed
  /\ ~upgrades[id].cancelled
  /\ upgrades' = [upgrades EXCEPT ![id].cancelled = TRUE]
  /\ UNCHANGED <<delay, running, lockNow>>

Tick == lockNow < LockMaxTime /\ lockNow' = lockNow + 1 /\ UNCHANGED <<delay, upgrades, running>>

Next ==
  \/ \E d \in Delays : SetDelay(d)
  \/ \E a \in Proposers, code \in Codes : ProposeUpgrade(a, code)
  \/ \E id \in DOMAIN upgrades : Execute(id) \/ CancelUpgrade(id)
  \/ Tick

-----------------------------------------------------------------------------
(* Whatever the delay does meanwhile, a proposal's code runs at most once, *)
(* never after a cancellation, and never before the delay then in force.   *)
RunsOnceStep ==
  /\ \A id \in DOMAIN upgrades :
       upgrades[id].executed \/ upgrades[id].cancelled => upgrades'[id] = upgrades[id]
  /\ running' # running =>
       LET id == running'[Len(running')]
       IN /\ \A k \in DOMAIN running : running[k] # id
          /\ ~upgrades[id].cancelled /\ lockNow - upgrades[id].proposedAt >= GetDelay
=============================================================================
