-------------------------------- MODULE Vesting --------------------------------
(***************************************************************************)
(* contracts/vesting: token grants with a cliff and linear vesting, what   *)
(* VestingSchedule says of one of them.  Tokens reach the contract from    *)
(* outside.                                                                *)
(***************************************************************************)
EXTENDS VestingSchedule

CONSTANTS
  Address,
  Schedules,    \* [total, start, cliff, duration] the admin asks for
  Deposits,     \* tokens sent to the contract
  UpgradeDelay, \* UPGRADE_TIMELOCK_DELAY
  VestMaxFunds, VestMaxTime \* bounds

VARIABLES
  grants,      \* Grant(beneficiary); NoGrant where absent
  funds,       \* the contract's token balance
  received,    \* history: tokens each beneficiary got
  vestUpgrade, \* when UpgradeProposal was made; -1 where absent
  vestNow

state == <<grants, funds, received, vestUpgrade>>
vars  == <<state, vestNow>>

Init ==
  /\ grants = [a \in Address |-> NoGrant]
  /\ funds = 0 /\ received = [a \in Address |-> 0]
  /\ vestUpgrade = -1
  /\ vestNow = 0

CalculateVested(g) == CalculateVestedAt(g, vestNow)

(* What governance_voting asks for a proposal created at time t.           *)
GetVestedBalanceAt(a, t) == VestedBalanceAt(grants[a], t)

GetVestedBalance(a)   == IF grants[a] = NoGrant THEN 0 ELSE CalculateVested(grants[a])
GetUnvestedBalance(a) == grants[a].total - GetVestedBalance(a)

CreateGrant(a, s) ==
  /\ Schedulable(s)
  /\ grants[a] = NoGrant
  /\ grants' = [grants EXCEPT ![a] = NewGrant(s)]
  /\ UNCHANGED <<funds, received, vestUpgrade, vestNow>>

(* Mutant: what was released before is overwritten.                        *)
ReleasedAnew(g, n) == [g EXCEPT !.released = n]

Released(g, n) == [g EXCEPT !.released = @ + n]

(* Anyone may call it; the transfer fails where the tokens are missing.    *)
Release(a) ==
  LET releasable == CalculateVested(grants[a]) - grants[a].released
  IN /\ grants[a] # NoGrant
     /\ releasable > 0
     /\ funds >= releasable
     /\ grants' = [grants EXCEPT ![a] = Released(@, releasable)]
     /\ funds' = funds - releasable
     /\ received' = [received EXCEPT ![a] = @ + releasable]
     /\ UNCHANGED <<vestUpgrade, vestNow>>

RevokeGrant(a) ==
  /\ Revocable(grants[a])
  /\ grants' = [grants EXCEPT ![a] = Revoked(@, vestNow)]
  /\ UNCHANGED <<funds, received, vestUpgrade, vestNow>>

ProposeUpgrade == vestUpgrade' = vestNow /\ UNCHANGED <<grants, funds, received, vestNow>>

ExecuteUpgrade ==
  /\ vestUpgrade # -1 /\ vestNow >= vestUpgrade + UpgradeDelay
  /\ vestUpgrade' = -1
  /\ UNCHANGED <<grants, funds, received, vestNow>>

(* A token transfer to the contract.                                       *)
Deposit(n) ==
  /\ funds + n <= VestMaxFunds
  /\ funds' = funds + n
  /\ UNCHANGED <<grants, received, vestUpgrade, vestNow>>

Tick == vestNow < VestMaxTime /\ vestNow' = vestNow + 1 /\ UNCHANGED state

Next ==
  \/ \E a \in Address, s \in Schedules : CreateGrant(a, s)
  \/ \E a \in Address : Release(a) \/ RevokeGrant(a)
  \/ \E n \in Deposits : Deposit(n)
  \/ ProposeUpgrade \/ ExecuteUpgrade
  \/ Tick

Spec == Init /\ [][Next]_vars

-----------------------------------------------------------------------------
(* What could be wrong                                                     *)

(* However often release is called, before or after a revocation, nobody   *)
(* receives more than has vested, or anything that was not booked.         *)
NeverAheadOfSchedule ==
  \A a \in Address :
    /\ received[a] = grants[a].released
    /\ received[a] <= GetVestedBalance(a)
    /\ GetUnvestedBalance(a) >= 0

(* What has vested stays vested: neither time nor revoke_grant, at any     *)
(* moment before, in or after the cliff, takes any of it back, now or in   *)
(* the snapshots that votes are weighed by (get_vested_balance_at); and    *)
(* nobody is paid ahead of the schedule.                                   *)
ScheduleKeptStep ==
  /\ \A a \in Address : GetVestedBalance(a)' >= GetVestedBalance(a)
  /\ \A a \in Address, t \in 0..vestNow : GetVestedBalanceAt(a, t)' >= GetVestedBalanceAt(a, t)
  /\ NeverAheadOfSchedule'
ScheduleKept == [][ScheduleKeptStep]_vars

=============================================================================
