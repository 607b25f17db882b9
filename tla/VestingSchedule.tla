---------------------------- MODULE VestingSchedule ----------------------------
(***************************************************************************)
(* contracts/vesting, a grant by itself: what create_grant and revoke_grant*)
(* make of it, and what has vested of it by a time.  Vesting is the        *)
(* contract with its grants and tokens; GovernanceVoting weighs votes by   *)
(* grants.  The crate has calculate_vested twice and calls a               *)
(* calculate_vested_at it does not have; the first of the two, whose body  *)
(* names at_time, is taken for that.                                       *)
(***************************************************************************)
EXTENDS Integers

NoGrant == [total |-> 0, start |-> 0, cliff |-> 0, duration |-> 0, released |-> 0, revokedAt |-> -1]

(* What create_grant accepts, and what it writes.  The start may have      *)
(* passed long ago.                                                        *)
Schedulable(s) == s.total > 0 /\ s.duration > s.cliff

NewGrant(s) ==
  [total |-> s.total, start |-> s.start, cliff |-> s.cliff, duration |-> s.duration,
   released |-> 0, revokedAt |-> -1]

Revocable(g) == g # NoGrant /\ g.revokedAt = -1

Revoked(g, t) == [g EXCEPT !.revokedAt = t]

(* A revoked grant answers for every t as of the moment of revocation.     *)
CalculateVestedAt(g, t) ==
  LET elapsed == (IF g.revokedAt # -1 THEN g.revokedAt ELSE t) - g.start
  IN IF elapsed < 0 \/ elapsed < g.cliff THEN 0
     ELSE IF elapsed >= g.duration THEN g.total
     ELSE (g.total * elapsed) \div g.duration

(* get_vested_balance_at, for the grant of a beneficiary.                  *)
VestedBalanceAt(g, t) == IF g = NoGrant THEN 0 ELSE CalculateVestedAt(g, t)
=============================================================================
