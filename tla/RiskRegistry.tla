------------------------------ MODULE RiskRegistry ------------------------------
(***************************************************************************)
(* contracts/risk_registry: verifiers lock a stake, vouch for SMEs and     *)
(* score debtors; defaults and disputes slash them.  The staking token is  *)
(* external: `held' is the contract's balance of it.  Of access_control    *)
(* only what a call sees is kept: whether it is configured, paused, and    *)
(* still lets its admin grant and revoke roles directly.                   *)
(***************************************************************************)
EXTENDS Integers, FiniteSets, Sums

CONSTANTS
  Address,       \* verifiers, their sub-accounts and administrators
  Deployer,      \* the admin initialize names
  Nobody,        \* no address
  Smes, Debtors,
  Scores,        \* risk and debtor scores that may be given
  Amounts,       \* stakes and top-ups
  Limits,        \* credit limits
  Percentages,   \* slash percentages in basis points
  Breakers,      \* [threshold, sample] of the circuit breaker
  Boundaries,    \* tier boundaries <<aaa, aa, a, b>> that may be activated
  MaxTime,       \* bound: ledger timestamps 0..MaxTime
  MaxCount,      \* bound: invoices, defaults, disputes and tier versions
  MaxReputation, Penalty, MinReputation, \* 100, 10 and MIN_REPUTATION_RISK_ACTIONS
  RemovalDelay,  \* VERIFIER_REMOVAL_COOLDOWN_SECS
  ReaddDelay,    \* VERIFIER_READD_COOLDOWN_SECS
  ScoreInterval, \* MIN_SCORE_UPDATE_INTERVAL
  UpgradeDelay,  \* UPGRADE_TIMELOCK_DELAY
  MaxAttestors   \* MAX_VERIFIERS_PER_DEBTOR

ASSUME AddressesOk == Deployer \in Address /\ Nobody \notin Address
ASSUME ScoresOk      == Scores \subseteq 0..100
ASSUME PercentagesOk == Percentages \subseteq 0..10000
ASSUME AmountsOk     == Amounts # {} /\ \A n \in Amounts : n \in Nat /\ n > 0
ASSUME LimitsOk      == Limits \subseteq Nat
ASSUME BreakersOk == Breakers \subseteq [threshold : Nat, sample : Nat]
ASSUME BoundsOk ==
  /\ MaxTime \in Nat /\ MaxCount \in Nat /\ MaxReputation \in Nat /\ Penalty \in Nat
  /\ MinReputation \in Nat /\ RemovalDelay \in Nat /\ ReaddDelay \in Nat
  /\ ScoreInterval \in Nat /\ UpgradeDelay \in Nat /\ MaxAttestors \in Nat
ASSUME FinitelyMany == IsFiniteSet(Address) /\ IsFiniteSet(Smes)

VARIABLES
  admin, pendingAdmin,   \* Admin, PendingAdmin
  upgrade,    \* UpgradeProposal: when it was proposed; -1 where absent
  ac,         \* [set, paused, direct]: the access_control calls reach
  verifier,   \* per address, the verifier's keys (see Stranger)
  primary,    \* SubAccount(address); Nobody where absent
  profile,    \* SmeProfile(sme); NoProfile where absent
  attested,   \* DebtorScoreAttestation(debtor, verifier); -1 where absent
  updatedAt,  \* DebtorScoreLastUpdate(verifier, debtor); -1 where absent
  attestors,  \* DebtorAttestors(debtor)
  scored, defaulted, tripped, \* TotalScoredCountTier, DefaultCountTier, PausedForTier
  dispute,    \* ActiveDispute(verifier, subject): "none", "open" or "resolved"
  settings,   \* minimum stake, slash percentage, dispute window, breaker, minimum debtor score
  tiers,      \* RiskTierDefinitionVersion: the boundaries of each version
  held,       \* staking tokens the contract holds
  overdrawn,  \* history: tokens slashed from verifiers that had been removed
  now

verifierVars == <<verifier, primary, held, overdrawn>>
scoreVars    == <<profile, attested, updatedAt, attestors, scored, defaulted, tripped>>
adminVars    == <<admin, pendingAdmin, ac, upgrade>>
vars == <<adminVars, verifierVars, scoreVars, dispute, settings, tiers, now>>

-------------------------------------------------------------------------------
Tiers == {"AAA", "AA", "A", "B", "C"}

(* score_to_tier_symbol, which does not read the tier definitions.         *)
Tier(score) == CASE score <= 20 -> "AAA" [] score <= 40 -> "AA" [] score <= 60 -> "A"
                 [] score <= 80 -> "B" [] OTHER -> "C"

(* The keys of an address: -1 and "none" stand for an absent key.          *)
Stranger == [flag |-> FALSE, stake |-> 0, reputation |-> -1, status |-> "none",
             requested |-> -1, removed |-> -1, bond |-> -1, disputes |-> 0]
NoProfile == [verifier |-> Nobody, score |-> 0, invoices |-> 0, defaults |-> 0, limit |-> 0]
NoBreaker == [threshold |-> 0, sample |-> -1]

Init ==
  /\ admin = Deployer /\ pendingAdmin = Nobody /\ upgrade = -1
  /\ ac = [set |-> FALSE, paused |-> FALSE, direct |-> TRUE]
  /\ verifier = [a \in Address |-> Stranger]
  /\ primary = [a \in Address |-> Nobody]
  /\ profile = [s \in Smes |-> NoProfile]
  /\ attested = [d \in Debtors |-> [a \in Address |-> -1]]
  /\ updatedAt = [d \in Debtors |-> [a \in Address |-> -1]]
  /\ attestors = [d \in Debtors |-> {}]
  /\ scored = [t \in Tiers |-> 0] /\ defaulted = [t \in Tiers |-> 0]
  /\ tripped = [t \in Tiers |-> FALSE]
  /\ dispute = [a \in Address |-> [s \in Smes |-> "none"]]
  /\ settings \in [minimum : {Min(Amounts)}, percentage : Percentages, window : {-1},
                   breaker : {NoBreaker}, minScore : {0}]
  /\ tiers = <<(<<20, 40, 60, 80>>)>>
  /\ held = 0 /\ overdrawn = 0
  /\ now = 0

(* require_not_paused asks access_control, where one is set.               *)
Unpaused == ac.set => ~ac.paused
AdminActs(a) == a = admin /\ Unpaused

(* The calls of grant_role and revoke_role must succeed, where made.       *)
RoleCallOk == ac.set => ac.direct

Status(a) == IF verifier[a].status # "none" THEN verifier[a].status
             ELSE IF verifier[a].flag THEN "Active" ELSE "Removed"

Registered(a) == verifier[a].flag
Active(a)     == Registered(a) /\ Status(a) = "Active"
Reputable(a)  == verifier[a].reputation >= MinReputation

(* Mutant: a registered verifier acts whatever its status.                 *)
ResolveWhateverStatus(a) ==
  IF Registered(a) THEN {a}
  ELSE IF primary[a] # Nobody /\ Registered(primary[a]) THEN {primary[a]}
  ELSE {}

(* resolve_verifier: the verifier an address acts for, if any.             *)
Resolve(a) ==
  IF Registered(a) THEN IF Active(a) THEN {a} ELSE {}
  ELSE IF primary[a] # Nobody /\ Active(primary[a]) THEN {primary[a]}
  ELSE {}

-------------------------------------------------------------------------------
(* Verifiers.                                                              *)

AddVerifier(a, v, amount) ==
  /\ AdminActs(a) /\ RoleCallOk
  /\ ~Registered(v) /\ verifier[v].status \in {"none", "Removed"}
  /\ verifier[v].removed >= 0 => now >= verifier[v].removed + ReaddDelay
  /\ amount >= settings.minimum
  /\ held' = held + amount
  /\ verifier' = [verifier EXCEPT ![v] =
       [verifier[v] EXCEPT !.flag = TRUE, !.stake = amount, !.reputation = MaxReputation,
                           !.bond = amount, !.disputes = 0]]
  /\ UNCHANGED <<adminVars, primary, overdrawn, scoreVars, dispute, settings, tiers, now>>

TopUpStake(a, v, amount) ==
  /\ AdminActs(a) /\ Active(v) /\ amount > 0
  /\ held' = held + amount
  /\ verifier' = [verifier EXCEPT ![v].stake = @ + amount]
  /\ UNCHANGED <<adminVars, primary, overdrawn, scoreVars, dispute, settings, tiers, now>>

(* Pay the stake back, which the token refuses beyond the contract's       *)
(* balance, and leave the marker.                                          *)
Depart(v) ==
  /\ held >= verifier[v].stake
  /\ held' = held - Max({0, verifier[v].stake})
  /\ verifier' = [verifier EXCEPT ![v] =
       [verifier[v] EXCEPT !.flag = FALSE, !.stake = 0, !.reputation = -1,
                           !.status = "Removed", !.requested = -1, !.removed = now]]
  /\ UNCHANGED <<adminVars, primary, overdrawn, scoreVars, dispute, settings, tiers, now>>

RemoveVerifier(a, v) ==
  /\ AdminActs(a) /\ RoleCallOk
  /\ Registered(v) /\ verifier[v].disputes = 0
  /\ Depart(v)

FinalizeVerifierRemoval(a, v) ==
  /\ AdminActs(a) /\ RoleCallOk
  /\ Registered(v) /\ Status(v) = "PendingRemoval"
  /\ verifier[v].requested >= 0 /\ now >= verifier[v].requested + RemovalDelay
  /\ Depart(v)

(* One move of the status, asked for by the admin.                         *)
Move(a, v, from, to, requested) ==
  /\ AdminActs(a)
  /\ Registered(v) /\ Status(v) \in from
  /\ verifier' = [verifier EXCEPT ![v].status = to, ![v].requested = requested]
  /\ UNCHANGED <<adminVars, primary, held, overdrawn, scoreVars, dispute, settings, tiers, now>>

SuspendVerifier(a, v)   == Move(a, v, {"Active"}, "Suspended", verifier[v].requested)
ReinstateVerifier(a, v) == Move(a, v, {"Suspended"}, "Active", verifier[v].requested)
RequestVerifierRemoval(a, v) == Move(a, v, {"Active", "Suspended"}, "PendingRemoval", now)
CancelVerifierRemoval(a, v)  == Move(a, v, {"PendingRemoval"}, "Active", -1)

AddSubAccount(p, sub) ==
  /\ Active(p) /\ Unpaused /\ Reputable(p)
  /\ ~Registered(sub) /\ primary[sub] = Nobody
  /\ primary' = [primary EXCEPT ![sub] = p]
  /\ UNCHANGED <<adminVars, verifier, held, overdrawn, scoreVars, dispute, settings, tiers, now>>

RemoveSubAccount(p, sub) ==
  /\ Active(p) /\ Unpaused /\ Reputable(p)
  /\ primary[sub] = p
  /\ primary' = [primary EXCEPT ![sub] = Nobody]
  /\ UNCHANGED <<adminVars, verifier, held, overdrawn, scoreVars, dispute, settings, tiers, now>>

-------------------------------------------------------------------------------
(* SMEs.                                                                   *)

Known(s) == profile[s] # NoProfile

Tallied(t) == [scored EXCEPT ![t] = @ + 1]

RegisterSme(c, s, score) ==
  \E p \in Resolve(c) :
    /\ Unpaused /\ Reputable(p) /\ ~Known(s)
    /\ profile' = [profile EXCEPT ![s] = [NoProfile EXCEPT !.verifier = p, !.score = score]]
    /\ scored' = Tallied(Tier(score))
    /\ UNCHANGED <<adminVars, verifierVars, attested, updatedAt, attestors, defaulted, tripped,
                   dispute, settings, tiers, now>>

(* The verifier of the profile, or a sub-account of it, sets new terms.    *)
Rewrite(c, s, terms) ==
  \E p \in Resolve(c) :
    /\ Unpaused /\ Reputable(p)
    /\ Known(s) /\ profile[s].verifier = p
    /\ profile' = [profile EXCEPT ![s] = terms]
    /\ UNCHANGED <<adminVars, verifierVars, attested, updatedAt, attestors, scored, defaulted,
                   tripped, dispute, settings, tiers, now>>

UpdateSmeScore(c, s, score) == Rewrite(c, s, [profile[s] EXCEPT !.score = score])
SetCreditLimit(c, s, limit) == limit >= 0 /\ Rewrite(c, s, [profile[s] EXCEPT !.limit = limit])

ReassignSmeVerifier(a, s, v) ==
  /\ AdminActs(a) /\ Active(v) /\ Known(s)
  /\ profile' = [profile EXCEPT ![s].verifier = v]
  /\ UNCHANGED <<adminVars, verifierVars, attested, updatedAt, attestors, scored, defaulted,
                 tripped, dispute, settings, tiers, now>>

(* Called by invoice_nft when it mints; a pause does not stop it.          *)
IncrementInvoiceCount(s) ==
  /\ Known(s) /\ profile[s].invoices < MaxCount
  /\ profile' = [profile EXCEPT ![s].invoices = @ + 1]
  /\ UNCHANGED <<adminVars, verifierVars, attested, updatedAt, attestors, scored, defaulted,
                 tripped, dispute, settings, tiers, now>>

Slash(amount) == (amount * settings.percentage) \div 10000

(* Reputation with the default the code reads where the key is absent.     *)
Standing(v) == IF verifier[v].reputation < 0 THEN MaxReputation ELSE verifier[v].reputation

Disgraced(v) == Max({0, Standing(v) - Penalty})

(* The breaker trips once enough SMEs of the tier were scored and the rate *)
(* of defaults reaches the threshold.                                      *)
Trips(tier, defaults) ==
  /\ settings.breaker # NoBreaker
  /\ scored[tier] >= settings.breaker.sample
  /\ (defaults * 10000) \div scored[tier] >= settings.breaker.threshold

(* The division by an empty tier panics, and the call with it.             *)
RateDefined(tier) ==
  settings.breaker # NoBreaker /\ scored[tier] >= settings.breaker.sample => scored[tier] > 0

RecordDefault(a, s) ==
  LET v == profile[s].verifier
      t == Tier(profile[s].score)
  IN  /\ AdminActs(a) /\ Known(s) /\ RateDefined(t)
      /\ profile[s].defaults < MaxCount
      /\ profile' = [profile EXCEPT ![s].defaults = @ + 1]
      /\ verifier' = [verifier EXCEPT
           ![v].stake = IF @ > 0 THEN @ - Slash(@) ELSE @,
           ![v].reputation = Disgraced(v)]
      /\ defaulted' = [defaulted EXCEPT ![t] = @ + 1]
      /\ tripped' = [tripped EXCEPT ![t] = @ \/ Trips(t, defaulted[t] + 1)]
      /\ UNCHANGED <<adminVars, primary, held, overdrawn, attested, updatedAt, attestors, scored,
                     dispute, settings, tiers, now>>

RecordSuccessfulRepayment(a, s) ==
  /\ AdminActs(a) /\ Known(s)
  /\ verifier' = [verifier EXCEPT ![profile[s].verifier].reputation =
       Min({MaxReputation, Standing(profile[s].verifier) + 1})]
  /\ UNCHANGED <<adminVars, primary, held, overdrawn, scoreVars, dispute, settings, tiers, now>>

-------------------------------------------------------------------------------
(* Debtors.                                                                *)

(* A sub-account passes require_verifier, but needs a reputation itself.   *)
SetDebtorScore(c, d, score) ==
  /\ Resolve(c) # {} /\ Unpaused /\ Reputable(c)
  /\ updatedAt[d][c] >= 0 => now >= updatedAt[d][c] + ScoreInterval
  /\ c \in attestors[d] \/ Cardinality(attestors[d]) < MaxAttestors
  /\ attested' = [attested EXCEPT ![d][c] = score]
  /\ updatedAt' = [updatedAt EXCEPT ![d][c] = now]
  /\ attestors' = [attestors EXCEPT ![d] = @ \union {c}]
  /\ UNCHANGED <<adminVars, verifierVars, profile, scored, defaulted, tripped, dispute, settings,
                 tiers, now>>

(* Mutant: only active verifiers count.                                    *)
ActiveCounts(v) == Status(v) = "Active"

(* verifier_counts_toward_aggregate.                                       *)
Counts(v) == Status(v) # "Removed"

(* debtor_score_average; -1 where no attestation counts.                   *)
Average(d) ==
  LET voices == {v \in attestors[d] : Counts(v)}
  IN  IF voices = {} THEN -1
      ELSE SumOver(attested[d], voices) \div Cardinality(voices)

IsDebtorVerified(d) == settings.minScore = 0 \/ Average(d) >= settings.minScore

(* get_debtor_risk_tier, under the current tier boundaries.                *)
DebtorRiskTier(d) ==
  LET limits == tiers[Cardinality(DOMAIN tiers)]
      below == {i \in 1..4 : Average(d) <= limits[i]}
  IN  IF Average(d) = -1 THEN "None"
      ELSE IF below = {} THEN "C" ELSE <<"AAA", "AA", "A", "B">>[Min(below)]

-------------------------------------------------------------------------------
(* Disputes about a verifier.                                              *)

RaiseDispute(v, subject) ==
  /\ Resolve(v) # {} /\ Unpaused
  /\ verifier[v].bond >= 0 /\ settings.window >= 0
  /\ verifier[v].disputes < MaxCount
  /\ dispute' = [dispute EXCEPT ![v][subject] = "open"]
  /\ verifier' = [verifier EXCEPT ![v].disputes = @ + 1]
  /\ UNCHANGED <<adminVars, primary, held, overdrawn, scoreVars, settings, tiers, now>>

(* Mutant: resolving one dispute clears the count.                         *)
NoneLeft(n) == 0

OneLess(n) == Max({0, n - 1})

(* Mutant: the slashed part stays in the verifier's stake.                 *)
SlashBondAlone(v, amount) ==
  [verifier[v] EXCEPT !.bond = @ - amount, !.reputation = Disgraced(v), !.disputes = OneLess(@)]

(* A slash of the bond leaves the contract and the stake alike; where the  *)
(* stake is smaller it becomes negative.                                   *)
SlashBond(v, amount) ==
  [verifier[v] EXCEPT !.bond = @ - amount, !.stake = IF amount > 0 THEN @ - amount ELSE @,
                      !.reputation = Disgraced(v), !.disputes = OneLess(@)]

ResolveDispute(a, v, subject, slash) ==
  LET amount == IF slash THEN Slash(verifier[v].bond) ELSE 0
  IN  /\ AdminActs(a) /\ dispute[v][subject] = "open"
      /\ slash => verifier[v].bond >= 0 /\ settings.window >= 0 /\ held >= amount
      /\ dispute' = [dispute EXCEPT ![v][subject] = "resolved"]
      /\ held' = held - amount
      /\ verifier' = [verifier EXCEPT ![v] =
           IF slash THEN SlashBond(v, amount) ELSE [verifier[v] EXCEPT !.disputes = OneLess(verifier[v].disputes)]]
      /\ overdrawn' = IF Registered(v) THEN overdrawn ELSE overdrawn + amount
      /\ UNCHANGED <<adminVars, primary, scoreVars, settings, tiers, now>>

-------------------------------------------------------------------------------
(* Settings and administration.                                            *)

Configure(new) ==
  /\ settings' = new
  /\ UNCHANGED <<adminVars, verifierVars, scoreVars, dispute, tiers, now>>

SetMinimumStake(a, m)    == a = admin /\ m >= 0 /\ Configure([settings EXCEPT !.minimum = m])
SetSlashPercentage(a, p) == a = admin /\ p <= 10000 /\ Configure([settings EXCEPT !.percentage = p])
SetMinDebtorScore(a, m)  == AdminActs(a) /\ Configure([settings EXCEPT !.minScore = m])
ConfigureSlashing(a, w)  == AdminActs(a) /\ Configure([settings EXCEPT !.window = w])
ConfigureCircuitBreaker(a, b) == AdminActs(a) /\ Configure([settings EXCEPT !.breaker = b])

ClearCircuitBreakerTier(a, t) ==
  /\ AdminActs(a)
  /\ tripped' = [tripped EXCEPT ![t] = FALSE]
  /\ UNCHANGED <<adminVars, verifierVars, profile, attested, updatedAt, attestors, scored,
                 defaulted, dispute, settings, tiers, now>>

UpdateRiskTierDefinition(a, b) ==
  /\ AdminActs(a) /\ Cardinality(DOMAIN tiers) < MaxCount
  /\ b[1] < b[2] /\ b[2] < b[3] /\ b[3] < b[4] /\ b[4] <= 100
  /\ tiers' = [i \in 1..(Cardinality(DOMAIN tiers) + 1) |->
                 IF i \in DOMAIN tiers THEN tiers[i] ELSE b]
  /\ UNCHANGED <<adminVars, verifierVars, scoreVars, dispute, settings, now>>

Administer(newAdmin, pending) ==
  /\ admin' = newAdmin /\ pendingAdmin' = pending
  /\ UNCHANGED <<ac, upgrade, verifierVars, scoreVars, dispute, settings, tiers, now>>

TransferAdmin(a, new)  == a = admin /\ new # a /\ Administer(admin, new)
AcceptAdmin(new)       == new = pendingAdmin /\ Administer(new, pendingAdmin)
CancelAdminProposal(a) == a = admin /\ pendingAdmin # Nobody /\ Administer(admin, Nobody)

SetAccessControl(a) ==
  /\ a = admin
  /\ ac' = [ac EXCEPT !.set = TRUE]
  /\ UNCHANGED <<admin, pendingAdmin, upgrade, verifierVars, scoreVars, dispute, settings, tiers, now>>

(* access_control pauses, resumes or hands its roles to a multisig.        *)
AccessControlMoves ==
  /\ \/ ac' = [ac EXCEPT !.paused = ~@]
     \/ ac' = [ac EXCEPT !.direct = FALSE]
  /\ UNCHANGED <<admin, pendingAdmin, upgrade, verifierVars, scoreVars, dispute, settings, tiers, now>>

Upgrade(proposed) ==
  /\ upgrade' = proposed
  /\ UNCHANGED <<admin, pendingAdmin, ac, verifierVars, scoreVars, dispute, settings, tiers, now>>

ProposeUpgrade(a) == a = admin /\ Upgrade(now)
ExecuteUpgrade(a) == a = admin /\ upgrade >= 0 /\ now >= upgrade + UpgradeDelay /\ Upgrade(-1)

Tick ==
  /\ now < MaxTime
  /\ now' = now + 1
  /\ UNCHANGED <<adminVars, verifierVars, scoreVars, dispute, settings, tiers>>

-------------------------------------------------------------------------------
Joining ==
  \E a \in Address :
    \/ \E v \in Address, n \in Amounts : AddVerifier(a, v, n)
    \/ \E v \in Address :
         \/ RemoveVerifier(a, v) \/ SuspendVerifier(a, v) \/ ReinstateVerifier(a, v)
         \/ RequestVerifierRemoval(a, v) \/ CancelVerifierRemoval(a, v)
         \/ FinalizeVerifierRemoval(a, v)

Staking == \E a, v \in Address, n \in Amounts : TopUpStake(a, v, n)

Subdelegating == \E p, sub \in Address : AddSubAccount(p, sub) \/ RemoveSubAccount(p, sub)

Vouching ==
  \E c \in Address, s \in Smes :
    \/ \E n \in Scores : RegisterSme(c, s, n) \/ UpdateSmeScore(c, s, n)
    \/ \E n \in Limits : SetCreditLimit(c, s, n)
    \/ \E v \in Address : ReassignSmeVerifier(c, s, v)
    \/ IncrementInvoiceCount(s)

Outcomes ==
  \E a \in Address, s \in Smes : RecordDefault(a, s) \/ RecordSuccessfulRepayment(a, s)

Scoring == \E c \in Address, d \in Debtors, n \in Scores : SetDebtorScore(c, d, n)

Disputing ==
  \E v \in Address, s \in Smes :
    \/ RaiseDispute(v, s)
    \/ \E a \in Address, slash \in BOOLEAN : ResolveDispute(a, v, s, slash)

Setting ==
  \E a \in Address :
    \/ \E m \in Amounts : SetMinimumStake(a, m)
    \/ \E p \in Percentages : SetSlashPercentage(a, p)
    \/ \E m \in Scores : SetMinDebtorScore(a, m)
    \/ ConfigureSlashing(a, 1)
    \/ \E b \in Breakers : ConfigureCircuitBreaker(a, b)
    \/ \E t \in Tiers : ClearCircuitBreakerTier(a, t)
    \/ \E b \in Boundaries : UpdateRiskTierDefinition(a, b)

Administering ==
  \/ \E a \in Address :
       \/ \E new \in Address : TransferAdmin(a, new)
       \/ AcceptAdmin(a) \/ CancelAdminProposal(a) \/ SetAccessControl(a)
       \/ ProposeUpgrade(a) \/ ExecuteUpgrade(a)
  \/ AccessControlMoves

Next == Joining \/ Staking \/ Subdelegating \/ Vouching \/ Outcomes \/ Scoring \/ Disputing
        \/ Setting \/ Administering \/ Tick

Spec == Init /\ [][Next]_vars

-------------------------------------------------------------------------------
VerifierRecord ==
  [flag : BOOLEAN, stake : Int, reputation : -1..MaxReputation,
   status : {"none", "Active", "Suspended", "PendingRemoval", "Removed"},
   requested : -1..MaxTime, removed : -1..MaxTime, bond : Int, disputes : 0..MaxCount]

ProfileRecord ==
  [verifier : Address \union {Nobody}, score : 0..100, invoices : Nat, defaults : Nat, limit : Nat]
SettingsRecord ==
  [minimum : Int, percentage : 0..10000, window : Int, breaker : Breakers \union {NoBreaker},
   minScore : Int]

AdminOk     == admin \in Address /\ pendingAdmin \in Address \union {Nobody}
VerifiersOk ==
  /\ verifier \in [Address -> VerifierRecord] /\ \A v \in Address : verifier[v].bond >= -1
  /\ primary \in [Address -> Address \union {Nobody}]
ProfilesOk  == profile \in [Smes -> ProfileRecord]
TalliesOk   ==
  scored \in [Tiers -> Nat] /\ defaulted \in [Tiers -> Nat] /\ tripped \in [Tiers -> BOOLEAN]
AttestsOk   ==
  /\ attested \in [Debtors -> [Address -> -1..100]] /\ attestors \in [Debtors -> SUBSET Address]
  /\ \A d \in Debtors : Average(d) \in -1..100 /\ DebtorRiskTier(d) \in Tiers \union {"None"}
DisputesOk  == dispute \in [Address -> [Smes -> {"none", "open", "resolved"}]]
FundsOk     == held \in Nat /\ overdrawn \in Nat
SettingsOk  == settings \in SettingsRecord /\ now \in 0..MaxTime

(* The shape of the stored keys: reputation stays within its scale under   *)
(* any number of slashes and repayments, a bond is never overdrawn, and an *)
(* average of scores is a score.                                           *)
TypeOK ==
  AdminOk /\ VerifiersOk /\ ProfilesOk /\ TalliesOk /\ AttestsOk /\ DisputesOk /\ FundsOk /\ SettingsOk

(* The contract can pay back every registered verifier: stakes are cut by  *)
(* defaults (no token moves) and by disputes (the cut is paid out), bonds  *)
(* by disputes only, and removal pays the stake.  What disputes take from  *)
(* verifiers already removed is missing.                                   *)
StakesCovered ==
  held + overdrawn >= SumOver([v \in Address |-> Max({0, verifier[v].stake})], Address)

OpenAbout(v) == {s \in Smes : dispute[v][s] = "open"}

(* While a verifier has not been removed, each dispute still open about it *)
(* is in the count remove_verifier reads before it pays the stake back.    *)
DisputesCounted ==
  \A v \in Address : Status(v) # "Removed" =>
    Cardinality(OpenAbout(v)) <= verifier[v].disputes

(* The breaker's totals account for every SME and every recorded default,  *)
(* whatever happened to scores and verifiers in between.                   *)
TierCountsAddUp ==
  /\ SumOver(scored, Tiers) = Cardinality({s \in Smes : Known(s)})
  /\ SumOver(defaulted, Tiers) = SumOver([s \in Smes |-> profile[s].defaults], Smes)

(* The cached counters that other calls decide by follow the records.      *)
CountersKept == DisputesCounted /\ TierCountsAddUp

(* An SME's score and limit change only while the verifier answerable for  *)
(* it is active and in good standing, sub-accounts of it included: never   *)
(* while it is suspended, leaving or removed.                              *)
TermsNeedAnActiveVerifier ==
  [][\A s \in Smes :
       Known(s) /\ <<profile'[s].score, profile'[s].limit>> # <<profile[s].score, profile[s].limit>> =>
         Active(profile[s].verifier) /\ Reputable(profile[s].verifier)]_vars

(* A debtor's average moves only with a new attestation or with the formal *)
(* removal or the new admission of an attestor: suspension, a requested    *)
(* removal, its cancellation, slashing and disputes leave it.  It says     *)
(* nothing of the step that admits an attestor anew: add_verifier leaves   *)
(* such a verifier Removed, where the docs and a test expect Active.       *)
AverageIsSteady ==
  [][\A d \in Debtors :
       Average(d)' # Average(d) =>
         \/ attested'[d] # attested[d]
         \/ \E v \in attestors[d] : \/ verifier'[v].removed # verifier[v].removed
                                    \/ verifier'[v].flag /\ ~verifier[v].flag]_vars

===============================================================================
