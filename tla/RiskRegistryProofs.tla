--------------------------- MODULE RiskRegistryProofs ---------------------------
(***************************************************************************)
(* Theorems about RiskRegistry for every set of addresses, SMEs, debtors,  *)
(* stakes, slash percentages and bounds, and every sequence of calls.      *)
(***************************************************************************)
EXTENDS RiskRegistry, FiniteSums

-------------------------------------------------------------------------------
(* What makes the properties inductive.  An address that never registered  *)
(* has no bond, no reputation, no dispute and attests nothing; whoever     *)
(* left keeps the marker "Removed" for good; the removal time is set with  *)
(* that marker.  The tokens held for a registered verifier cover its stake *)
(* and its bond: defaults cut the stake alone, so a dispute that slashes   *)
(* the bond may take more than the stake still holds.                      *)

NeverIn(r) == ~r.flag /\ r.status = "none"

RecordOk(r) ==
  /\ r.flag \/ r.stake <= 0
  /\ NeverIn(r) => r.bond = -1 /\ r.reputation = -1
  /\ ~NeverIn(r) => r.bond >= 0
  /\ (r.status = "Removed") <=> (r.removed # -1)

VerifierOk(v) ==
  /\ RecordOk(verifier[v])
  /\ NeverIn(verifier[v]) => \A s \in Smes : dispute[v][s] = "none"
  /\ NeverIn(verifier[v]) => \A d \in Debtors : v \notin attestors[d]
  /\ Status(v) # "Removed" => Cardinality(OpenAbout(v)) <= verifier[v].disputes

Reserve(r) == IF ~r.flag THEN 0 ELSE IF r.stake >= r.bond THEN r.stake ELSE r.bond
Reserves   == [v \in Address |-> Reserve(verifier[v])]

Covered == held + overdrawn >= SumOver(Reserves, Address)

ProfileOk(s) ==
  Known(s) => profile[s].verifier \in Address /\ ~NeverIn(verifier[profile[s].verifier])

Attested == \A d \in Debtors, v \in Address : (v \in attestors[d]) <=> (attested[d][v] # -1)

Inv ==
  /\ TypeOK /\ Covered /\ Attested /\ TierCountsAddUp
  /\ \A v \in Address : VerifierOk(v)
  /\ \A s \in Smes : ProfileOk(s)

-------------------------------------------------------------------------------
(* Types.                                                                  *)

LEMMA RecordTypes ==
  ASSUME NEW r \in VerifierRecord
  PROVE  /\ r.flag \in BOOLEAN /\ r.stake \in Int /\ r.bond \in Int
         /\ r.reputation \in Int /\ r.reputation >= -1 /\ r.reputation <= MaxReputation
         /\ r.disputes \in Nat /\ r.disputes <= MaxCount /\ r.removed \in -1..MaxTime
         /\ r.requested \in -1..MaxTime
         /\ r.status \in {"none", "Active", "Suspended", "PendingRemoval", "Removed"}
BY BoundsOk DEF VerifierRecord

LEMMA VerifierTypes ==
  ASSUME Inv, NEW v \in Address
  PROVE  /\ verifier[v] \in VerifierRecord /\ VerifierOk(v) /\ RecordOk(verifier[v])
         /\ primary[v] \in Address \union {Nobody}
BY DEF Inv, TypeOK, VerifiersOk, VerifierOk

LEMMA NowType == Inv => now \in 0..MaxTime /\ now \in Nat /\ now >= 0 /\ now # -1
BY BoundsOk DEF Inv, TypeOK, SettingsOk

(* The value a verifier's status is read as.                               *)
StatusOf(r) == IF r.status # "none" THEN r.status ELSE IF r.flag THEN "Active" ELSE "Removed"

LEMMA ReserveCovers ==
  ASSUME NEW r \in VerifierRecord, RecordOk(r)
  PROVE  Reserve(r) \in Nat /\ r.stake <= Reserve(r)
<1>1. r.stake \in Int /\ r.bond \in Int /\ r.flag \in BOOLEAN
  BY RecordTypes
<1>2. r.flag => r.bond >= 0
  BY DEF RecordOk, NeverIn
<1>3. ~r.flag => r.stake <= 0
  BY DEF RecordOk
<1>4. QED
  BY <1>1, <1>2, <1>3 DEF Reserve

(* Averages of scores are scores, after every step.                        *)
LEMMA AveragesOk ==
  ASSUME attested' \in [Debtors -> [Address -> -1..100]], attestors' \in [Debtors -> SUBSET Address],
         Attested', NEW d \in Debtors
  PROVE  (Average(d) \in -1..100 /\ DebtorRiskTier(d) \in Tiers \union {"None"})'
<1> DEFINE voices == {v \in attestors[d] : Counts(v)}
<1>1. Average(d)' \in -1..100
  <2>1. CASE voices' = {}
    BY <2>1 DEF Average
  <2>2. CASE voices' # {}
    <3>1. IsFiniteSet(voices')
      <4>1. voices' \subseteq Address
        OBVIOUS
      <4>2. QED
        BY <4>1, FinitelyMany, FS_Subset
    <3>2. \A v \in voices' : attested'[d][v] \in 0..100
      <4>1. \A v \in voices' : v \in Address /\ attested'[d][v] # -1
        BY DEF Attested
      <4>2. QED
        BY <4>1
    <3> DEFINE f == attested'[d]
               S == voices'
    <3>3. Average(d)' = SumOver(f, S) \div Cardinality(S)
      BY <2>2 DEF Average
    <3>4. IsFiniteSet(S) /\ S # {} /\ \A v \in S : f[v] \in 0..100
      BY <2>2, <3>1, <3>2
    <3> HIDE DEF f, S
    <3>5. SumOver(f, S) \div Cardinality(S) \in 0..100
      BY <3>4, MeanInRange
    <3>6. QED
      BY <3>3, <3>5
  <2>3. QED
    BY <2>1, <2>2
<1>2. DebtorRiskTier(d)' \in Tiers \union {"None"}
  <2> DEFINE limits == tiers'[Cardinality(DOMAIN tiers')]
             below  == {i \in 1..4 : Average(d)' <= limits[i]}
  <2>1. below # {} => Min(below) \in 1..4
    <3>1. SUFFICES ASSUME below # {} PROVE Min(below) \in 1..4
      OBVIOUS
    <3>2. below \in SUBSET Nat
      OBVIOUS
    <3> HIDE DEF below
    <3>3. \E n \in below : \A m \in below : n <= m
      BY <3>1, <3>2, SmallestElement
    <3>4. Min(below) \in below
      BY <3>3 DEF Min
    <3>5. QED
      BY <3>4 DEF below
  <2> DEFINE name == <<"AAA", "AA", "A", "B">>
  <2>2. \A i \in 1..4 : name[i] \in Tiers
    BY DEF Tiers
  <2>3. DebtorRiskTier(d)' = IF Average(d)' = -1 THEN "None" ELSE IF below = {} THEN "C" ELSE name[Min(below)]
    BY DEF DebtorRiskTier
  <2> HIDE DEF below, name
  <2>4. QED
    BY <2>1, <2>2, <2>3 DEF Tiers
<1>3. QED
  BY <1>1, <1>2

(* Attestations that did not change are still typed.                       *)
LEMMA AttestsKept ==
  ASSUME Inv, UNCHANGED <<attested, attestors>>
  PROVE  AttestsOk' /\ Attested'
<1>1. Attested'
  BY DEF Inv, Attested
<1>2. attested' \in [Debtors -> [Address -> -1..100]] /\ attestors' \in [Debtors -> SUBSET Address]
  BY DEF Inv, TypeOK, AttestsOk
<1>3. QED
  BY <1>1, <1>2, AveragesOk DEF AttestsOk

-------------------------------------------------------------------------------
(* A step that rewrites the keys of one verifier, and perhaps the disputes *)
(* about it.                                                               *)

LEMMA OneVerifier ==
  ASSUME Inv, NEW v \in Address, NEW r \in VerifierRecord, RecordOk(r), ~NeverIn(r),
         verifier' = [verifier EXCEPT ![v] = r], UNCHANGED attestors, primary' = primary,
         \A x \in Address : x # v => dispute'[x] = dispute[x],
         StatusOf(r) # "Removed" => Cardinality(OpenAbout(v)') <= r.disputes,
         held' \in Nat, overdrawn' \in Nat,
         held' + overdrawn' - Reserve(r) >= held + overdrawn - Reserve(verifier[v])
  PROVE  /\ VerifiersOk' /\ Covered' /\ FundsOk' /\ (\A x \in Address : VerifierOk(x)')
         /\ \A x \in Address : NeverIn(verifier'[x]) => NeverIn(verifier[x])
<1>1. verifier'[v] = r /\ \A x \in Address : x # v => verifier'[x] = verifier[x]
  BY DEF Inv, TypeOK, VerifiersOk
<1>2. VerifiersOk'
  <2>1. r.bond >= -1
    BY RecordTypes DEF RecordOk
  <2>2. \A x \in Address : verifier[x] \in VerifierRecord /\ verifier[x].bond >= -1
    BY DEF Inv, TypeOK, VerifiersOk
  <2>3. \A x \in Address : verifier'[x] \in VerifierRecord /\ verifier'[x].bond >= -1
    BY <1>1, <2>1, <2>2
  <2>4. verifier' = [x \in Address |-> verifier'[x]]
    BY DEF Inv, TypeOK, VerifiersOk
  <2>5. primary' \in [Address -> Address \union {Nobody}]
    BY DEF Inv, TypeOK, VerifiersOk
  <2>6. QED
    BY <2>3, <2>4, <2>5 DEF VerifiersOk
<1>3. Covered'
  <2> DEFINE f == Reserves
             g == Reserves'
  <2>1. f[v] = Reserve(verifier[v]) /\ g[v] = Reserve(r) /\ \A x \in Address \ {v} : g[x] = f[x]
    BY <1>1 DEF Reserves
  <2>2. \A x \in Address : f[x] \in Int
    BY VerifierTypes, ReserveCovers DEF Reserves
  <2>3. Reserve(r) \in Nat /\ Reserve(verifier[v]) \in Nat
    BY VerifierTypes, ReserveCovers
  <2>4. held + overdrawn >= SumOver(f, Address) /\ held \in Nat /\ overdrawn \in Nat
    BY DEF Inv, Covered, TypeOK, FundsOk
  <2> HIDE DEF f, g
  <2>5. SumOver(g, Address) = SumOver(f, Address) - f[v] + g[v] /\ SumOver(f, Address) \in Int
    BY <2>1, <2>2, <2>3, SumChange, SumInt, FinitelyMany
  <2>6. held' + overdrawn' >= SumOver(g, Address)
    BY <2>1, <2>3, <2>4, <2>5
  <2>7. QED
    BY <2>6 DEF Covered, g
<1>4. ASSUME NEW x \in Address PROVE VerifierOk(x)'
  <2>1. CASE x = v
    <3>1. Status(v)' = StatusOf(r)
      BY <1>1 DEF Status, StatusOf
    <3>2. QED
      BY <1>1, <2>1, <3>1 DEF VerifierOk
  <2>2. CASE x # v
    BY <1>1, <2>2, VerifierTypes DEF VerifierOk, Status, OpenAbout
  <2>3. QED
    BY <2>1, <2>2
<1>5. FundsOk'
  BY DEF FundsOk
<1>6. \A x \in Address : NeverIn(verifier'[x]) => NeverIn(verifier[x])
  BY <1>1
<1>7. QED
  BY <1>2, <1>3, <1>4, <1>5, <1>6

(* What a step that leaves a part alone keeps.                             *)
LEMMA VerifiersKept ==
  ASSUME Inv, UNCHANGED <<verifierVars, attestors, dispute>>
  PROVE  VerifiersOk' /\ Covered' /\ FundsOk' /\ (\A x \in Address : VerifierOk(x)')
<1>1. UNCHANGED <<verifier, primary, held, overdrawn>>
  BY DEF verifierVars
<1>2. VerifiersOk' /\ FundsOk'
  BY <1>1 DEF Inv, TypeOK, VerifiersOk, FundsOk
<1>3. Covered'
  BY <1>1 DEF Inv, Covered, Reserves
<1>4. \A x \in Address : VerifierOk(x)'
  BY <1>1, VerifierTypes DEF VerifierOk, Status, OpenAbout
<1>5. QED
  BY <1>2, <1>3, <1>4

LEMMA ProfilesKept ==
  ASSUME Inv, UNCHANGED profile,
         \A x \in Address : NeverIn(verifier'[x]) => NeverIn(verifier[x])
  PROVE  ProfilesOk' /\ (\A s \in Smes : ProfileOk(s)')
BY DEF Inv, TypeOK, ProfilesOk, ProfileOk, Known

LEMMA TalliesKept ==
  ASSUME Inv, UNCHANGED <<profile, scored, defaulted>>, tripped' \in [Tiers -> BOOLEAN]
  PROVE  TalliesOk' /\ TierCountsAddUp'
BY DEF Inv, TypeOK, TalliesOk, TierCountsAddUp, Known

LEMMA RestKept ==
  ASSUME Inv
  PROVE  /\ UNCHANGED <<adminVars>> => AdminOk'
         /\ UNCHANGED dispute => DisputesOk'
         /\ UNCHANGED <<settings, now>> => SettingsOk'
BY DEF Inv, TypeOK, AdminOk, DisputesOk, SettingsOk, adminVars

(* A step of a handler that concerns one verifier only.                    *)
LEMMA VerifierStep ==
  ASSUME Inv, NEW v \in Address, NEW r \in VerifierRecord, RecordOk(r), ~NeverIn(r),
         StatusOf(r) # "Removed" =>
           \/ OpenAbout(v) = {}
           \/ Status(v) # "Removed" /\ r.disputes = verifier[v].disputes,
         verifier' = [verifier EXCEPT ![v] = r], held' \in Nat,
         held' - Reserve(r) >= held - Reserve(verifier[v]),
         UNCHANGED <<adminVars, primary, overdrawn, scoreVars, dispute, settings, tiers, now>>
  PROVE  Inv'
<1>1. overdrawn \in Nat /\ held \in Nat /\ overdrawn' = overdrawn
  BY DEF Inv, TypeOK, FundsOk
<1>2. Reserve(r) \in Nat /\ Reserve(verifier[v]) \in Nat
  BY VerifierTypes, ReserveCovers
<1>3. held' + overdrawn' - Reserve(r) >= held + overdrawn - Reserve(verifier[v])
  BY <1>1, <1>2
<1>4. /\ UNCHANGED <<profile, attested, attestors, scored, defaulted, tripped>>
      /\ OpenAbout(v)' = OpenAbout(v)
  BY DEF scoreVars, OpenAbout
<1>5. StatusOf(r) # "Removed" => Cardinality(OpenAbout(v)') <= r.disputes
  <2>1. CASE OpenAbout(v) = {}
    BY <1>4, <2>1, FS_EmptySet, RecordTypes
  <2>2. CASE OpenAbout(v) # {}
    BY <1>4, <2>2, VerifierTypes DEF VerifierOk
  <2>3. QED
    BY <2>1, <2>2
<1>6. /\ VerifiersOk' /\ Covered' /\ FundsOk' /\ (\A x \in Address : VerifierOk(x)')
      /\ \A x \in Address : NeverIn(verifier'[x]) => NeverIn(verifier[x])
  BY <1>1, <1>3, <1>4, <1>5, OneVerifier
<1>7. ProfilesOk' /\ (\A s \in Smes : ProfileOk(s)')
  BY <1>4, <1>6, ProfilesKept
<1>8. TalliesOk' /\ TierCountsAddUp'
  BY <1>4, TalliesKept DEF Inv, TypeOK, TalliesOk
<1>9. AttestsOk' /\ Attested'
  BY <1>4, AttestsKept
<1>10. QED
  BY <1>6, <1>7, <1>8, <1>9, RestKept DEF Inv, TypeOK

(* The keys of a verifier that registers, and of one that leaves.          *)
LEMMA AddedRecord ==
  ASSUME NEW old \in VerifierRecord, NEW n, NEW m, NEW z,
         z = [old EXCEPT !.flag = TRUE, !.stake = n, !.reputation = m, !.bond = n, !.disputes = 0]
  PROVE  z = [flag |-> TRUE, stake |-> n, reputation |-> m, status |-> old.status,
              requested |-> old.requested, removed |-> old.removed, bond |-> n, disputes |-> 0]
BY DEF VerifierRecord

LEMMA DepartedRecord ==
  ASSUME NEW old \in VerifierRecord, NEW t, NEW z,
         z = [old EXCEPT !.flag = FALSE, !.stake = 0, !.reputation = -1,
                         !.status = "Removed", !.requested = -1, !.removed = t]
  PROVE  z = [flag |-> FALSE, stake |-> 0, reputation |-> -1, status |-> "Removed",
              requested |-> -1, removed |-> t, bond |-> old.bond, disputes |-> old.disputes]
BY DEF VerifierRecord

-------------------------------------------------------------------------------
(* Verifiers come and go.                                                  *)

LEMMA NeverInIsClear == ASSUME Inv, NEW v \in Address, NeverIn(verifier[v]) PROVE OpenAbout(v) = {}
BY VerifierTypes DEF VerifierOk, OpenAbout

LEMMA AddVerifierStep ==
  ASSUME Inv, NEW a, NEW v \in Address, NEW amount \in Amounts, AddVerifier(a, v, amount)
  PROVE  Inv'
<1> DEFINE old == verifier[v]
           r   == [flag |-> TRUE, stake |-> amount, reputation |-> MaxReputation,
                   status |-> old.status, requested |-> old.requested, removed |-> old.removed,
                   bond |-> amount, disputes |-> 0]
<1>1. old \in VerifierRecord /\ RecordOk(old)
  BY VerifierTypes
<1>2. amount \in Nat /\ amount > 0
  BY AmountsOk
<1>3. [old EXCEPT !.flag = TRUE, !.stake = amount, !.reputation = MaxReputation,
                  !.bond = amount, !.disputes = 0] = r
  BY <1>1, AddedRecord
<1>4. r \in VerifierRecord
  BY <1>1, <1>2, BoundsOk, RecordTypes DEF VerifierRecord
<1>5. /\ ~old.flag /\ old.status \in {"none", "Removed"}
      /\ verifier' = [verifier EXCEPT ![v] = r] /\ held' = held + amount
      /\ UNCHANGED <<adminVars, primary, overdrawn, scoreVars, dispute, settings, tiers, now>>
  BY <1>3 DEF AddVerifier, Registered
<1>6. /\ r.flag /\ r.stake = amount /\ r.bond = amount /\ r.status = old.status
      /\ r.removed = old.removed
  OBVIOUS
<1> HIDE DEF r
<1>7. RecordOk(r) /\ ~NeverIn(r)
  BY <1>1, <1>2, <1>6 DEF RecordOk, NeverIn
<1>8. StatusOf(r) # "Removed" => OpenAbout(v) = {}
  <2>1. ASSUME old.status = "none" PROVE OpenAbout(v) = {}
    BY <1>5, <2>1, NeverInIsClear DEF NeverIn
  <2>2. QED
    BY <1>5, <1>6, <2>1 DEF StatusOf
<1>9. Reserve(r) = amount /\ Reserve(old) = 0
  BY <1>2, <1>5, <1>6 DEF Reserve
<1>10. held \in Nat
  BY DEF Inv, TypeOK, FundsOk
<1>11. held' \in Nat /\ held' - Reserve(r) >= held - Reserve(old)
  BY <1>2, <1>5, <1>9, <1>10
<1>12. QED
  BY <1>4, <1>5, <1>7, <1>8, <1>11, VerifierStep

LEMMA TopUpStakeStep ==
  ASSUME Inv, NEW a, NEW v \in Address, NEW amount \in Amounts, TopUpStake(a, v, amount)
  PROVE  Inv'
<1> DEFINE old == verifier[v]
           r   == [old EXCEPT !.stake = old.stake + amount]
<1>1. old \in VerifierRecord /\ RecordOk(old) /\ old.stake \in Int /\ old.bond \in Int
  BY VerifierTypes, RecordTypes
<1>2. amount \in Nat /\ amount > 0
  BY AmountsOk
<1>3. /\ r \in VerifierRecord /\ r.flag = old.flag /\ r.stake = old.stake + amount
      /\ r.bond = old.bond /\ r.status = old.status /\ r.removed = old.removed
      /\ r.disputes = old.disputes /\ r.reputation = old.reputation
  BY <1>1, <1>2 DEF VerifierRecord
<1>4. /\ old.flag /\ Status(v) = "Active" /\ verifier' = [verifier EXCEPT ![v] = r]
      /\ held' = held + amount
      /\ UNCHANGED <<adminVars, primary, overdrawn, scoreVars, dispute, settings, tiers, now>>
  BY DEF TopUpStake, Active, Registered
<1> HIDE DEF r
<1>5. RecordOk(r) /\ ~NeverIn(r)
  BY <1>1, <1>3, <1>4 DEF RecordOk, NeverIn
<1>6. Reserve(r) <= Reserve(old) + amount /\ Reserve(old) \in Nat /\ Reserve(r) \in Nat
  <2>1. Reserve(old) \in Nat /\ Reserve(r) \in Nat
    BY <1>1, <1>3, <1>5, ReserveCovers
  <2>2. QED
    BY <1>1, <1>2, <1>3, <1>4, <2>1 DEF Reserve
<1>7. held \in Nat
  BY DEF Inv, TypeOK, FundsOk
<1>8. held' \in Nat /\ held' - Reserve(r) >= held - Reserve(old)
  BY <1>2, <1>4, <1>6, <1>7
<1>9. QED
  BY <1>3, <1>4, <1>5, <1>8, VerifierStep

LEMMA DepartStep ==
  ASSUME Inv, NEW v \in Address, Registered(v), Depart(v)
  PROVE  Inv'
<1> DEFINE old == verifier[v]
           r   == [flag |-> FALSE, stake |-> 0, reputation |-> -1, status |-> "Removed",
                   requested |-> -1, removed |-> now, bond |-> old.bond, disputes |-> old.disputes]
<1>1. old \in VerifierRecord /\ RecordOk(old) /\ old.stake \in Int /\ old.bond \in Int /\ old.flag
  BY VerifierTypes, RecordTypes DEF Registered
<1>2. [old EXCEPT !.flag = FALSE, !.stake = 0, !.reputation = -1,
                  !.status = "Removed", !.requested = -1, !.removed = now] = r
  BY <1>1, DepartedRecord
<1>3. r \in VerifierRecord
  BY <1>1, BoundsOk, NowType DEF VerifierRecord
<1>4. /\ verifier' = [verifier EXCEPT ![v] = r] /\ held >= old.stake
      /\ held' = held - Max({0, old.stake})
      /\ UNCHANGED <<adminVars, primary, overdrawn, scoreVars, dispute, settings, tiers, now>>
  BY <1>2 DEF Depart
<1>5. ~r.flag /\ r.stake = 0 /\ r.status = "Removed" /\ r.bond = old.bond /\ r.removed = now
  OBVIOUS
<1> HIDE DEF r
<1>6. RecordOk(r) /\ ~NeverIn(r) /\ StatusOf(r) = "Removed" /\ Reserve(r) = 0
  BY <1>1, <1>5, NowType DEF RecordOk, NeverIn, StatusOf, Reserve
<1>7. Max({0, old.stake}) = IF 0 >= old.stake THEN 0 ELSE old.stake
  BY <1>1, MaxPair
<1>8. held \in Nat /\ Reserve(old) \in Nat /\ old.stake <= Reserve(old)
  BY <1>1, ReserveCovers DEF Inv, TypeOK, FundsOk
<1>9. held' \in Nat /\ held' - Reserve(r) >= held - Reserve(old)
  BY <1>1, <1>4, <1>6, <1>7, <1>8
<1>10. QED
  BY <1>3, <1>4, <1>6, <1>9, VerifierStep

LEMMA MoveStep ==
  ASSUME Inv, NEW a, NEW v \in Address, NEW requested \in -1..MaxTime,
         NEW from \in SUBSET {"Active", "Suspended", "PendingRemoval"},
         NEW to \in {"Active", "Suspended", "PendingRemoval"}, Move(a, v, from, to, requested)
  PROVE  Inv'
<1> DEFINE old == verifier[v]
           r   == [flag |-> old.flag, stake |-> old.stake, reputation |-> old.reputation,
                   status |-> to, requested |-> requested, removed |-> old.removed,
                   bond |-> old.bond, disputes |-> old.disputes]
<1>1. old \in VerifierRecord /\ RecordOk(old) /\ old.flag /\ Status(v) \in from
  BY VerifierTypes DEF Move, Registered
<1>2. /\ \A x \in Address : x # v => verifier'[x] = verifier[x]
      /\ verifier' = [x \in Address |-> verifier'[x]]
      /\ verifier'[v] = [old EXCEPT !.status = to, !.requested = requested]
  BY DEF Move, Inv, TypeOK, VerifiersOk
<1>3. verifier'[v] = r
  BY <1>1, <1>2 DEF VerifierRecord
<1>4. r \in VerifierRecord
  BY <1>1 DEF VerifierRecord
<1>5. /\ r.flag /\ r.stake = old.stake /\ r.status = to /\ r.removed = old.removed
      /\ r.bond = old.bond /\ r.disputes = old.disputes
  BY <1>1
<1> HIDE DEF r
<1>6. verifier' = [verifier EXCEPT ![v] = r]
  BY <1>2, <1>3 DEF Inv, TypeOK, VerifiersOk
<1>7. Status(v) # "Removed" /\ old.status # "Removed"
  BY <1>1 DEF Status
<1>8. RecordOk(r) /\ ~NeverIn(r) /\ Reserve(r) = Reserve(old)
  BY <1>1, <1>5, <1>7 DEF RecordOk, NeverIn, Reserve
<1>9. held' \in Nat /\ held' - Reserve(r) >= held - Reserve(old)
  <2>1. held' = held /\ held \in Nat /\ Reserve(old) \in Nat
    BY <1>1, ReserveCovers DEF Move, Inv, TypeOK, FundsOk
  <2>2. QED
    BY <1>8, <2>1
<1>10. UNCHANGED <<adminVars, primary, overdrawn, scoreVars, dispute, settings, tiers, now>>
  BY DEF Move
<1>11. QED
  BY <1>4, <1>5, <1>6, <1>7, <1>8, <1>9, <1>10, VerifierStep

LEMMA JoiningStep == Inv /\ Joining => Inv'
<1> SUFFICES ASSUME Inv, NEW a \in Address, NEW v \in Address,
                    \/ \E n \in Amounts : AddVerifier(a, v, n)
                    \/ RemoveVerifier(a, v) \/ SuspendVerifier(a, v) \/ ReinstateVerifier(a, v)
                    \/ RequestVerifierRemoval(a, v) \/ CancelVerifierRemoval(a, v)
                    \/ FinalizeVerifierRemoval(a, v)
             PROVE  Inv'
  BY DEF Joining
<1>1. verifier[v].requested \in -1..MaxTime /\ now \in -1..MaxTime /\ -1 \in -1..MaxTime
  BY BoundsOk, NowType, VerifierTypes, RecordTypes
<1>2. CASE \E n \in Amounts : AddVerifier(a, v, n)
  BY <1>2, AddVerifierStep
<1>3. CASE RemoveVerifier(a, v) \/ FinalizeVerifierRemoval(a, v)
  BY <1>3, DepartStep DEF RemoveVerifier, FinalizeVerifierRemoval
<1>4. CASE SuspendVerifier(a, v) \/ ReinstateVerifier(a, v)
  BY <1>1, <1>4, MoveStep DEF SuspendVerifier, ReinstateVerifier
<1>5. CASE RequestVerifierRemoval(a, v) \/ CancelVerifierRemoval(a, v)
  BY <1>1, <1>5, MoveStep DEF RequestVerifierRemoval, CancelVerifierRemoval
<1>6. QED
  BY <1>2, <1>3, <1>4, <1>5

-------------------------------------------------------------------------------
(* SMEs.                                                                   *)

LEMMA ProfileTypes ==
  ASSUME Inv, NEW s \in Smes
  PROVE  /\ profile[s] \in ProfileRecord /\ profile[s].defaults \in Nat
         /\ profile[s].invoices \in Nat /\ profile[s].score \in 0..100 /\ profile[s].limit \in Nat
         /\ Known(s) <=> profile[s].verifier \in Address
         /\ Known(s) => ~NeverIn(verifier[profile[s].verifier])
<1>1. profile[s] \in ProfileRecord /\ ProfileOk(s)
  BY DEF Inv, TypeOK, ProfilesOk
<1>2. ~Known(s) => profile[s].verifier = Nobody
  BY DEF Known, NoProfile
<1>3. QED
  BY <1>1, <1>2, AddressesOk DEF ProfileOk, ProfileRecord

LEMMA Resolved ==
  ASSUME Inv, NEW c \in Address, NEW p \in Resolve(c)
  PROVE  p \in Address /\ Active(p) /\ verifier[p].flag /\ ~NeverIn(verifier[p])
<1>1. primary[c] \in Address \union {Nobody}
  BY VerifierTypes
<1>2. p \in Address /\ Active(p)
  BY <1>1 DEF Resolve
<1>3. QED
  BY <1>2 DEF Active, Registered, NeverIn

(* A step that changes one profile, not its defaults, and nothing else.    *)
LEMMA ProfileStep ==
  ASSUME Inv, NEW s \in Smes, Known(s), NEW p \in ProfileRecord,
         p.verifier \in Address, ~NeverIn(verifier[p.verifier]), p.defaults = profile[s].defaults,
         profile' = [profile EXCEPT ![s] = p],
         UNCHANGED <<adminVars, verifierVars, attested, updatedAt, attestors, scored, defaulted,
                     tripped, dispute, settings, tiers, now>>
  PROVE  Inv'
<1>1. profile'[s] = p /\ \A x \in Smes : x # s => profile'[x] = profile[x]
  BY DEF Inv, TypeOK, ProfilesOk
<1>2. UNCHANGED verifier
  BY DEF verifierVars
<1>3. Known(s)' /\ \A x \in Smes : Known(x)' <=> Known(x)
  BY <1>1, AddressesOk DEF Known, NoProfile
<1>4. \A x \in Smes : ProfileOk(x)'
  <2>1. \A x \in Smes : ProfileOk(x)
    BY DEF Inv
  <2>2. QED
    BY <1>1, <1>2, <1>3, <2>1 DEF ProfileOk
<1>5. ProfilesOk'
  BY DEF Inv, TypeOK, ProfilesOk
<1>6. TalliesOk'
  BY DEF Inv, TypeOK, TalliesOk
<1>7. TierCountsAddUp'
  <2>1. [x \in Smes |-> profile'[x].defaults] = [x \in Smes |-> profile[x].defaults]
    BY <1>1
  <2>2. {x \in Smes : Known(x)'} = {x \in Smes : Known(x)}
    BY <1>3
  <2>3. TierCountsAddUp
    BY DEF Inv
  <2>4. QED
    BY <2>1, <2>2, <2>3 DEF TierCountsAddUp
<1>8. AttestsOk' /\ Attested'
  BY AttestsKept
<1>9. QED
  BY <1>4, <1>5, <1>6, <1>7, <1>8, VerifiersKept, RestKept DEF Inv, TypeOK

LEMMA RewriteStep ==
  ASSUME Inv, NEW c \in Address, NEW s \in Smes, NEW terms \in ProfileRecord,
         terms.verifier = profile[s].verifier, terms.defaults = profile[s].defaults,
         Rewrite(c, s, terms)
  PROVE  Inv'
<1>1. /\ Known(s) /\ profile' = [profile EXCEPT ![s] = terms]
      /\ UNCHANGED <<adminVars, verifierVars, attested, updatedAt, attestors, scored, defaulted,
                     tripped, dispute, settings, tiers, now>>
  BY DEF Rewrite
<1>2. terms.verifier \in Address /\ ~NeverIn(verifier[terms.verifier])
  BY <1>1, ProfileTypes
<1>3. QED
  BY <1>1, <1>2, ProfileStep

LEMMA NewProfile ==
  ASSUME NEW v, NEW n, NEW z, z = [NoProfile EXCEPT !.verifier = v, !.score = n]
  PROVE  z = [verifier |-> v, score |-> n, invoices |-> 0, defaults |-> 0, limit |-> 0]
BY DEF NoProfile

LEMMA TiersFinite == IsFiniteSet(Tiers)
<1>1. IsFiniteSet({"AAA"})
  BY FS_Singleton
<1>2. IsFiniteSet({"AAA"} \union {"AA"})
  BY <1>1, FS_AddElement
<1>3. IsFiniteSet({"AAA"} \union {"AA"} \union {"A"})
  BY <1>2, FS_AddElement
<1>4. IsFiniteSet({"AAA"} \union {"AA"} \union {"A"} \union {"B"})
  BY <1>3, FS_AddElement
<1>5. IsFiniteSet({"AAA"} \union {"AA"} \union {"A"} \union {"B"} \union {"C"})
  BY <1>4, FS_AddElement
<1>6. Tiers = {"AAA"} \union {"AA"} \union {"A"} \union {"B"} \union {"C"}
  BY DEF Tiers
<1>7. QED
  BY <1>5, <1>6

(* A total follows when one of its terms grows by one.                     *)
LEMMA OneMore ==
  ASSUME NEW S, IsFiniteSet(S), NEW f, NEW g, NEW t \in S, \A x \in S : f[x] \in Int,
         g[t] = f[t] + 1, \A x \in S \ {t} : g[x] = f[x]
  PROVE  SumOver(g, S) = SumOver(f, S) + 1
<1>1. g[t] \in Int
  OBVIOUS
<1>2. SumOver(g, S) = SumOver(f, S) - f[t] + g[t] /\ SumOver(f, S) \in Int
  BY <1>1, SumChange, SumInt
<1>3. QED
  BY <1>2

LEMMA RegisterSmeStep ==
  ASSUME Inv, NEW c \in Address, NEW s \in Smes, NEW score \in Scores, RegisterSme(c, s, score)
  PROVE  Inv'
<1>1. PICK v \in Resolve(c) :
        /\ ~Known(s)
        /\ profile' = [profile EXCEPT ![s] = [NoProfile EXCEPT !.verifier = v, !.score = score]]
        /\ scored' = Tallied(Tier(score))
        /\ UNCHANGED <<adminVars, verifierVars, attested, updatedAt, attestors, defaulted, tripped,
                       dispute, settings, tiers, now>>
  BY DEF RegisterSme
<1> DEFINE p == [verifier |-> v, score |-> score, invoices |-> 0, defaults |-> 0, limit |-> 0]
           t == Tier(score)
<1>2. v \in Address /\ ~NeverIn(verifier[v])
  BY Resolved
<1>3. score \in 0..100
  BY ScoresOk
<1>4. profile' = [profile EXCEPT ![s] = p]
  <2>1. [NoProfile EXCEPT !.verifier = v, !.score = score] = p
    BY NewProfile
  <2>2. QED
    BY <1>1, <2>1
<1>5. p \in ProfileRecord /\ p.verifier = v /\ p.defaults = 0
  BY <1>2, <1>3 DEF ProfileRecord
<1>6. t \in Tiers
  BY DEF Tier, Tiers
<1> HIDE DEF p, t
<1>7. profile'[s] = p /\ (\A x \in Smes : x # s => profile'[x] = profile[x]) /\ UNCHANGED verifier
  BY <1>1, <1>4 DEF Inv, TypeOK, ProfilesOk, verifierVars
<1>8. Known(s)' /\ \A x \in Smes : x # s => (Known(x)' <=> Known(x))
  BY <1>2, <1>5, <1>7, AddressesOk DEF Known, NoProfile
<1>9. \A x \in Smes : ProfileOk(x)'
  <2>1. \A x \in Smes : ProfileOk(x)
    BY DEF Inv
  <2>2. QED
    BY <1>2, <1>5, <1>7, <1>8, <2>1 DEF ProfileOk
<1>10. ProfilesOk'
  BY <1>4, <1>5 DEF Inv, TypeOK, ProfilesOk
<1>11. scored \in [Tiers -> Nat] /\ scored' = [scored EXCEPT ![t] = @ + 1]
  BY <1>1 DEF Inv, TypeOK, TalliesOk, Tallied, t
<1>12. TalliesOk'
  BY <1>1, <1>6, <1>11 DEF Inv, TypeOK, TalliesOk
<1>13. SumOver(scored', Tiers) = SumOver(scored, Tiers) + 1
  <2>1. /\ \A x \in Tiers : scored[x] \in Int
        /\ scored'[t] = scored[t] + 1
        /\ \A x \in Tiers \ {t} : scored'[x] = scored[x]
    BY <1>6, <1>11
  <2>2. QED
    BY <1>6, <2>1, TiersFinite, OneMore
<1>14. Cardinality({x \in Smes : Known(x)'}) = Cardinality({x \in Smes : Known(x)}) + 1
  <2> DEFINE K == {x \in Smes : Known(x)}
             L == {x \in Smes : Known(x)'}
  <2>1. L = K \union {s} /\ s \notin K
    BY <1>1, <1>8
  <2>2. IsFiniteSet(K)
    BY FinitelyMany, FS_Subset
  <2> HIDE DEF K, L
  <2>3. Cardinality(L) = Cardinality(K) + 1
    BY <2>1, <2>2, FS_AddElement
  <2>4. QED
    BY <2>3 DEF K, L
<1>15. TierCountsAddUp'
  <2>1. profile[s].defaults = 0
    BY <1>1 DEF Known, NoProfile
  <2>2. [x \in Smes |-> profile'[x].defaults] = [x \in Smes |-> profile[x].defaults]
    BY <1>5, <1>7, <2>1
  <2>3. TierCountsAddUp
    BY DEF Inv
  <2>4. QED
    BY <1>1, <1>13, <1>14, <2>2, <2>3 DEF TierCountsAddUp
<1>16. AttestsOk' /\ Attested'
  BY <1>1, AttestsKept
<1>17. QED
  BY <1>1, <1>9, <1>10, <1>12, <1>15, <1>16, VerifiersKept, RestKept DEF Inv, TypeOK

LEMMA VouchingStep == Inv /\ Vouching => Inv'
<1> SUFFICES ASSUME Inv, NEW c \in Address, NEW s \in Smes,
                    \/ \E n \in Scores : RegisterSme(c, s, n) \/ UpdateSmeScore(c, s, n)
                    \/ \E n \in Limits : SetCreditLimit(c, s, n)
                    \/ \E v \in Address : ReassignSmeVerifier(c, s, v)
                    \/ IncrementInvoiceCount(s)
             PROVE  Inv'
  BY DEF Vouching
<1>1. profile[s] \in ProfileRecord /\ profile[s].invoices \in Nat
  BY ProfileTypes
<1>2. ASSUME NEW n \in Scores, RegisterSme(c, s, n) PROVE Inv'
  BY <1>2, RegisterSmeStep
<1>3. ASSUME NEW n \in Scores, UpdateSmeScore(c, s, n) PROVE Inv'
  <2> DEFINE p == [profile[s] EXCEPT !.score = n]
  <2>1. n \in 0..100
    BY ScoresOk
  <2>2. p \in ProfileRecord /\ p.verifier = profile[s].verifier /\ p.defaults = profile[s].defaults
    BY <1>1, <2>1 DEF ProfileRecord
  <2>3. Rewrite(c, s, p)
    BY <1>3 DEF UpdateSmeScore
  <2> HIDE DEF p
  <2>4. QED
    BY <2>2, <2>3, RewriteStep
<1>4. ASSUME NEW n \in Limits, SetCreditLimit(c, s, n) PROVE Inv'
  <2> DEFINE p == [profile[s] EXCEPT !.limit = n]
  <2>1. n \in Nat
    BY LimitsOk
  <2>2. p \in ProfileRecord /\ p.verifier = profile[s].verifier /\ p.defaults = profile[s].defaults
    BY <1>1, <2>1 DEF ProfileRecord
  <2>3. Rewrite(c, s, p)
    BY <1>4 DEF SetCreditLimit
  <2> HIDE DEF p
  <2>4. QED
    BY <2>2, <2>3, RewriteStep
<1>5. ASSUME NEW v \in Address, ReassignSmeVerifier(c, s, v) PROVE Inv'
  <2> DEFINE p == [profile[s] EXCEPT !.verifier = v]
  <2>1. p \in ProfileRecord /\ p.verifier = v /\ p.defaults = profile[s].defaults
    BY <1>1 DEF ProfileRecord
  <2>2. /\ profile' = [profile EXCEPT ![s] = p] /\ Known(s) /\ ~NeverIn(verifier[v])
        /\ UNCHANGED <<adminVars, verifierVars, attested, updatedAt, attestors, scored, defaulted,
                       tripped, dispute, settings, tiers, now>>
    BY <1>5 DEF ReassignSmeVerifier, Active, Registered, NeverIn
  <2> HIDE DEF p
  <2>3. QED
    BY <2>1, <2>2, ProfileStep
<1>6. ASSUME IncrementInvoiceCount(s) PROVE Inv'
  <2> DEFINE p == [profile[s] EXCEPT !.invoices = profile[s].invoices + 1]
  <2>1. p \in ProfileRecord /\ p.verifier = profile[s].verifier /\ p.defaults = profile[s].defaults
    BY <1>1 DEF ProfileRecord
  <2>2. /\ profile' = [profile EXCEPT ![s] = p] /\ Known(s)
        /\ UNCHANGED <<adminVars, verifierVars, attested, updatedAt, attestors, scored, defaulted,
                       tripped, dispute, settings, tiers, now>>
    BY <1>6 DEF IncrementInvoiceCount
  <2> HIDE DEF p
  <2>3. p.verifier \in Address /\ ~NeverIn(verifier[p.verifier])
    BY <2>1, <2>2, ProfileTypes
  <2>4. QED
    BY <2>1, <2>2, <2>3, ProfileStep
<1>7. QED
  BY <1>2, <1>3, <1>4, <1>5, <1>6

(* What a slash takes from a stake or a bond is at most all of it.         *)
LEMMA SlashBounded ==
  ASSUME Inv, NEW n \in Nat
  PROVE  Slash(n) \in Nat /\ Slash(n) <= n
<1> DEFINE rate == settings.percentage
<1>1. rate \in Nat /\ rate <= 10000
  <2>1. settings \in SettingsRecord
    BY DEF Inv, TypeOK, SettingsOk
  <2> DEFINE Percent == 0..10000
  <2>2. rate \in Percent
    <3>1. SettingsRecord = [minimum : Int, percentage : Percent, window : Int,
                            breaker : Breakers \union {NoBreaker}, minScore : Int]
      BY DEF SettingsRecord
    <3> HIDE DEF Percent
    <3>2. QED
      BY <2>1, <3>1
  <2> HIDE DEF rate
  <2>3. QED
    BY <2>2
<1>2. Slash(n) = (n * rate) \div 10000
  BY DEF Slash
<1> HIDE DEF rate
<1>3. (n * rate) \div 10000 \in 0..n
  BY <1>1, ShareOfWhole
<1>4. QED
  BY <1>2, <1>3

LEMMA StandingInRange ==
  ASSUME Inv, NEW v \in Address
  PROVE  /\ Standing(v) \in 0..MaxReputation
         /\ Disgraced(v) \in 0..MaxReputation
         /\ Min({MaxReputation, Standing(v) + 1}) \in 0..MaxReputation
<1>1. Standing(v) \in 0..MaxReputation
  BY VerifierTypes, RecordTypes, BoundsOk DEF Standing
<1>2. Disgraced(v) = IF 0 >= Standing(v) - Penalty THEN 0 ELSE Standing(v) - Penalty
  BY <1>1, BoundsOk, MaxPair DEF Disgraced
<1>3. Disgraced(v) \in 0..MaxReputation
  BY <1>1, <1>2, BoundsOk
<1>4. MaxReputation \in Int /\ Standing(v) + 1 \in Int
  BY <1>1, BoundsOk
<1>5. Min({MaxReputation, Standing(v) + 1}) =
        IF MaxReputation <= Standing(v) + 1 THEN MaxReputation ELSE Standing(v) + 1
  BY <1>4, MinPair
<1>6. QED
  BY <1>1, <1>3, <1>5, BoundsOk

LEMMA RepaymentStep ==
  ASSUME Inv, NEW a, NEW s \in Smes, RecordSuccessfulRepayment(a, s)
  PROVE  Inv'
<1> DEFINE v   == profile[s].verifier
           old == verifier[v]
           m   == Min({MaxReputation, Standing(v) + 1})
           r   == [old EXCEPT !.reputation = m]
<1>1. v \in Address /\ ~NeverIn(old)
  BY ProfileTypes DEF RecordSuccessfulRepayment
<1>2. /\ verifier' = [verifier EXCEPT ![v] = r]
      /\ UNCHANGED <<adminVars, primary, held, overdrawn, scoreVars, dispute, settings, tiers, now>>
  BY DEF RecordSuccessfulRepayment
<1>3. old \in VerifierRecord /\ RecordOk(old) /\ m \in -1..MaxReputation
  BY <1>1, VerifierTypes, StandingInRange
<1> HIDE DEF v, m
<1>4. /\ r \in VerifierRecord /\ r.flag = old.flag /\ r.stake = old.stake
      /\ r.bond = old.bond /\ r.status = old.status /\ r.removed = old.removed
      /\ r.disputes = old.disputes
  BY <1>3 DEF VerifierRecord
<1> HIDE DEF r
<1>5. RecordOk(r) /\ ~NeverIn(r) /\ Reserve(r) = Reserve(old) /\ StatusOf(r) = Status(v)
  BY <1>1, <1>3, <1>4 DEF RecordOk, NeverIn, Reserve, StatusOf, Status
<1>6. held' \in Nat /\ held' - Reserve(r) >= held - Reserve(old)
  <2>1. held' = held /\ held \in Nat /\ Reserve(old) \in Nat
    BY <1>2, <1>3, ReserveCovers DEF Inv, TypeOK, FundsOk
  <2>2. QED
    BY <1>5, <2>1
<1>7. QED
  BY <1>1, <1>2, <1>4, <1>5, <1>6, VerifierStep

LEMMA RecordDefaultStep ==
  ASSUME Inv, NEW a, NEW s \in Smes, RecordDefault(a, s)
  PROVE  Inv'
<1>1. PICK v \in Address : v = profile[s].verifier /\ ~NeverIn(verifier[v]) /\ Known(s)
  BY ProfileTypes DEF RecordDefault
<1> DEFINE t   == Tier(profile[s].score)
           old == verifier[v]
           k   == IF old.stake > 0 THEN old.stake - Slash(old.stake) ELSE old.stake
           m   == Disgraced(v)
           r   == [flag |-> old.flag, stake |-> k, reputation |-> m, status |-> old.status,
                   requested |-> old.requested, removed |-> old.removed, bond |-> old.bond,
                   disputes |-> old.disputes]
           p   == [profile[s] EXCEPT !.defaults = profile[s].defaults + 1]
<1>2. t \in Tiers
  BY DEF Tier, Tiers
<1>3. /\ profile' = [profile EXCEPT ![s] = p]
      /\ defaulted' = [defaulted EXCEPT ![t] = @ + 1]
      /\ tripped' = [tripped EXCEPT ![t] = @ \/ Trips(t, defaulted[t] + 1)]
      /\ UNCHANGED <<adminVars, primary, held, overdrawn, attested, updatedAt, attestors, scored,
                     dispute, settings, tiers, now>>
  BY DEF RecordDefault
<1>4. /\ \A x \in Address : x # v => verifier'[x] = verifier[x]
      /\ verifier' = [x \in Address |-> verifier'[x]]
      /\ verifier'[v] = [old EXCEPT !.stake = k, !.reputation = m]
  BY <1>1 DEF RecordDefault, Inv, TypeOK, VerifiersOk
<1>5. old \in VerifierRecord /\ RecordOk(old) /\ m \in -1..MaxReputation /\ old.stake \in Int
      /\ old.bond \in Int /\ old.flag \in BOOLEAN
  <2>1. old \in VerifierRecord /\ RecordOk(old)
    BY <1>1, VerifierTypes
  <2>2. m \in 0..MaxReputation
    BY <1>1, StandingInRange
  <2>3. QED
    BY <2>1, <2>2, RecordTypes
<1>6. k \in Int /\ k <= old.stake /\ (old.stake <= 0 => k = old.stake)
  <2>1. CASE old.stake > 0
    BY <1>5, <2>1, SlashBounded
  <2>2. CASE ~(old.stake > 0)
    BY <1>5, <2>2
  <2>3. QED
    BY <1>5, <2>1, <2>2
<1> HIDE DEF k, m, t
<1>7. verifier'[v] = r
  BY <1>4, <1>5 DEF VerifierRecord
<1>8. r \in VerifierRecord
  BY <1>5, <1>6 DEF VerifierRecord
<1>9. /\ r.flag = old.flag /\ r.stake = k /\ r.bond = old.bond /\ r.status = old.status
      /\ r.removed = old.removed /\ r.disputes = old.disputes
  OBVIOUS
<1> HIDE DEF r
<1>10. verifier' = [verifier EXCEPT ![v] = r]
  BY <1>4, <1>7 DEF Inv, TypeOK, VerifiersOk
<1>11. RecordOk(r) /\ ~NeverIn(r) /\ StatusOf(r) = Status(v)
  BY <1>1, <1>5, <1>6, <1>9 DEF RecordOk, NeverIn, StatusOf, Status
<1>12. Reserve(r) <= Reserve(old) /\ Reserve(r) \in Nat /\ Reserve(old) \in Nat
  <2>1. Reserve(r) \in Nat /\ Reserve(old) \in Nat
    BY <1>5, <1>8, <1>11, ReserveCovers
  <2>2. QED
    BY <1>5, <1>6, <1>9, <2>1 DEF Reserve
<1>13. held' \in Nat /\ overdrawn' \in Nat
       /\ held' + overdrawn' - Reserve(r) >= held + overdrawn - Reserve(old)
  <2>1. held' = held /\ overdrawn' = overdrawn /\ held \in Nat /\ overdrawn \in Nat
    BY <1>3 DEF Inv, TypeOK, FundsOk
  <2>2. QED
    BY <1>12, <2>1
<1>14. StatusOf(r) # "Removed" => Cardinality(OpenAbout(v)') <= r.disputes
  <2>1. OpenAbout(v)' = OpenAbout(v)
    BY <1>3 DEF OpenAbout
  <2>2. Status(v) # "Removed" => Cardinality(OpenAbout(v)) <= old.disputes
    BY <1>1, VerifierTypes DEF VerifierOk
  <2>3. QED
    BY <1>9, <1>11, <2>1, <2>2
<1>15. /\ VerifiersOk' /\ Covered' /\ FundsOk' /\ (\A x \in Address : VerifierOk(x)')
       /\ \A x \in Address : NeverIn(verifier'[x]) => NeverIn(verifier[x])
  <2>1. UNCHANGED attestors /\ primary' = primary /\ \A x \in Address : x # v => dispute'[x] = dispute[x]
    BY <1>3
  <2>2. QED
    BY <1>1, <1>8, <1>10, <1>11, <1>13, <1>14, <2>1, OneVerifier
<1>16. p \in ProfileRecord /\ p.verifier = v /\ p.defaults = profile[s].defaults + 1
  BY <1>1, ProfileTypes DEF ProfileRecord
<1> HIDE DEF p
<1>17. profile'[s] = p /\ \A x \in Smes : x # s => profile'[x] = profile[x]
  BY <1>3 DEF Inv, TypeOK, ProfilesOk
<1>18. Known(s)' /\ \A x \in Smes : Known(x)' <=> Known(x)
  BY <1>1, <1>16, <1>17, AddressesOk DEF Known, NoProfile
<1>19. \A x \in Smes : ProfileOk(x)'
  <2>1. \A x \in Smes : ProfileOk(x)
    BY DEF Inv
  <2>2. ASSUME NEW x \in Smes PROVE ProfileOk(x)'
    BY <1>1, <1>15, <1>16, <1>17, <1>18, <2>1 DEF ProfileOk
  <2>3. QED
    BY <2>2
<1>20. ProfilesOk'
  BY <1>3, <1>16 DEF Inv, TypeOK, ProfilesOk
<1>21. TalliesOk'
  BY <1>2, <1>3 DEF Inv, TypeOK, TalliesOk, Trips
<1>22. TierCountsAddUp'
  <2>1. SumOver(defaulted', Tiers) = SumOver(defaulted, Tiers) + 1
    <3>1. /\ \A x \in Tiers : defaulted[x] \in Int
          /\ defaulted'[t] = defaulted[t] + 1
          /\ \A x \in Tiers \ {t} : defaulted'[x] = defaulted[x]
      BY <1>2, <1>3 DEF Inv, TypeOK, TalliesOk
    <3>2. QED
      BY <1>2, <3>1, TiersFinite, OneMore
  <2> DEFINE f == [x \in Smes |-> profile[x].defaults]
             g == [x \in Smes |-> profile'[x].defaults]
  <2>2. SumOver(g, Smes) = SumOver(f, Smes) + 1
    <3>1. /\ \A x \in Smes : f[x] \in Int
          /\ g[s] = f[s] + 1
          /\ \A x \in Smes \ {s} : g[x] = f[x]
      BY <1>16, <1>17, ProfileTypes
    <3> HIDE DEF f, g
    <3>2. QED
      BY <3>1, FinitelyMany, OneMore
  <2>3. {x \in Smes : Known(x)'} = {x \in Smes : Known(x)}
    BY <1>18
  <2>4. TierCountsAddUp
    BY DEF Inv
  <2>5. QED
    BY <1>3, <2>1, <2>2, <2>3, <2>4 DEF TierCountsAddUp
<1>23. AttestsOk' /\ Attested'
  BY <1>3, AttestsKept
<1>24. QED
  BY <1>3, <1>15, <1>19, <1>20, <1>21, <1>22, <1>23, RestKept DEF Inv, TypeOK

-------------------------------------------------------------------------------
(* Disputes.                                                               *)

(* A step that changes the keys of one verifier and one dispute about it.  *)
LEMMA DisputeStep ==
  ASSUME Inv, NEW v \in Address, NEW subject \in Smes, NEW r \in VerifierRecord, RecordOk(r),
         ~NeverIn(r), ~NeverIn(verifier[v]), verifier' = [verifier EXCEPT ![v] = r],
         NEW outcome \in {"open", "resolved"},
         dispute' = [dispute EXCEPT ![v][subject] = outcome],
         StatusOf(r) # "Removed" => Cardinality(OpenAbout(v)') <= r.disputes,
         held' \in Nat, overdrawn' \in Nat,
         held' + overdrawn' - Reserve(r) >= held + overdrawn - Reserve(verifier[v]),
         UNCHANGED <<adminVars, primary, scoreVars, settings, tiers, now>>
  PROVE  Inv'
<1>1. dispute \in [Address -> [Smes -> {"none", "open", "resolved"}]]
  BY DEF Inv, TypeOK, DisputesOk
<1>2. DisputesOk' /\ \A x \in Address : x # v => dispute'[x] = dispute[x]
  BY <1>1 DEF DisputesOk
<1>3. UNCHANGED <<profile, attested, attestors, scored, defaulted, tripped>>
  BY DEF scoreVars
<1>4. /\ VerifiersOk' /\ Covered' /\ FundsOk' /\ (\A x \in Address : VerifierOk(x)')
      /\ \A x \in Address : NeverIn(verifier'[x]) => NeverIn(verifier[x])
  BY <1>2, <1>3, OneVerifier
<1>5. ProfilesOk' /\ (\A s \in Smes : ProfileOk(s)')
  BY <1>3, <1>4, ProfilesKept
<1>6. TalliesOk' /\ TierCountsAddUp'
  BY <1>3, TalliesKept DEF Inv, TypeOK, TalliesOk
<1>7. AttestsOk' /\ Attested'
  BY <1>3, AttestsKept
<1>8. QED
  BY <1>2, <1>4, <1>5, <1>6, <1>7, RestKept DEF Inv, TypeOK

(* The open disputes about a verifier, before and after.                   *)
LEMMA OpenChange ==
  ASSUME Inv, NEW v \in Address, NEW subject \in Smes, NEW outcome,
         dispute' = [dispute EXCEPT ![v][subject] = outcome]
  PROVE  /\ outcome = "open" => OpenAbout(v)' = OpenAbout(v) \union {subject}
         /\ outcome = "resolved" => OpenAbout(v)' = OpenAbout(v) \ {subject}
         /\ IsFiniteSet(OpenAbout(v)) /\ Cardinality(OpenAbout(v)) \in Nat
<1>1. dispute \in [Address -> [Smes -> {"none", "open", "resolved"}]]
  BY DEF Inv, TypeOK, DisputesOk
<1>2. dispute'[v][subject] = outcome /\ \A s \in Smes : s # subject => dispute'[v][s] = dispute[v][s]
  BY <1>1
<1>3. IsFiniteSet(OpenAbout(v))
  <2>1. OpenAbout(v) \subseteq Smes
    BY DEF OpenAbout
  <2>2. QED
    BY <2>1, FinitelyMany, FS_Subset
<1>4. Cardinality(OpenAbout(v)) \in Nat
  BY <1>3, FS_CardinalityType
<1>5. QED
  BY <1>2, <1>3, <1>4 DEF OpenAbout

LEMMA RaiseDisputeStep ==
  ASSUME Inv, NEW v \in Address, NEW s \in Smes, RaiseDispute(v, s)
  PROVE  Inv'
<1> DEFINE old == verifier[v]
           n   == old.disputes + 1
           r   == [old EXCEPT !.disputes = n]
<1>1. /\ old.bond >= 0 /\ old.disputes < MaxCount
      /\ dispute' = [dispute EXCEPT ![v][s] = "open"] /\ verifier' = [verifier EXCEPT ![v] = r]
      /\ UNCHANGED <<adminVars, primary, held, overdrawn, scoreVars, settings, tiers, now>>
  BY DEF RaiseDispute
<1>2. old \in VerifierRecord /\ RecordOk(old) /\ old.disputes \in Nat /\ VerifierOk(v)
  BY VerifierTypes, RecordTypes
<1>3. n \in 0..MaxCount
  BY <1>1, <1>2, BoundsOk
<1> HIDE DEF n
<1>4. /\ r \in VerifierRecord /\ r.flag = old.flag /\ r.stake = old.stake
      /\ r.bond = old.bond /\ r.status = old.status /\ r.removed = old.removed
      /\ r.disputes = n /\ r.reputation = old.reputation
  BY <1>2, <1>3 DEF VerifierRecord
<1> HIDE DEF r
<1>5. ~NeverIn(old)
  BY <1>1, <1>2 DEF RecordOk
<1>6. RecordOk(r) /\ ~NeverIn(r) /\ Reserve(r) = Reserve(old) /\ StatusOf(r) = Status(v)
  BY <1>2, <1>4, <1>5 DEF RecordOk, NeverIn, Reserve, StatusOf, Status
<1>7. held' \in Nat /\ overdrawn' \in Nat
      /\ held' + overdrawn' - Reserve(r) >= held + overdrawn - Reserve(old)
  <2>1. held' = held /\ overdrawn' = overdrawn /\ held \in Nat /\ overdrawn \in Nat
    BY <1>1 DEF Inv, TypeOK, FundsOk
  <2>2. Reserve(old) \in Nat
    BY <1>2, ReserveCovers
  <2>3. QED
    BY <1>6, <2>1, <2>2
<1>8. StatusOf(r) # "Removed" => Cardinality(OpenAbout(v)') <= r.disputes
  <2>1. /\ OpenAbout(v)' = OpenAbout(v) \union {s} /\ IsFiniteSet(OpenAbout(v))
        /\ Cardinality(OpenAbout(v)) \in Nat
    BY <1>1, OpenChange
  <2>2. Cardinality(OpenAbout(v)') <= Cardinality(OpenAbout(v)) + 1 /\ Cardinality(OpenAbout(v)') \in Nat
    BY <2>1, FS_AddElement
  <2>3. Status(v) # "Removed" => Cardinality(OpenAbout(v)) <= old.disputes
    BY <1>2 DEF VerifierOk
  <2>4. QED
    BY <1>2, <1>4, <1>6, <2>1, <2>2, <2>3 DEF n
<1>9. QED
  BY <1>1, <1>4, <1>5, <1>6, <1>7, <1>8, DisputeStep

LEMMA ResolveDisputeStep ==
  ASSUME Inv, NEW a, NEW v \in Address, NEW s \in Smes, NEW slash \in BOOLEAN,
         ResolveDispute(a, v, s, slash)
  PROVE  Inv'
<1> DEFINE old    == verifier[v]
           amount == IF slash THEN Slash(old.bond) ELSE 0
           n      == OneLess(old.disputes)
           k      == IF amount > 0 THEN old.stake - amount ELSE old.stake
           b      == old.bond - amount
           m      == IF slash THEN Disgraced(v) ELSE old.reputation
           r      == [flag |-> old.flag, stake |-> k, reputation |-> m, status |-> old.status,
                      requested |-> old.requested, removed |-> old.removed, bond |-> b, disputes |-> n]
<1>1. /\ dispute[v][s] = "open" /\ dispute' = [dispute EXCEPT ![v][s] = "resolved"]
      /\ slash => old.bond >= 0 /\ held >= amount
      /\ held' = held - amount
      /\ overdrawn' = IF old.flag THEN overdrawn ELSE overdrawn + amount
      /\ UNCHANGED <<adminVars, primary, scoreVars, settings, tiers, now>>
  BY DEF ResolveDispute, Registered
<1>2. old \in VerifierRecord /\ RecordOk(old) /\ VerifierOk(v)
  BY VerifierTypes
<1>3. old.disputes \in Nat /\ old.disputes <= MaxCount /\ old.bond \in Int /\ old.stake \in Int
      /\ old.flag \in BOOLEAN /\ old.reputation \in -1..MaxReputation
  BY <1>2, RecordTypes, BoundsOk
<1>4. ~NeverIn(old)
  BY <1>1, <1>2 DEF VerifierOk
<1>5. old.bond \in Nat
  BY <1>2, <1>3, <1>4 DEF RecordOk
<1>6. amount \in Nat /\ amount <= old.bond
  BY <1>5, SlashBounded
<1>7. n = IF 0 >= old.disputes - 1 THEN 0 ELSE old.disputes - 1
  BY <1>3, MaxPair DEF OneLess
<1>8. m \in -1..MaxReputation
  <2>1. Disgraced(v) \in 0..MaxReputation
    BY StandingInRange
  <2>2. QED
    BY <1>3, <2>1
<1>9. verifier' = [verifier EXCEPT ![v] = r]
  <2>1. CASE slash
    <3>1. SlashBond(v, amount) = [old EXCEPT !.bond = b, !.stake = k, !.reputation = m, !.disputes = n]
      BY <2>1 DEF SlashBond
    <3>2. verifier' = [verifier EXCEPT ![v] = SlashBond(v, amount)]
      BY <2>1 DEF ResolveDispute
    <3> HIDE DEF b, k, m, n, amount
    <3>3. old \in VerifierRecord
      BY <1>2
    <3> HIDE DEF old
    <3>4. SlashBond(v, amount) = r
      BY <3>1, <3>3 DEF VerifierRecord
    <3>5. QED
      BY <3>2, <3>4
  <2>2. CASE ~slash
    <3>1. amount = 0 /\ k = old.stake /\ b = old.bond /\ m = old.reputation
      BY <1>3, <2>2
    <3>2. [old EXCEPT !.disputes = n] = r
      BY <1>2, <3>1 DEF VerifierRecord
    <3>3. verifier' = [verifier EXCEPT ![v] = [old EXCEPT !.disputes = n]]
      BY <2>2 DEF ResolveDispute
    <3>4. QED
      BY <3>2, <3>3
  <2>3. QED
    BY <2>1, <2>2
<1>10. /\ r.flag = old.flag /\ r.stake = k /\ r.bond = b /\ r.status = old.status
       /\ r.removed = old.removed /\ r.disputes = n
  OBVIOUS
<1>11. k \in Int /\ b \in Nat /\ n \in 0..MaxCount
  BY <1>3, <1>5, <1>6, <1>7, BoundsOk
<1>12. k = old.stake - amount /\ b = old.bond - amount
  BY <1>3, <1>6
<1> HIDE DEF k, b, n, m, amount
<1>13. r \in VerifierRecord
  BY <1>2, <1>8, <1>11 DEF VerifierRecord
<1> HIDE DEF r
<1>14. RecordOk(r) /\ ~NeverIn(r) /\ StatusOf(r) = Status(v)
  BY <1>2, <1>3, <1>4, <1>6, <1>10, <1>11, <1>12 DEF RecordOk, NeverIn, StatusOf, Status
<1>15. held' \in Nat /\ overdrawn' \in Nat
       /\ held' + overdrawn' - Reserve(r) >= held + overdrawn - Reserve(old)
  <2>1. held \in Nat /\ overdrawn \in Nat
    BY DEF Inv, TypeOK, FundsOk
  <2>2. held >= amount
    BY <1>1, <2>1 DEF amount
  <2>3. Reserve(old) \in Nat /\ Reserve(r) \in Nat
    BY <1>2, <1>13, <1>14, ReserveCovers
  <2>4. CASE old.flag
    <3>1. Reserve(r) = Reserve(old) - amount
      BY <1>3, <1>5, <1>6, <1>10, <1>12, <2>4 DEF Reserve
    <3>2. QED
      BY <1>1, <1>6, <2>1, <2>2, <2>3, <2>4, <3>1
  <2>5. CASE ~old.flag
    <3>1. Reserve(r) = 0 /\ Reserve(old) = 0
      BY <1>10, <2>5 DEF Reserve
    <3>2. QED
      BY <1>1, <1>6, <2>1, <2>2, <2>5, <3>1
  <2>6. QED
    BY <2>4, <2>5
<1>16. StatusOf(r) # "Removed" => Cardinality(OpenAbout(v)') <= r.disputes
  <2>1. /\ OpenAbout(v)' = OpenAbout(v) \ {s} /\ IsFiniteSet(OpenAbout(v))
        /\ Cardinality(OpenAbout(v)) \in Nat
    <3>1. dispute' = [dispute EXCEPT ![v][s] = "resolved"]
      BY <1>1
    <3>2. QED
      BY <3>1, OpenChange
  <2>2. s \in OpenAbout(v)
    BY <1>1 DEF OpenAbout
  <2>3. Cardinality(OpenAbout(v)') = Cardinality(OpenAbout(v)) - 1
    BY <2>1, <2>2, FS_RemoveElement
  <2>4. Status(v) # "Removed" => Cardinality(OpenAbout(v)) <= old.disputes
    BY <1>2 DEF VerifierOk
  <2>5. QED
    BY <1>3, <1>7, <1>10, <1>14, <2>1, <2>3, <2>4
<1>17. QED
  BY <1>1, <1>4, <1>9, <1>13, <1>14, <1>15, <1>16, DisputeStep

-------------------------------------------------------------------------------
(* Scores, sub-accounts, settings and administration.                      *)

LEMMA ScoringStep ==
  ASSUME Inv, NEW c \in Address, NEW d \in Debtors, NEW score \in Scores, SetDebtorScore(c, d, score)
  PROVE  Inv'
<1>1. /\ attested' = [attested EXCEPT ![d][c] = score]
      /\ attestors' = [attestors EXCEPT ![d] = @ \union {c}]
      /\ verifier[c].reputation >= MinReputation
      /\ UNCHANGED <<adminVars, verifierVars, profile, scored, defaulted, tripped, dispute, settings,
                     tiers, now>>
  BY DEF SetDebtorScore, Reputable
<1>2. UNCHANGED <<verifier, primary, held, overdrawn>>
  BY <1>1 DEF verifierVars
<1>3. score \in 0..100
  BY ScoresOk
<1>4. attested \in [Debtors -> [Address -> -1..100]] /\ attestors \in [Debtors -> SUBSET Address]
  BY DEF Inv, TypeOK, AttestsOk
<1>5. attested' \in [Debtors -> [Address -> -1..100]] /\ attestors' \in [Debtors -> SUBSET Address]
  BY <1>1, <1>3, <1>4
<1>6. Attested'
  <2>1. ASSUME NEW x \in Debtors, NEW v \in Address
        PROVE  (v \in attestors'[x]) <=> (attested'[x][v] # -1)
    <3>1. (v \in attestors[x]) <=> (attested[x][v] # -1)
      BY DEF Inv, Attested
    <3>2. CASE x = d /\ v = c
      BY <1>1, <1>3, <1>4, <3>2
    <3>3. CASE ~(x = d /\ v = c)
      BY <1>1, <1>4, <3>1, <3>3
    <3>4. QED
      BY <3>2, <3>3
  <2>2. QED
    BY <2>1 DEF Attested
<1>7. AttestsOk'
  BY <1>5, <1>6, AveragesOk DEF AttestsOk
<1>8. ~NeverIn(verifier[c])
  <2>1. RecordOk(verifier[c]) /\ MinReputation >= 0
    BY VerifierTypes, BoundsOk
  <2>2. verifier[c].reputation # -1
    BY <1>1, <2>1, BoundsOk
  <2>3. QED
    BY <2>1, <2>2 DEF RecordOk
<1>9. ASSUME NEW v \in Address PROVE VerifierOk(v)'
  <2>1. OpenAbout(v)' = OpenAbout(v) /\ Status(v)' = Status(v)
    BY <1>1, <1>2 DEF OpenAbout, Status
  <2>2. VerifierOk(v)
    BY VerifierTypes
  <2>3. NeverIn(verifier[v]) => \A x \in Debtors : v \notin attestors'[x]
    BY <1>1, <1>4, <1>8, <2>2 DEF VerifierOk
  <2>4. QED
    BY <1>1, <1>2, <2>1, <2>2, <2>3 DEF VerifierOk
<1>10. VerifiersOk' /\ FundsOk'
  BY <1>2 DEF Inv, TypeOK, VerifiersOk, FundsOk
<1>11. Covered'
  BY <1>2 DEF Inv, Covered, Reserves
<1>12. ProfilesOk' /\ (\A s \in Smes : ProfileOk(s)')
  BY <1>1, <1>2, ProfilesKept
<1>13. TalliesOk' /\ TierCountsAddUp'
  BY <1>1, TalliesKept DEF Inv, TypeOK, TalliesOk
<1>14. QED
  BY <1>1, <1>6, <1>7, <1>9, <1>10, <1>11, <1>12, <1>13, RestKept DEF Inv, TypeOK

(* A step that changes neither verifiers, profiles nor attestations.       *)
LEMMA OtherStep ==
  ASSUME Inv, UNCHANGED <<verifier, held, overdrawn, attestors, dispute, profile, attested, scored, defaulted>>,
         primary' \in [Address -> Address \union {Nobody}], tripped' \in [Tiers -> BOOLEAN],
         AdminOk', SettingsOk'
  PROVE  Inv'
<1>1. VerifiersOk' /\ FundsOk'
  BY DEF Inv, TypeOK, VerifiersOk, FundsOk
<1>2. Covered'
  BY DEF Inv, Covered, Reserves
<1>3. \A x \in Address : VerifierOk(x)'
  BY VerifierTypes DEF VerifierOk, Status, OpenAbout
<1>4. ProfilesOk' /\ (\A s \in Smes : ProfileOk(s)')
  BY ProfilesKept
<1>5. TalliesOk' /\ TierCountsAddUp'
  BY TalliesKept
<1>6. AttestsOk' /\ Attested'
  BY AttestsKept
<1>7. QED
  BY <1>1, <1>2, <1>3, <1>4, <1>5, <1>6, RestKept DEF Inv, TypeOK

LEMMA SubdelegatingStep == Inv /\ Subdelegating => Inv'
<1> SUFFICES ASSUME Inv, NEW p \in Address, NEW sub \in Address,
                    AddSubAccount(p, sub) \/ RemoveSubAccount(p, sub)
             PROVE  Inv'
  BY DEF Subdelegating
<1>1. primary \in [Address -> Address \union {Nobody}] /\ TypeOK
  BY DEF Inv, TypeOK, VerifiersOk
<1>2. primary' \in [Address -> Address \union {Nobody}]
  BY <1>1 DEF AddSubAccount, RemoveSubAccount
<1>3. UNCHANGED <<adminVars, verifier, held, overdrawn, scoreVars, dispute, settings, tiers, now>>
  BY DEF AddSubAccount, RemoveSubAccount
<1>4. UNCHANGED <<attestors, profile, attested, scored, defaulted, tripped>>
  BY <1>3 DEF scoreVars
<1>5. tripped' \in [Tiers -> BOOLEAN]
  BY <1>1, <1>4 DEF TypeOK, TalliesOk
<1>6. AdminOk' /\ SettingsOk'
  BY <1>3, RestKept
<1>7. QED
  BY <1>2, <1>3, <1>4, <1>5, <1>6, OtherStep

LEMMA ConfigureStep ==
  ASSUME Inv, NEW s \in SettingsRecord, Configure(s)
  PROVE  Inv'
<1>1. /\ settings' = s /\ UNCHANGED <<adminVars, verifierVars, scoreVars, dispute, tiers, now>>
  BY DEF Configure
<1>2. UNCHANGED <<verifier, primary, held, overdrawn>>
  BY <1>1 DEF verifierVars
<1>3. UNCHANGED <<attestors, profile, attested, scored, defaulted, tripped>>
  BY <1>1 DEF scoreVars
<1>4. /\ primary' \in [Address -> Address \union {Nobody}] /\ tripped' \in [Tiers -> BOOLEAN]
      /\ SettingsOk'
  BY <1>1, <1>2, <1>3 DEF Inv, TypeOK, TalliesOk, VerifiersOk, SettingsOk
<1>5. AdminOk'
  BY <1>1, RestKept
<1>6. QED
  BY <1>1, <1>2, <1>3, <1>4, <1>5, OtherStep

LEMMA SettingStep == Inv /\ Setting => Inv'
<1> SUFFICES ASSUME Inv, NEW a \in Address,
                    \/ \E m \in Amounts : SetMinimumStake(a, m)
                    \/ \E p \in Percentages : SetSlashPercentage(a, p)
                    \/ \E m \in Scores : SetMinDebtorScore(a, m)
                    \/ ConfigureSlashing(a, 1)
                    \/ \E b \in Breakers : ConfigureCircuitBreaker(a, b)
                    \/ \E t \in Tiers : ClearCircuitBreakerTier(a, t)
                    \/ \E b \in Boundaries : UpdateRiskTierDefinition(a, b)
             PROVE  Inv'
  BY DEF Setting
<1> DEFINE Percent == 0..10000
           Rules   == Breakers \union {NoBreaker}
<1>r. SettingsRecord = [minimum : Int, percentage : Percent, window : Int, breaker : Rules,
                        minScore : Int]
  BY DEF SettingsRecord
<1>q. Breakers \subseteq Rules
  OBVIOUS
<1>p. Percentages \subseteq Percent
  BY PercentagesOk
<1> HIDE DEF Percent, Rules
<1>1. settings \in SettingsRecord /\ TypeOK
  BY DEF Inv, TypeOK, SettingsOk
<1>2. ASSUME NEW m \in Amounts, SetMinimumStake(a, m) PROVE Inv'
  <2>1. m \in Int
    BY AmountsOk
  <2>2. [settings EXCEPT !.minimum = m] \in SettingsRecord
    BY <1>1, <1>r, <2>1
  <2>3. QED
    BY <1>2, <2>2, ConfigureStep DEF SetMinimumStake
<1>3. ASSUME NEW p \in Percentages, SetSlashPercentage(a, p) PROVE Inv'
  <2>1. p \in Percent
    BY <1>p
  <2>2. [settings EXCEPT !.percentage = p] \in SettingsRecord
    BY <1>1, <1>r, <2>1
  <2>3. QED
    BY <1>3, <2>2, ConfigureStep DEF SetSlashPercentage
<1>4. ASSUME NEW m \in Scores, SetMinDebtorScore(a, m) PROVE Inv'
  <2>1. m \in Int
    <3>1. m \in 0..100
      BY ScoresOk
    <3>2. QED
      BY <3>1
  <2>2. [settings EXCEPT !.minScore = m] \in SettingsRecord
    BY <1>1, <1>r, <2>1
  <2>3. QED
    BY <1>4, <2>2, ConfigureStep DEF SetMinDebtorScore
<1>5. ASSUME ConfigureSlashing(a, 1) PROVE Inv'
  <2>1. [settings EXCEPT !.window = 1] \in SettingsRecord
    BY <1>1, <1>r
  <2>2. QED
    BY <1>5, <2>1, ConfigureStep DEF ConfigureSlashing
<1>6. ASSUME NEW b \in Breakers, ConfigureCircuitBreaker(a, b) PROVE Inv'
  <2>1. [settings EXCEPT !.breaker = b] \in SettingsRecord
    BY <1>1, <1>r, <1>q
  <2>2. QED
    BY <1>6, <2>1, ConfigureStep DEF ConfigureCircuitBreaker
<1>7. ASSUME NEW t \in Tiers, ClearCircuitBreakerTier(a, t) PROVE Inv'
  <2>1. /\ tripped' = [tripped EXCEPT ![t] = FALSE]
        /\ UNCHANGED <<adminVars, verifierVars, profile, attested, updatedAt, attestors, scored,
                       defaulted, dispute, settings, tiers, now>>
    BY <1>7 DEF ClearCircuitBreakerTier
  <2>2. UNCHANGED <<verifier, primary, held, overdrawn>>
    BY <2>1 DEF verifierVars
  <2>3. primary' \in [Address -> Address \union {Nobody}] /\ tripped' \in [Tiers -> BOOLEAN]
    BY <1>1, <2>1, <2>2 DEF TypeOK, TalliesOk, VerifiersOk
  <2>4. AdminOk' /\ SettingsOk'
    BY <2>1, RestKept
  <2>5. QED
    BY <2>1, <2>2, <2>3, <2>4, OtherStep
<1>8. ASSUME NEW b \in Boundaries, UpdateRiskTierDefinition(a, b) PROVE Inv'
  <2>1. UNCHANGED <<adminVars, verifierVars, scoreVars, dispute, settings, now>>
    BY <1>8 DEF UpdateRiskTierDefinition
  <2>2. UNCHANGED <<verifier, primary, held, overdrawn, attestors, profile, attested, scored, defaulted, tripped>>
    BY <2>1 DEF verifierVars, scoreVars
  <2>3. primary' \in [Address -> Address \union {Nobody}] /\ tripped' \in [Tiers -> BOOLEAN]
    BY <1>1, <2>2 DEF TypeOK, TalliesOk, VerifiersOk
  <2>4. AdminOk' /\ SettingsOk'
    BY <2>1, RestKept
  <2>5. QED
    BY <2>1, <2>2, <2>3, <2>4, OtherStep
<1>9. QED
  BY <1>2, <1>3, <1>4, <1>5, <1>6, <1>7, <1>8

LEMMA AdministeringStep == Inv /\ (Administering \/ Tick \/ UNCHANGED vars) => Inv'
<1> SUFFICES ASSUME Inv, Administering \/ Tick \/ UNCHANGED vars PROVE Inv'
  OBVIOUS
<1>1. TypeOK
  BY DEF Inv
<1>2. UNCHANGED <<verifierVars, scoreVars, dispute, settings>>
  BY DEF Administering, Tick, vars, TransferAdmin, AcceptAdmin, CancelAdminProposal, Administer,
     SetAccessControl, ProposeUpgrade, ExecuteUpgrade, Upgrade, AccessControlMoves
<1>3. UNCHANGED <<verifier, primary, held, overdrawn, attestors, profile, attested, scored, defaulted, tripped>>
  BY <1>2 DEF verifierVars, scoreVars
<1>4. primary' \in [Address -> Address \union {Nobody}] /\ tripped' \in [Tiers -> BOOLEAN]
  BY <1>1, <1>3 DEF TypeOK, TalliesOk, VerifiersOk
<1>5. SettingsOk'
  <2>1. now' \in 0..MaxTime
    BY <1>1, BoundsOk DEF Administering, Tick, vars, TransferAdmin, AcceptAdmin, CancelAdminProposal,
       Administer, SetAccessControl, ProposeUpgrade, ExecuteUpgrade, Upgrade, AccessControlMoves,
       TypeOK, SettingsOk
  <2>2. QED
    BY <1>1, <1>2, <2>1 DEF TypeOK, SettingsOk
<1>6. AdminOk'
  BY <1>1 DEF Administering, Tick, vars, adminVars, TransferAdmin, AcceptAdmin, CancelAdminProposal,
     Administer, SetAccessControl, ProposeUpgrade, ExecuteUpgrade, Upgrade, AccessControlMoves,
     TypeOK, AdminOk
<1>7. QED
  BY <1>2, <1>3, <1>4, <1>5, <1>6, OtherStep

-------------------------------------------------------------------------------
(* The invariant.                                                          *)

LEMMA InitInv == Init => Inv
<1> SUFFICES ASSUME Init PROVE Inv
  OBVIOUS
<1>1. /\ admin = Deployer /\ pendingAdmin = Nobody /\ held = 0 /\ overdrawn = 0 /\ now = 0
      /\ verifier = [a \in Address |-> Stranger] /\ primary = [a \in Address |-> Nobody]
  BY DEF Init
<1>2. /\ profile = [s \in Smes |-> NoProfile]
      /\ attested = [d \in Debtors |-> [a \in Address |-> -1]] /\ attestors = [d \in Debtors |-> {}]
      /\ dispute = [a \in Address |-> [s \in Smes |-> "none"]]
  BY DEF Init
<1>3. scored = [t \in Tiers |-> 0] /\ defaulted = [t \in Tiers |-> 0] /\ tripped = [t \in Tiers |-> FALSE]
  BY DEF Init
<1>4. settings \in SettingsRecord
  <2>1. settings \in [minimum : {Min(Amounts)}, percentage : Percentages, window : {-1},
                      breaker : {NoBreaker}, minScore : {0}]
    BY DEF Init
  <2>2. Min(Amounts) \in Int
    <3>1. Amounts \in SUBSET Nat /\ Amounts # {}
      BY AmountsOk
    <3>2. \E n \in Amounts : \A m \in Amounts : n <= m
      BY <3>1, SmallestElement
    <3>3. Min(Amounts) \in Amounts
      BY <3>2 DEF Min
    <3>4. \A n \in Amounts : n \in Int
      BY <3>1
    <3>5. QED
      BY <3>3, <3>4
  <2>3. \A p \in Percentages : p \in 0..10000
    BY PercentagesOk
  <2>4. QED
    BY <2>1, <2>2, <2>3 DEF SettingsRecord
<1>5. AdminOk /\ FundsOk /\ SettingsOk
  BY <1>1, <1>4, AddressesOk, BoundsOk DEF AdminOk, FundsOk, SettingsOk
<1>6. /\ Stranger \in VerifierRecord /\ RecordOk(Stranger) /\ NeverIn(Stranger)
      /\ Stranger.bond = -1 /\ Reserve(Stranger) = 0
  BY BoundsOk DEF Stranger, VerifierRecord, RecordOk, NeverIn, Reserve
<1>7. VerifiersOk
  BY <1>1, <1>6 DEF VerifiersOk
<1>8. ProfilesOk /\ \A s \in Smes : ~Known(s)
  BY <1>2 DEF ProfilesOk, ProfileRecord, NoProfile, Known
<1>9. TalliesOk
  BY <1>3 DEF TalliesOk
<1>10. DisputesOk
  BY <1>2 DEF DisputesOk
<1>11. \A d \in Debtors : Average(d) = -1 /\ DebtorRiskTier(d) = "None"
  BY <1>2 DEF Average, DebtorRiskTier
<1>12. AttestsOk
  <2>1. attested \in [Debtors -> [Address -> -1..100]] /\ attestors \in [Debtors -> SUBSET Address]
    BY <1>2
  <2>2. QED
    BY <1>11, <2>1 DEF AttestsOk
<1>13. Covered
  <2>1. \A v \in Address : Reserves[v] = 0
    BY <1>1, <1>6 DEF Reserves
  <2>2. SumOver(Reserves, Address) = 0
    BY <2>1, FinitelyMany, SumZero
  <2>3. QED
    BY <1>1, <2>2 DEF Covered
<1>14. Attested
  BY <1>2 DEF Attested
<1>15. TierCountsAddUp
  <2>1. SumOver(scored, Tiers) = 0 /\ SumOver(defaulted, Tiers) = 0
    BY <1>3, TiersFinite, SumZero
  <2> DEFINE f == [s \in Smes |-> profile[s].defaults]
  <2>2. \A s \in Smes : f[s] = 0
    BY <1>2 DEF NoProfile
  <2> HIDE DEF f
  <2>3. SumOver(f, Smes) = 0
    BY <2>2, FinitelyMany, SumZero
  <2>4. {s \in Smes : Known(s)} = {}
    BY <1>8
  <2>5. QED
    BY <2>1, <2>3, <2>4, FS_EmptySet DEF TierCountsAddUp, f
<1>16. ASSUME NEW v \in Address PROVE VerifierOk(v)
  <2>1. verifier[v] = Stranger /\ Status(v) = "Removed"
    BY <1>1 DEF Status, Stranger
  <2>2. QED
    BY <1>2, <1>6, <2>1 DEF VerifierOk
<1>17. QED
  BY <1>5, <1>7, <1>8, <1>9, <1>10, <1>12, <1>13, <1>14, <1>15, <1>16 DEF Inv, TypeOK, ProfileOk

LEMMA StepInv == Inv /\ [Next]_vars => Inv'
<1> SUFFICES ASSUME Inv, [Next]_vars PROVE Inv'
  OBVIOUS
<1>1. CASE Joining
  BY <1>1, JoiningStep
<1>2. CASE Staking
  BY <1>2, TopUpStakeStep DEF Staking
<1>3. CASE Subdelegating
  BY <1>3, SubdelegatingStep
<1>4. CASE Vouching
  BY <1>4, VouchingStep
<1>5. CASE Outcomes
  BY <1>5, RecordDefaultStep, RepaymentStep DEF Outcomes
<1>6. CASE Scoring
  BY <1>6, ScoringStep DEF Scoring
<1>7. CASE Disputing
  BY <1>7, RaiseDisputeStep, ResolveDisputeStep DEF Disputing
<1>8. CASE Setting
  BY <1>8, SettingStep
<1>9. CASE Administering \/ Tick \/ UNCHANGED vars
  BY <1>9, AdministeringStep
<1>10. QED
  BY <1>1, <1>2, <1>3, <1>4, <1>5, <1>6, <1>7, <1>8, <1>9 DEF Next

LEMMA InvAlways == Spec => []Inv
<1>1. Init => Inv
  BY InitInv
<1>2. Inv /\ [Next]_vars => Inv'
  BY StepInv
<1>3. QED
  BY <1>1, <1>2, PTL DEF Spec

(* The stored keys have their types: a reputation stays on its scale, a    *)
(* bond is never overdrawn, and an average of scores is a score.           *)
THEOREM TypeCorrect == Spec => []TypeOK
<1>1. Inv => TypeOK
  BY DEF Inv
<1>2. QED
  BY <1>1, InvAlways, PTL

(* Whatever record_default and resolve_dispute slash, in any order, the    *)
(* contract holds what it owes its verifiers, up to what disputes took     *)
(* from verifiers that had been removed.                                   *)
THEOREM StakesAlwaysCovered == Spec => []StakesCovered
<1>1. ASSUME Inv PROVE StakesCovered
  <2> DEFINE f == [v \in Address |-> Max({0, verifier[v].stake})]
  <2>1. \A v \in Address : f[v] \in Int /\ Reserves[v] \in Int /\ f[v] <= Reserves[v]
    <3>1. SUFFICES ASSUME NEW v \in Address PROVE f[v] \in Int /\ Reserves[v] \in Int /\ f[v] <= Reserves[v]
      OBVIOUS
    <3>2. Reserve(verifier[v]) \in Nat /\ verifier[v].stake <= Reserve(verifier[v]) /\ verifier[v].stake \in Int
      BY <1>1, VerifierTypes, ReserveCovers, RecordTypes
    <3>3. Max({0, verifier[v].stake}) = IF 0 >= verifier[v].stake THEN 0 ELSE verifier[v].stake
      BY <3>2, MaxPair
    <3>4. QED
      BY <3>2, <3>3 DEF Reserves
  <2> HIDE DEF f
  <2>2. SumOver(f, Address) <= SumOver(Reserves, Address)
    BY <2>1, FinitelyMany, SumMonotone
  <2>3. SumOver(f, Address) \in Int /\ SumOver(Reserves, Address) \in Int
    BY <2>1, FinitelyMany, SumInt
  <2>4. held + overdrawn >= SumOver(Reserves, Address) /\ held \in Nat /\ overdrawn \in Nat
    BY <1>1 DEF Inv, Covered, TypeOK, FundsOk
  <2>5. held + overdrawn >= SumOver(f, Address)
    BY <2>2, <2>3, <2>4
  <2>6. QED
    BY <2>5 DEF StakesCovered, f
<1>2. QED
  BY <1>1, InvAlways, PTL

(* The counters remove_verifier and the circuit breaker decide by follow   *)
(* the disputes, profiles and defaults they stand for.                     *)
THEOREM CountersAlwaysKept == Spec => []CountersKept
<1>1. Inv => CountersKept
  BY DEF Inv, VerifierOk, CountersKept, DisputesCounted
<1>2. QED
  BY <1>1, InvAlways, PTL

-------------------------------------------------------------------------------
(* Steps.                                                                  *)

TermsMove ==
  \A s \in Smes :
    Known(s) /\ <<profile'[s].score, profile'[s].limit>> # <<profile[s].score, profile[s].limit>> =>
      Active(profile[s].verifier) /\ Reputable(profile[s].verifier)

LEMMA TermsStep == Inv /\ [Next]_vars => [TermsMove]_vars
<1> SUFFICES ASSUME Inv, [Next]_vars PROVE TermsMove
  OBVIOUS
<1>1. CASE UNCHANGED profile
  BY <1>1 DEF TermsMove
<1>2. ASSUME NEW s \in Smes, \A x \in Smes : x # s => profile'[x] = profile[x],
             \/ ~Known(s) \/ (Active(profile[s].verifier) /\ Reputable(profile[s].verifier))
             \/ profile'[s].score = profile[s].score /\ profile'[s].limit = profile[s].limit
      PROVE  TermsMove
  BY <1>2 DEF TermsMove
<1>3. \A x \in Smes : profile[x] \in ProfileRecord
  BY ProfileTypes
<1>4. profile \in [Smes -> ProfileRecord]
  BY DEF Inv, TypeOK, ProfilesOk
<1>5. ASSUME Vouching PROVE TermsMove
  <2>1. PICK c \in Address, s \in Smes :
          \/ \E n \in Scores : RegisterSme(c, s, n) \/ UpdateSmeScore(c, s, n)
          \/ \E n \in Limits : SetCreditLimit(c, s, n)
          \/ \E v \in Address : ReassignSmeVerifier(c, s, v)
          \/ IncrementInvoiceCount(s)
    BY <1>5 DEF Vouching
  <2>2. ASSUME NEW n, RegisterSme(c, s, n) PROVE TermsMove
    <3>1. ~Known(s) /\ \A x \in Smes : x # s => profile'[x] = profile[x]
      BY <1>4, <2>2 DEF RegisterSme
    <3>2. QED
      BY <3>1 DEF TermsMove
  <2>3. ASSUME NEW terms, Rewrite(c, s, terms) PROVE TermsMove
    <3>1. Active(profile[s].verifier) /\ Reputable(profile[s].verifier)
      BY <2>3, Resolved DEF Rewrite
    <3>2. \A x \in Smes : x # s => profile'[x] = profile[x]
      BY <1>4, <2>3 DEF Rewrite
    <3>3. QED
      BY <1>2, <3>1, <3>2
  <2>4. ASSUME NEW v, ReassignSmeVerifier(c, s, v) PROVE TermsMove
    <3>1. /\ \A x \in Smes : x # s => profile'[x] = profile[x]
          /\ profile'[s].score = profile[s].score /\ profile'[s].limit = profile[s].limit
      BY <1>4, <2>4 DEF ReassignSmeVerifier, ProfileRecord
    <3>2. QED
      BY <1>2, <3>1
  <2>5. ASSUME IncrementInvoiceCount(s) PROVE TermsMove
    <3>1. /\ \A x \in Smes : x # s => profile'[x] = profile[x]
          /\ profile'[s].score = profile[s].score /\ profile'[s].limit = profile[s].limit
      BY <1>4, <2>5 DEF IncrementInvoiceCount, ProfileRecord
    <3>2. QED
      BY <1>2, <3>1
  <2>6. QED
    BY <2>1, <2>2, <2>3, <2>4, <2>5 DEF UpdateSmeScore, SetCreditLimit
<1>6. ASSUME Outcomes PROVE TermsMove
  <2>1. PICK a \in Address, s \in Smes : RecordDefault(a, s) \/ RecordSuccessfulRepayment(a, s)
    BY <1>6 DEF Outcomes
  <2>2. CASE RecordDefault(a, s)
    <3>1. /\ \A x \in Smes : x # s => profile'[x] = profile[x]
          /\ profile'[s].score = profile[s].score /\ profile'[s].limit = profile[s].limit
      BY <1>4, <2>2 DEF RecordDefault, ProfileRecord
    <3>2. QED
      BY <1>2, <3>1
  <2>3. CASE RecordSuccessfulRepayment(a, s)
    BY <1>1, <2>3 DEF RecordSuccessfulRepayment, scoreVars
  <2>4. QED
    BY <2>1, <2>2, <2>3
<1>7. CASE Joining \/ Staking \/ Subdelegating
  <2>1. CASE Joining
    <3>1. \A a, v, n : AddVerifier(a, v, n) => UNCHANGED profile
      BY DEF AddVerifier, scoreVars
    <3>2. \A a, v : RemoveVerifier(a, v) \/ FinalizeVerifierRemoval(a, v) => UNCHANGED profile
      BY DEF RemoveVerifier, FinalizeVerifierRemoval, Depart, scoreVars
    <3>3. \A a, v : \/ SuspendVerifier(a, v) \/ ReinstateVerifier(a, v)
                   \/ RequestVerifierRemoval(a, v) \/ CancelVerifierRemoval(a, v)
                   => UNCHANGED profile
      BY DEF SuspendVerifier, ReinstateVerifier, RequestVerifierRemoval, CancelVerifierRemoval, Move,
         scoreVars
    <3>4. QED
      BY <1>1, <2>1, <3>1, <3>2, <3>3 DEF Joining
  <2>2. CASE Staking
    BY <1>1, <2>2 DEF Staking, TopUpStake, scoreVars
  <2>3. CASE Subdelegating
    BY <1>1, <2>3 DEF Subdelegating, AddSubAccount, RemoveSubAccount, scoreVars
  <2>4. QED
    BY <1>7, <2>1, <2>2, <2>3
<1>8. CASE Scoring \/ Disputing
  BY <1>1, <1>8 DEF Scoring, Disputing, SetDebtorScore, RaiseDispute, ResolveDispute, scoreVars
<1>9. CASE Setting
  <2>1. \A new : Configure(new) => UNCHANGED profile
    BY DEF Configure, scoreVars
  <2>2. \A c, n : \/ SetMinimumStake(c, n) \/ SetSlashPercentage(c, n) \/ SetMinDebtorScore(c, n)
                 \/ ConfigureSlashing(c, n) \/ ConfigureCircuitBreaker(c, n)
                 => UNCHANGED profile
    BY <2>1 DEF SetMinimumStake, SetSlashPercentage, SetMinDebtorScore, ConfigureSlashing,
       ConfigureCircuitBreaker
  <2>3. QED
    BY <1>1, <1>9, <2>2 DEF Setting, ClearCircuitBreakerTier, UpdateRiskTierDefinition, scoreVars
<1>10. CASE Administering \/ Tick \/ UNCHANGED vars
  BY <1>1, <1>10 DEF Administering, Tick, vars, TransferAdmin, AcceptAdmin, CancelAdminProposal,
     Administer, SetAccessControl, ProposeUpgrade, ExecuteUpgrade, Upgrade, AccessControlMoves,
     scoreVars
<1>11. QED
  BY <1>5, <1>6, <1>7, <1>8, <1>9, <1>10 DEF Next

(* An SME's score and limit never move while the verifier answerable for   *)
(* it is suspended, leaving, removed or in bad standing.                   *)
THEOREM TermsAlwaysNeedAVerifier == Spec => TermsNeedAnActiveVerifier
<1>1. [][TermsMove]_vars => TermsNeedAnActiveVerifier
  BY PTL DEF TermsNeedAnActiveVerifier, TermsMove
<1>2. Inv /\ [Next]_vars => [TermsMove]_vars
  BY TermsStep
<1>3. QED
  BY <1>1, <1>2, InvAlways, PTL DEF Spec

SteadyMove ==
  \A d \in Debtors :
    Average(d)' # Average(d) =>
      \/ attested'[d] # attested[d]
      \/ \E v \in attestors[d] : \/ verifier'[v].removed # verifier[v].removed
                                 \/ verifier'[v].flag /\ ~verifier[v].flag

(* Who counts follows from the removal times of those who attested.        *)
LEMMA SteadyStep == Inv /\ Inv' => SteadyMove
<1> SUFFICES ASSUME Inv, Inv', NEW d \in Debtors, attested'[d] = attested[d],
                    \A v \in attestors[d] : verifier'[v].removed = verifier[v].removed
             PROVE  Average(d)' = Average(d)
  BY DEF SteadyMove
<1>1. attestors[d] \subseteq Address /\ attestors'[d] \subseteq Address
  BY DEF Inv, TypeOK, AttestsOk
<1>2. attestors'[d] = attestors[d]
  <2>1. \A v \in Address : (v \in attestors[d]) <=> (attested[d][v] # -1)
    BY DEF Inv, Attested
  <2>2. \A v \in Address : (v \in attestors'[d]) <=> (attested'[d][v] # -1)
    BY DEF Inv, Attested
  <2>3. QED
    BY <1>1, <2>1, <2>2
<1>3. ASSUME NEW v \in attestors[d] PROVE Counts(v)' <=> Counts(v)
  <2>1. v \in Address /\ v \in attestors'[d]
    BY <1>1, <1>2
  <2>2. ~NeverIn(verifier[v]) /\ RecordOk(verifier[v])
    BY <2>1 DEF Inv, VerifierOk
  <2>3. ~NeverIn(verifier'[v]) /\ RecordOk(verifier'[v])
    BY <2>1 DEF Inv, VerifierOk
  <2>4. Counts(v) <=> verifier[v].removed = -1
    BY <2>2 DEF Counts, Status, NeverIn, RecordOk
  <2>5. Counts(v)' <=> verifier'[v].removed = -1
    BY <2>3 DEF Counts, Status, NeverIn, RecordOk
  <2>6. QED
    BY <2>4, <2>5
<1>4. {v \in attestors[d] : Counts(v)}' = {v \in attestors[d] : Counts(v)}
  BY <1>2, <1>3
<1>5. QED
  BY <1>4 DEF Average

(* A debtor's average moves only with a new attestation or when one of its *)
(* attestors is formally removed or admitted anew.                         *)
THEOREM AverageAlwaysSteady == Spec => AverageIsSteady
<1>1. [][SteadyMove]_vars => AverageIsSteady
  BY PTL DEF AverageIsSteady, SteadyMove
<1>2. Inv /\ [Next]_vars => [SteadyMove]_vars
  BY StepInv, SteadyStep
<1>3. QED
  BY <1>1, <1>2, InvAlways, PTL DEF Spec
===============================================================================
