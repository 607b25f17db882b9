----------------------------- MODULE MCRiskRegistry -----------------------------
(***************************************************************************)
(* Instances of RiskRegistry for TLC.  The focus of a behaviour is chosen  *)
(* by its initial state: the money of two verifiers under dispute, the     *)
(* SMEs they vouch for, the debtors they score, or administration.         *)
(***************************************************************************)
EXTENDS RiskRegistry

CONSTANTS a1, a2, a3, m1, m2

VARIABLE focus

MCBreakers   == {[threshold |-> 5000, sample |-> 1], [threshold |-> 10000, sample |-> 0]}
MCBoundaries == {<<10, 20, 60, 90>>, <<20, 20, 60, 80>>}

(* Only the given addresses ever register.                                 *)
Members(vs) == Joining /\ \A v \in Address \ vs : ~verifier'[v].flag

(* Two verifiers; disputes are about a2, which vouches for the one SME.    *)
Stakes ==
  \/ \E v \in {a2, a3} : AddVerifier(admin, v, 4) \/ RemoveVerifier(admin, v)
  \/ RequestVerifierRemoval(admin, a2) \/ CancelVerifierRemoval(admin, a2)
  \/ FinalizeVerifierRemoval(admin, a2)
  \/ TopUpStake(admin, a2, 4) /\ verifier[a2].stake <= 4
  \/ Disputing /\ dispute'[a3] = dispute[a3]
  \/ ConfigureSlashing(admin, 1)
  \/ RegisterSme(a2, m1, 10) \/ RecordDefault(admin, m1)

(* One verifier with a sub-account, two SMEs and the breaker.              *)
Profiles ==
  \/ Members({a2}) \/ Outcomes
  \/ Vouching /\ profile'[m2].invoices = 0 /\ profile'[m2].limit = 0 /\ profile'[m1].invoices < 2
  \/ \E p \in Address : AddSubAccount(p, a3) \/ RemoveSubAccount(p, a3)
  \/ \E b \in Breakers : ConfigureCircuitBreaker(admin, b)
  \/ \E t \in Tiers : tripped[t] /\ ClearCircuitBreakerTier(admin, t)

(* Two verifiers and a sub-account score one debtor.                       *)
Debts ==
  \/ Members({a2, a3}) \/ Scoring
  \/ \E p \in Address : AddSubAccount(p, a1) \/ RemoveSubAccount(p, a1)
  \/ \E n \in Scores : SetMinDebtorScore(admin, n)
  \/ ProposeUpgrade(admin) \/ ExecuteUpgrade(admin)

Rules == Members({a2}) \/ Administering \/ Setting

MCInit == focus \in {"stakes", "smes", "debtors", "admin"} /\ Init
MCNext ==
  /\ \/ focus = "stakes" /\ Stakes
     \/ focus = "smes" /\ Profiles
     \/ focus = "debtors" /\ Debts
     \/ focus = "admin" /\ Rules
     \/ focus \in {"stakes", "debtors"} /\ Tick
  /\ UNCHANGED focus
MCSpec == MCInit /\ [][MCNext]_<<vars, focus>>
===============================================================================
