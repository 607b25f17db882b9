----------------------------- MODULE ReferralRewards -----------------------------
(***************************************************************************)
(* contracts/referral_rewards: a fixed bonus to the referrer of each SME   *)
(* whose first invoice was repaid, out of an allocation the admin deposits.*)
(* The referrer and the first invoice are invoice_nft's.                   *)
(***************************************************************************)
EXTENDS Integers, FiniteSets

CONSTANTS
  Sme,
  Amounts,            \* deposits and donations, of any sign
  Bonus, Allocation,  \* fixed by initialize: 0 < Bonus <= Allocation
  MaxHeld             \* bound: tokens in the contract

VARIABLES
  funded, paid,   \* Funded, Paid
  rewarded,       \* Claimed
  held,           \* the contract's token balance
  referred,       \* SMEs with a referrer on record
  firstInvoice    \* status of the SME's first invoice

vars == <<funded, paid, rewarded, held, referred, firstInvoice>>
nftVars == <<referred, firstInvoice>>

Init ==
  /\ funded = 0 /\ paid = 0 /\ rewarded = {} /\ held = 0
  /\ referred = {}
  /\ firstInvoice = [s \in Sme |-> "none"]

Deposit(amount) ==
  /\ amount > 0
  /\ funded + amount <= Allocation
  /\ funded' = funded + amount
  /\ held' = held + amount
  /\ UNCHANGED <<paid, rewarded, nftVars>>

Affordable == funded - paid >= Bonus /\ held >= Bonus

(* Where it does not apply it changes nothing and answers false.           *)
ClaimReferralReward(s) ==
  /\ s \notin rewarded
  /\ s \in referred
  /\ firstInvoice[s] = "Repaid"
  /\ Affordable
  /\ rewarded' = rewarded \cup {s}
  /\ paid' = paid + Bonus
  /\ held' = held - Bonus
  /\ UNCHANGED <<funded, nftVars>>

(* Tokens sent to the contract without deposit.                            *)
Donate(amount) ==
  /\ amount > 0 /\ held + amount <= MaxHeld
  /\ held' = held + amount
  /\ UNCHANGED <<funded, paid, rewarded, nftVars>>

(* invoice_nft: a referrer is recorded no later than the first mint.       *)
Mint(s, withReferrer) ==
  /\ firstInvoice[s] = "none"
  /\ firstInvoice' = [firstInvoice EXCEPT ![s] = "Created"]
  /\ referred' = IF withReferrer THEN referred \cup {s} ELSE referred
  /\ UNCHANGED <<funded, paid, rewarded, held>>
Close(s, status) ==
  /\ firstInvoice[s] = "Created"
  /\ firstInvoice' = [firstInvoice EXCEPT ![s] = status]
  /\ UNCHANGED <<funded, paid, rewarded, held, referred>>

Next ==
  \/ \E n \in Amounts : Deposit(n) \/ Donate(n)
  \/ \E s \in Sme : ClaimReferralReward(s)
  \/ \E s \in Sme, b \in BOOLEAN : Mint(s, b)
  \/ \E s \in Sme, status \in {"Repaid", "Defaulted"} : Close(s, status)

Spec == Init /\ [][Next]_vars

(* What is paid is one bonus per rewarded SME, never more than the admin   *)
(* deposited or the allocation allows, whatever else the contract holds;   *)
(* and the deposits not yet paid out are still there.                      *)
BonusesCovered ==
  /\ paid = Bonus * Cardinality(rewarded)
  /\ paid <= funded /\ funded <= Allocation
  /\ held >= funded - paid
=============================================================================
