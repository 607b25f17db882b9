--------------------------- MODULE DebtorAttestation ---------------------------
(***************************************************************************)
(* contracts/debtor_attestation, and the gate of the marketplace that asks *)
(* it about high-risk invoices.  Of the file's two merged versions this is *)
(* the one with nonces, which its tests call; store_record loads the state *)
(* anew and saves that, so the nonce its callers advanced is not kept.     *)
(* max_attestation_age is written and never read.                          *)
(***************************************************************************)
EXTENDS Integers, FiniteSets

CONSTANTS
  Invoice, Debtor, Relay, Nobody,
  FaceValue, HighRisk,    \* of each invoice; the ones of tier C
  ClaimAmounts, Expiries, \* what attestations state
  Nonces, Ages,
  AttestMaxTime           \* bound

VARIABLES
  relays, maxAge,
  attested,   \* records; NoRecord where absent
  nonces,     \* next nonce of each debtor
  wired,      \* the marketplace knows the attestation contract
  listedAs,   \* history: invoices listed, with how their gate was passed
  lastWord,   \* history: the latest accepted attestation or rejection
  attestNow

vars == <<relays, maxAge, attested, nonces, wired, listedAs, lastWord, attestNow>>
settings == <<relays, maxAge, wired>>

NoRecord == [status |-> "Pending", debtor |-> Nobody, amount |-> 0, expires |-> 0, relay |-> Nobody]

Init ==
  /\ relays = {} /\ maxAge \in Ages
  /\ attested = [id \in Invoice |-> NoRecord]
  /\ nonces = [d \in Debtor |-> 0]
  /\ wired = FALSE
  /\ listedAs = [id \in Invoice |-> "none"]
  /\ lastWord = [id \in Invoice |-> "none"]
  /\ attestNow = 0

SetMaxAttestationAge(n) == maxAge' = n /\ UNCHANGED <<relays, attested, nonces, wired, listedAs, lastWord, attestNow>>
AddRelay(r) == relays' = relays \cup {r} /\ UNCHANGED <<maxAge, attested, nonces, wired, listedAs, lastWord, attestNow>>
RemoveRelay(r) == relays' = relays \ {r} /\ UNCHANGED <<maxAge, attested, nonces, wired, listedAs, lastWord, attestNow>>

StoreRecord(id, d, amount, expires, r) ==
  /\ attested' = [attested EXCEPT ![id] =
       [status |-> "Confirmed", debtor |-> d, amount |-> amount, expires |-> expires, relay |-> r]]
  /\ lastWord' = [lastWord EXCEPT ![id] = "confirmed"]
  /\ UNCHANGED <<settings, nonces, listedAs, attestNow>>

(* Any address may attest, as the debtor of any invoice.                   *)
Attest(d, id, amount, expires, nonce) ==
  /\ expires > attestNow
  /\ nonce = nonces[d]
  /\ StoreRecord(id, d, amount, expires, Nobody)

AttestViaRelay(r, d, id, amount, expires, nonce) ==
  /\ r \in relays
  /\ expires > attestNow
  /\ nonce = nonces[d]
  /\ StoreRecord(id, d, amount, expires, r)

Rejected(rec) == [rec EXCEPT !.status = "Rejected"]

Reject(c, id) ==
  /\ attested[id] # NoRecord
  /\ c = attested[id].debtor \/ c \in relays
  /\ attested' = [attested EXCEPT ![id] = Rejected(@)]
  /\ lastWord' = [lastWord EXCEPT ![id] = "rejected"]
  /\ UNCHANGED <<settings, nonces, listedAs, attestNow>>

AttestationStatus(id) ==
  IF attested[id].status = "Confirmed" /\ attestNow > attested[id].expires THEN "Expired" ELSE attested[id].status

(* Mutant: a confirmation of any amount will do.                           *)
ConfirmedAnyAmount(id, expected) == attested[id].status = "Confirmed" /\ attestNow <= attested[id].expires

IsConfirmed(id, expected) ==
  /\ attested[id].status = "Confirmed"
  /\ attested[id].amount = expected
  /\ attestNow <= attested[id].expires

-----------------------------------------------------------------------------
(* The marketplace's gate                                                  *)

SetDebtorAttestation(b) == wired' = b /\ UNCHANGED <<relays, maxAge, attested, nonces, listedAs, lastWord, attestNow>>

RequireDebtorAttestationIfNeeded(id) == id \in HighRisk /\ wired => IsConfirmed(id, FaceValue[id])

ListInvoice(id) ==
  /\ listedAs[id] = "none"
  /\ RequireDebtorAttestationIfNeeded(id)
  /\ listedAs' = [listedAs EXCEPT ![id] = IF id \in HighRisk /\ wired THEN "attested" ELSE "free"]
  /\ UNCHANGED <<settings, attested, nonces, lastWord, attestNow>>

Tick == attestNow < AttestMaxTime /\ attestNow' = attestNow + 1 /\ UNCHANGED <<settings, attested, nonces, listedAs, lastWord>>

Next ==
  \/ \E n \in Ages : SetMaxAttestationAge(n)
  \/ \E r \in Relay : AddRelay(r) \/ RemoveRelay(r)
  \/ \E d \in Debtor, id \in Invoice, a \in ClaimAmounts, e \in Expiries, n \in Nonces :
       Attest(d, id, a, e, n) \/ \E r \in Relay : AttestViaRelay(r, d, id, a, e, n)
  \/ \E c \in Debtor \cup Relay, id \in Invoice : Reject(c, id)
  \/ \E b \in BOOLEAN : SetDebtorAttestation(b)
  \/ \E id \in Invoice : ListInvoice(id)
  \/ Tick

-----------------------------------------------------------------------------
(* What could be wrong                                                     *)

(* A rejection stands until somebody attests anew, expired or not.         *)
RejectionStands ==
  \A id \in Invoice : lastWord[id] = "rejected" => AttestationStatus(id) = "Rejected"

(* A high-risk invoice is listed through the gate only while the latest    *)
(* word of a debtor or a relay confirms exactly its face value, not        *)
(* expired: rejections, replacements and the passing of time in between    *)
(* count, and a rejection stands until somebody attests anew.              *)
GateStep ==
  /\ \A id \in Invoice : listedAs'[id] # listedAs[id] /\ listedAs'[id] = "attested" =>
       /\ lastWord[id] = "confirmed"
       /\ attested[id].amount = FaceValue[id]
       /\ AttestationStatus(id) = "Confirmed"
  /\ RejectionStands'
GateHolds == [][GateStep]_vars
=============================================================================
