-------------------------------- MODULE Tranche --------------------------------
(***************************************************************************)
(* contracts/tranche: a bundle of invoices that investors put amounts on.  *)
(* No tokens move and nothing closes a tranche.                            *)
(***************************************************************************)
EXTENDS Integers, Sequences, Sums

CONSTANTS
  Investor,
  FaceValues,   \* [invoice -> amount], the NFT contract's
  Bundles,      \* sequences of invoices
  Stakes,       \* amounts funded, of any sign
  MaxTranches, MaxFunded \* bounds

VARIABLES
  tranches,   \* Tranche(id); the next id is kept as Tranche(0)
  stakes      \* TranchePositions(id, investor): contributed

vars == <<tranches, stakes>>

Init == tranches = <<>> /\ stakes = <<>>

(* The sum of get_invoice over the list; an unknown invoice traps.         *)
TotalFaceValue(ids) == SumOver([k \in DOMAIN ids |-> FaceValues[ids[k]]], DOMAIN ids)

CreateTranche(ids) ==
  /\ ids # <<>>
  /\ \A k \in DOMAIN ids : ids[k] \in DOMAIN FaceValues
  /\ Len(tranches) < MaxTranches
  /\ tranches' = Append(tranches, [invoices |-> ids, faceValue |-> TotalFaceValue(ids), funded |-> 0])
  /\ stakes' = Append(stakes, [i \in Investor |-> 0])

Funded(t, amount) == [t EXCEPT !.funded = @ + amount]

(* A second amount of one investor replaces the position.                  *)
FundTranche(i, id, amount) ==
  /\ amount > 0
  /\ tranches[id].funded + amount <= MaxFunded
  /\ tranches' = [tranches EXCEPT ![id] = Funded(@, amount)]
  /\ stakes' = [stakes EXCEPT ![id][i] = amount]

Next ==
  \/ \E ids \in Bundles : CreateTranche(ids)
  \/ \E i \in Investor, id \in DOMAIN tranches, amount \in Stakes : FundTranche(i, id, amount)

Spec == Init /\ [][Next]_vars

(* The positions of a tranche never claim more than was put into it, in    *)
(* whatever order and however often the investors fund it.                 *)
PositionsWithinFunding ==
  \A id \in DOMAIN tranches :
    SumOver(stakes[id], Investor) <= tranches[id].funded
=============================================================================
