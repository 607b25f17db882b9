--------------------------- MODULE InvoiceLifecycle ---------------------------
(***************************************************************************)
(* What the invoice_nft contract promises the rest of the protocol about   *)
(* one invoice, and nothing else: identifiers are handed out in order and  *)
(* never again, an invoice is financed at most once, and Repaid, Defaulted *)
(* and Gone are final.  The only step back is Listed -> Created, the       *)
(* withdrawal of a listing.  InvoiceNft implements this specification.     *)
(***************************************************************************)
EXTENDS Naturals

CONSTANT MaxId            \* how many identifiers the instance can hand out

VARIABLES phase,          \* phase of every identifier
          minted          \* how many identifiers were handed out

Id == 1..MaxId

Phase == {"Unborn", "Created", "Listed", "Funded", "Repaid", "Defaulted", "Gone"}

Init == /\ phase = [id \in Id |-> "Unborn"]
        /\ minted = 0

(* One or more fresh identifiers are born together (a batch).              *)
Birth ==
  \E n \in 1..MaxId :
    /\ minted + n <= MaxId
    /\ minted' = minted + n
    /\ phase' = [id \in Id |-> IF id \in (minted + 1)..(minted + n)
                                 THEN "Created" ELSE phase[id]]

(* The phases one step may lead to.                                        *)
Successor ==
  [Unborn    |-> {},
   Created   |-> {"Listed", "Gone"},
   Listed    |-> {"Created", "Funded"},
   Funded    |-> {"Repaid", "Defaulted"},
   Repaid    |-> {"Gone"},
   Defaulted |-> {"Gone"},
   Gone      |-> {}]

(* One invoice moves, all others stay.                                     *)
Move ==
  \E id \in Id : \E p \in Successor[phase[id]] :
    /\ phase' = [phase EXCEPT ![id] = p]
    /\ UNCHANGED minted

Next == Birth \/ Move

Spec == Init /\ [][Next]_<<phase, minted>>

===============================================================================
