---------------------------- MODULE MCInvoiceNft ------------------------------
(***************************************************************************)
(* An instance of InvoiceNft for TLC.  The product of all its concerns is  *)
(* out of reach, so a behaviour keeps to one focus, chosen at the start:   *)
(* "all" takes every operation on one invoice; "mint" and "money" keep the *)
(* operations of one concern and give it more invoices, SMEs and time.     *)
(***************************************************************************)
EXTENDS InvoiceNft, TLC

CONSTANTS s1, s2, s3

VARIABLE focus

LimitTwo    == [s \in Sme |-> 2]
AnyScore    == [s \in Sme |-> CHOOSE sc \in Score : TRUE]
ThreePerTwo == {[max |-> 3, window |-> 2]}
OneToOne    == {[min |-> 1, max |-> 1]}

(* Sound: Init, the limits and the bounds below tell only s1 apart.        *)
Smes == Permutations({s2, s3})

Minting(S, In, n) ==
  \E s \in S :
    \/ \E inv \in In : MintInvoicePlain(s, inv)
    \/ \E k \in 0..n : \E batch \in [1..k -> In] : MintInvoicesBatch(s, k, batch)

Referring(S, In) == \E s, r \in S, inv \in In : MintInvoiceWithReferrer(s, inv, r)

Drafting ==
  \E s \in Sme, id \in Id :
    \/ \E inv \in Input : AmendInvoice(s, id, inv)
    \/ WithdrawInvoice(s, id)

Holding(s, id) ==
  \/ FlagMetadataMismatch(id) \/ AdminCorrectMetadataHash(id)
  \/ \E upheld \in BOOLEAN : ResolveMetadataDispute(id, upheld)
  \/ FreezeInvoice(id) \/ UnfreezeInvoice(id)
  \/ \E max \in 0..1 : FreezeSmeInvoices(s, max) \/ UnfreezeSmeInvoices(s, max)

(* Every operation on one invoice of s1, around two audited admin calls.   *)
AllNext ==
  /\ \/ Minting({s1}, Input, 1) /\ nextId' <= 2
     \/ Owner \/ Lifecycle \/ Holding(s1, 1) \/ Admin \/ Tick \/ TogglePause
  /\ audit'.total <= 2

(* The admin's calls alone, past the end of the audit ring.                *)
AdminNext == Admin \/ Tick \/ TogglePause

(* Referrals among three SMEs, and the mint quota over several windows.    *)
Smallest == {inv \in Input : inv.amount = 1 /\ inv.dueDate = MaxTime}

MintNext ==
  \/ Minting(Sme, Smallest, MaxBatch) \/ Referring(Sme, Smallest) \/ Tick
  \/ audit.total = 0 /\ \E r \in RateLimits : SetMintRateLimit(r)

(* Face values, exposure and the status machine, on two invoices.          *)
MoneyNext ==
  \/ Minting({s2, s3}, Input, MaxBatch) /\ nextId' <= 3
  \/ Drafting \/ Lifecycle \/ SetAuthorizedCallers \/ Tick

MCInit == Init /\ focus \in {"all", "admin", "mint", "money"}

MCNext ==
  /\ \/ focus = "all" /\ AllNext
     \/ focus = "admin" /\ AdminNext
     \/ focus = "mint" /\ MintNext
     \/ focus = "money" /\ MoneyNext
  /\ UNCHANGED focus

MCSpec == MCInit /\ [][MCNext]_<<vars, focus>>
===============================================================================
