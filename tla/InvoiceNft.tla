----------------------------- MODULE InvoiceNft -------------------------------
(***************************************************************************)
(* contracts/invoice_nft: the invoice records, their status machine, the   *)
(* per-SME exposure counter, the mint quota, first-mint referrals, the     *)
(* metadata-hash dispute and the freeze flag.                              *)
(*                                                                         *)
(* Every entry point is one Soroban transaction: it either applies all of  *)
(* its writes or none.  An action is one successful call, its guard the    *)
(* conjunction of the call's checks; a failed call is a stuttering step.   *)
(***************************************************************************)
EXTENDS Integers, FiniteSets, Sums

CONSTANTS
  Sme,            \* addresses that mint invoices
  NoSme,          \* no address
  MaxId,          \* bound: identifiers 1..MaxId
  Amount,         \* face values
  Score,          \* risk scores
  MaxTime,        \* bound: ledger timestamps 0..MaxTime
  CreditLimit,    \* risk_registry: credit_limit of each SME's profile, 0 = none
  ProfileScore,   \* risk_registry: risk_score of each SME's profile
  MaxBatch,       \* MAX_BATCH_MINT_SIZE
  MaxHops,        \* longest referral chain that is walked (32)
  RateLimits,     \* rate limits an admin may configure
  Ceilings,       \* risk-score ceilings an admin may configure
  Bounds,         \* amount bounds an admin may configure for a tier
  AuditSize,      \* MAX_AUDIT_LOG_SIZE
  MaxAudit,       \* bound: audited admin calls
  UpgradeDelay    \* UPGRADE_TIMELOCK_DELAY

Id     == 1..MaxId
Time   == 0..MaxTime
NoTime == -1
NoId   == 0
Tier   == {"AAA", "AA", "A", "B", "C"}
Status == {"Created", "Listed", "Funded", "Repaid", "Defaulted"}

ASSUME ConstantsOk ==
  /\ MaxId \in Nat /\ MaxTime \in Nat /\ MaxBatch \in Nat /\ MaxHops \in Nat
  /\ AuditSize \in Nat \ {0} /\ MaxAudit \in Nat /\ UpgradeDelay \in Nat
  /\ Amount \subseteq Nat \ {0}
  /\ Score \subseteq 0..100 /\ Ceilings \subseteq 0..100
  /\ NoSme \notin Sme
  /\ CreditLimit \in [Sme -> Nat] /\ ProfileScore \in [Sme -> Score]
  /\ RateLimits \subseteq [max : Nat \ {0}, window : Nat \ {0}]
  /\ \A b \in Bounds : b \in [min : Nat, max : Nat] /\ b.min <= b.max

VARIABLES
  hot,            \* InvoiceHot(id); status "None" where the key is absent
  hashed,         \* ids whose InvoiceCold carries a metadata_hash
  nextId,         \* NextId
  exposure,       \* OutstandingExposure(sme)
  drift,          \* history: what amend_invoice changed face values by, per SME
  smeIds,         \* SmeInvoiceIds(sme)
  window,         \* SmeMintWindow(sme)
  firstMint,      \* FirstMint(sme)
  referrer,       \* SmeReferrer(sme)
  frozen,         \* ids with an InvoiceFrozen key
  dispute,        \* MetadataDispute(id)
  config,         \* instance storage an admin sets
  audit,          \* admin audit ring: AuditLogTotal, AuditLogHead, AuditEntry
  now, paused     \* ledger time; access_control's pause flag

invoiceVars == <<hot, hashed, nextId, smeIds>>
mintVars    == <<window, firstMint, referrer>>
holdVars    == <<frozen, dispute>>
envVars     == <<now, paused>>
vars == <<invoiceVars, exposure, drift, mintVars, holdVars, config, audit, envVars>>

-------------------------------------------------------------------------------
(* Records.                                                                *)

NoHot == [sme |-> NoSme, amount |-> 0, dueDate |-> 0, riskScore |-> 0,
          status |-> "None", createdAt |-> 0, fundedAt |-> NoTime, repaidAt |-> NoTime]

NewHot(s, inv) ==
  [sme |-> s, amount |-> inv.amount, dueDate |-> inv.dueDate,
   riskScore |-> inv.riskScore, status |-> "Created", createdAt |-> now,
   fundedAt |-> NoTime, repaidAt |-> NoTime]

(* What a caller supplies for one invoice.                                 *)
Input == [amount : Amount, dueDate : Time, riskScore : Score]

NoWindow == [start |-> NoTime, used |-> 0]
NoLimit  == [max |-> 0, window |-> 0]      \* MintRateLimit key absent
NoBounds == [min |-> 0, max |-> -1]        \* AmountBounds(tier) key absent

Live(id)     == hot[id].status # "None"
Terminal(id) == hot[id].status \in {"Repaid", "Defaulted"}

RiskTier(score) ==
  CASE score <= 20 -> "AAA"
    [] score \in 21..40 -> "AA"
    [] score \in 41..60 -> "A"
    [] score \in 61..80 -> "B"
    [] OTHER -> "C"

(* initialize: an empty registry, unwired, unthrottled, ceiling 100.       *)
Init ==
  /\ hot = [id \in Id |-> NoHot]
  /\ hashed = {}
  /\ nextId = 1
  /\ exposure = [s \in Sme |-> 0]
  /\ drift = [s \in Sme |-> 0]
  /\ smeIds = [s \in Sme |-> {}]
  /\ window = [s \in Sme |-> NoWindow]
  /\ firstMint = [s \in Sme |-> NoId]
  /\ referrer = [s \in Sme |-> NoSme]
  /\ frozen = {}
  /\ dispute = [id \in Id |-> "None"]
  /\ config = [callers |-> FALSE, registry |-> FALSE, rate |-> NoLimit,
               ceiling |-> 100, bounds |-> [t \in Tier |-> NoBounds],
               upgradeAt |-> NoTime]
  /\ audit = [total |-> 0, head |-> 0, slot |-> [i \in 0..(AuditSize - 1) |-> NoTime]]
  /\ now = 0
  /\ paused = FALSE

-------------------------------------------------------------------------------
(* Helpers.                                                                *)

(* append_audit_entry: overwrite the slot at head, advance head in a ring. *)
AppendAuditEntry ==
  /\ audit.total < MaxAudit
  /\ audit' = [total |-> audit.total + 1,
               head  |-> (audit.head + 1) % AuditSize,
               slot  |-> [audit.slot EXCEPT ![audit.head] = audit.total]]

(* consume_mint_quota: the window after charging `count` mints.            *)
Charge(w, count) ==
  IF config.rate = NoLimit THEN w
  ELSE IF w.start = NoTime \/ now - w.start >= config.rate.window
    THEN [start |-> now, used |-> count]
    ELSE [w EXCEPT !.used = @ + count]

WithinQuota(w) == config.rate = NoLimit \/ w.used <= config.rate.max

(* mint_invoice charges twice: before and after the credit-limit check.    *)
ChargeMint(w) == Charge(Charge(w, 1), 1)

(* mint_invoices_batch charges once for the whole batch.                   *)
ChargeBatch(w, n) == Charge(w, n)

(* What mint_invoice and mint_invoices_batch both ask of one input.        *)
InputOk(inv) ==
  /\ inv.dueDate > now
  /\ inv.riskScore <= config.ceiling

AmountWithinBounds(inv) ==
  LET b == config.bounds[RiskTier(inv.riskScore)]
  IN  b = NoBounds \/ inv.amount \in b.min .. b.max

CreditLimitOk(s, newExposure) ==
  ~config.registry \/ CreditLimit[s] = 0 \/ newExposure <= CreditLimit[s]

(* Where the chain of referrers by leads from r, after n hops.             *)
Walk(by, r) ==
  LET walk[n \in 0..MaxHops] ==
        IF n = 0 THEN r
        ELSE IF walk[n - 1] = NoSme THEN NoSme ELSE by[walk[n - 1]]
  IN  walk

ReferralChain(r) == Walk(referrer, r)

(* Mutant: only direct self-referral is refused.                           *)
ReferrerOkNoWalk(s, r) == r # s /\ firstMint[s] = NoId

(* The checks on a referrer: not oneself, only at the first mint, and the  *)
(* chain from it ends within MaxHops without meeting s.                    *)
ReferrerOk(s, r) ==
  /\ r # s
  /\ firstMint[s] = NoId
  /\ \A n \in 0..(MaxHops - 1) : ReferralChain(r)[n] # s
  /\ ReferralChain(r)[MaxHops] = NoSme

(* Mutant: only the first id of a batch reaches the index.                 *)
AppendFirstSmeInvoiceId(s, ids) ==
  [smeIds EXCEPT ![s] = @ \union {id \in ids : id = nextId}]

(* append_sme_invoice_id, append_sme_invoice_ids.                          *)
AppendSmeInvoiceIds(s, ids) == [smeIds EXCEPT ![s] = @ \union ids]

(* Store a batch of n invoices under consecutive fresh identifiers.        *)
StoreMinted(s, n, batch) ==
  LET ids == nextId .. (nextId + n - 1)
  IN  /\ nextId + n - 1 <= MaxId
      /\ hot' = [id \in Id |-> IF id \in ids THEN NewHot(s, batch[id - nextId + 1])
                                             ELSE hot[id]]
      /\ nextId' = nextId + n
      /\ smeIds' = AppendSmeInvoiceIds(s, ids)
      /\ firstMint' = IF n > 0 /\ firstMint[s] = NoId
                        THEN [firstMint EXCEPT ![s] = nextId] ELSE firstMint
      /\ UNCHANGED hashed

(* The invoice record and its metadata disappear.                          *)
RemoveInvoice(id) ==
  /\ hot' = [hot EXCEPT ![id] = NoHot]
  /\ hashed' = hashed \ {id}
  /\ UNCHANGED nextId

(* Mutant: the counter is floored at zero.                                 *)
ReleaseExposureFloored(id) ==
  LET left == exposure[hot[id].sme] - hot[id].amount
  IN  exposure' = [exposure EXCEPT ![hot[id].sme] = IF left < 0 THEN 0 ELSE left]

(* saturating_sub on i128: no floor at zero.                               *)
ReleaseExposure(id) ==
  exposure' = [exposure EXCEPT ![hot[id].sme] = @ - hot[id].amount]

-------------------------------------------------------------------------------
(* Minting.                                                                *)

MintInvoice(s, inv) ==
  LET newExposure == exposure[s] + inv.amount
  IN  /\ ~paused
      /\ InputOk(inv)
      /\ AmountWithinBounds(inv)
      /\ WithinQuota(ChargeMint(window[s]))
      /\ CreditLimitOk(s, newExposure)
      /\ window' = [window EXCEPT ![s] = ChargeMint(@)]
      /\ exposure' = [exposure EXCEPT ![s] = newExposure]
      /\ StoreMinted(s, 1, [i \in 1..1 |-> inv])
      /\ UNCHANGED <<drift, holdVars, config, audit, envVars>>

MintInvoicePlain(s, inv) == MintInvoice(s, inv) /\ UNCHANGED referrer

MintInvoiceWithReferrer(s, inv, r) ==
  /\ ReferrerOk(s, r)
  /\ MintInvoice(s, inv)
  /\ referrer' = [referrer EXCEPT ![s] = r]

MintInvoicesBatch(s, n, batch) ==
  /\ ~paused
  /\ \A i \in 1..n : InputOk(batch[i])
  /\ WithinQuota(ChargeBatch(window[s], n))
  /\ window' = [window EXCEPT ![s] = ChargeBatch(@, n)]
  /\ exposure' = [exposure EXCEPT ![s] = @ + SumOver([i \in 1..n |-> batch[i].amount], 1..n)]
  /\ StoreMinted(s, n, batch)
  /\ UNCHANGED <<drift, referrer, holdVars, config, audit, envVars>>

-------------------------------------------------------------------------------
(* The owner's operations on a Created invoice.                            *)

(* Mutant: the status is not checked.                                      *)
OwnedAnyStatus(s, id) == Live(id) /\ hot[id].sme = s

OwnedDraft(s, id) == hot[id].status = "Created" /\ hot[id].sme = s

AmendInvoice(s, id, inv) ==
  /\ ~paused
  /\ inv.dueDate > now
  /\ OwnedDraft(s, id)
  /\ hot' = [hot EXCEPT ![id] = [@ EXCEPT !.amount = inv.amount, !.dueDate = inv.dueDate,
                                          !.riskScore = inv.riskScore]]
  /\ drift' = [drift EXCEPT ![s] = @ + inv.amount - hot[id].amount]
  /\ UNCHANGED <<hashed, nextId, smeIds, exposure, mintVars, holdVars, config, audit, envVars>>

WithdrawInvoice(s, id) ==
  /\ ~paused
  /\ OwnedDraft(s, id)
  /\ RemoveInvoice(id)
  /\ ReleaseExposure(id)
  /\ smeIds' = [smeIds EXCEPT ![s] = @ \ {id}]
  /\ UNCHANGED <<drift, mintVars, holdVars, config, audit, envVars>>

CommitMetadataHash(s, id) ==
  /\ ~paused
  /\ OwnedDraft(s, id)
  /\ id \notin hashed
  /\ hashed' = hashed \union {id}
  /\ UNCHANGED <<hot, nextId, smeIds, exposure, drift, mintVars, holdVars, config, audit, envVars>>

-------------------------------------------------------------------------------
(* Status transitions.                                                     *)

Transition(id, from, rec) ==
  /\ hot[id].status = from
  /\ hot' = [hot EXCEPT ![id] = rec]
  /\ UNCHANGED <<hashed, nextId, smeIds, drift, mintVars, holdVars, config, envVars>>

SetCreated(id) ==
  /\ config.callers /\ ~paused
  /\ Transition(id, "Listed", [hot[id] EXCEPT !.status = "Created"])
  /\ UNCHANGED <<exposure, audit>>

SetListed(id) ==
  /\ config.callers /\ ~paused
  /\ Transition(id, "Created", [hot[id] EXCEPT !.status = "Listed"])
  /\ UNCHANGED <<exposure, audit>>

(* Mutant: an invoice that is not listed can be funded.                    *)
SetFundedUnlisted(id) ==
  /\ config.callers /\ ~paused
  /\ Transition(id, "Created", [hot[id] EXCEPT !.status = "Funded", !.fundedAt = now])
  /\ UNCHANGED <<exposure, audit>>

SetFunded(id) ==
  /\ config.callers /\ ~paused
  /\ Transition(id, "Listed", [hot[id] EXCEPT !.status = "Funded", !.fundedAt = now])
  /\ UNCHANGED <<exposure, audit>>

SetRepaid(id) ==
  /\ config.callers /\ ~paused
  /\ Transition(id, "Funded", [hot[id] EXCEPT !.status = "Repaid", !.repaidAt = now])
  /\ ReleaseExposure(id)
  /\ UNCHANGED audit

(* Mutant: a default may be recorded on the due date itself.               *)
DueReached(id) == now >= hot[id].dueDate

PastDue(id) == now > hot[id].dueDate

(* Admin only, and not gated by the pause.                                 *)
SetDefaulted(id) ==
  /\ PastDue(id)
  /\ Transition(id, "Funded", [hot[id] EXCEPT !.status = "Defaulted"])
  /\ ReleaseExposure(id)
  /\ AppendAuditEntry

ArchiveInvoice(id) ==
  /\ Terminal(id)
  /\ RemoveInvoice(id)
  /\ UNCHANGED <<smeIds, exposure, drift, mintVars, holdVars, config, audit, envVars>>

RefreshRiskScore(id) ==
  /\ ~paused
  /\ hot[id].status = "Funded"
  /\ config.registry
  /\ hot' = [hot EXCEPT ![id].riskScore = ProfileScore[hot[id].sme]]
  /\ UNCHANGED <<hashed, nextId, smeIds, exposure, drift, mintVars, holdVars, config, audit, envVars>>

-------------------------------------------------------------------------------
(* Disputes and freezes.                                                   *)

FlagMetadataMismatch(id) ==
  /\ ~paused
  /\ id \in hashed
  /\ dispute[id] = "None"
  /\ dispute' = [dispute EXCEPT ![id] = "Open"]
  /\ frozen' = frozen \union {id}
  /\ UNCHANGED <<invoiceVars, exposure, drift, mintVars, config, audit, envVars>>

ResolveMetadataDispute(id, upheld) ==
  /\ dispute[id] = "Open"
  /\ dispute' = [dispute EXCEPT ![id] = IF upheld THEN "Upheld" ELSE "Rejected"]
  /\ frozen' = IF upheld THEN frozen ELSE frozen \ {id}
  /\ UNCHANGED <<invoiceVars, exposure, drift, mintVars, config, audit, envVars>>

AdminCorrectMetadataHash(id) ==
  /\ hot[id].status = "Created"
  /\ hashed' = hashed \union {id}
  /\ AppendAuditEntry
  /\ UNCHANGED <<hot, nextId, smeIds, exposure, drift, mintVars, holdVars, config, envVars>>

SetFrozen(newFrozen) ==
  /\ frozen' = newFrozen
  /\ UNCHANGED <<invoiceVars, exposure, drift, mintVars, dispute, config, envVars>>

FreezeInvoice(id)   == Live(id) /\ SetFrozen(frozen \union {id}) /\ AppendAuditEntry
UnfreezeInvoice(id) == Live(id) /\ SetFrozen(frozen \ {id}) /\ AppendAuditEntry

(* The index is in minting order, so the first max are the smallest ids.   *)
FirstOf(ids, max) == {id \in ids : Cardinality({j \in ids : j < id}) < max}

FreezeSmeInvoices(s, max) ==
  /\ SetFrozen(frozen \union
       FirstOf({id \in smeIds[s] \ frozen : Live(id) /\ ~Terminal(id)}, max))
  /\ UNCHANGED audit

UnfreezeSmeInvoices(s, max) ==
  /\ SetFrozen(frozen \ FirstOf(smeIds[s] \intersect frozen, max))
  /\ UNCHANGED audit

-------------------------------------------------------------------------------
(* Configuration.                                                          *)

Configure(newConfig) ==
  /\ config' = newConfig
  /\ UNCHANGED <<invoiceVars, exposure, drift, mintVars, holdVars, envVars>>

SetAuthorizedCallers == Configure([config EXCEPT !.callers = TRUE]) /\ AppendAuditEntry
SetRiskRegistry      == Configure([config EXCEPT !.registry = TRUE]) /\ AppendAuditEntry
SetMintRateLimit(r)  == Configure([config EXCEPT !.rate = r]) /\ AppendAuditEntry
SetProtocolConfig(c) == Configure([config EXCEPT !.ceiling = c]) /\ UNCHANGED audit
SetAmountBounds(t, b) == Configure([config EXCEPT !.bounds[t] = b]) /\ UNCHANGED audit

ProposeUpgrade == Configure([config EXCEPT !.upgradeAt = now]) /\ AppendAuditEntry

ExecuteUpgrade ==
  /\ config.upgradeAt # NoTime
  /\ now >= config.upgradeAt + UpgradeDelay
  /\ Configure([config EXCEPT !.upgradeAt = NoTime])
  /\ AppendAuditEntry

-------------------------------------------------------------------------------
(* The ledger clock and access_control.                                    *)

Tick ==
  /\ now < MaxTime
  /\ now' = now + 1
  /\ UNCHANGED <<invoiceVars, exposure, drift, mintVars, holdVars, config, audit, paused>>

TogglePause ==
  /\ paused' = ~paused
  /\ UNCHANGED <<invoiceVars, exposure, drift, mintVars, holdVars, config, audit, now>>

Mint ==
  \E s \in Sme :
    \/ \E inv \in Input : MintInvoicePlain(s, inv)
    \/ \E inv \in Input, r \in Sme : MintInvoiceWithReferrer(s, inv, r)
    \/ \E n \in 0..MaxBatch : \E batch \in [1..n -> Input] : MintInvoicesBatch(s, n, batch)

Owner ==
  \E s \in Sme, id \in Id :
    \/ \E inv \in Input : AmendInvoice(s, id, inv)
    \/ WithdrawInvoice(s, id)
    \/ CommitMetadataHash(s, id)

Lifecycle ==
  \E id \in Id :
    \/ SetCreated(id) \/ SetListed(id) \/ SetFunded(id)
    \/ SetRepaid(id) \/ SetDefaulted(id)
    \/ ArchiveInvoice(id) \/ RefreshRiskScore(id)

Hold ==
  \/ \E id \in Id :
       \/ FlagMetadataMismatch(id)
       \/ \E upheld \in BOOLEAN : ResolveMetadataDispute(id, upheld)
       \/ AdminCorrectMetadataHash(id)
       \/ FreezeInvoice(id) \/ UnfreezeInvoice(id)
  \/ \E s \in Sme, max \in 0..MaxId : FreezeSmeInvoices(s, max) \/ UnfreezeSmeInvoices(s, max)

Admin ==
  \/ SetAuthorizedCallers \/ SetRiskRegistry
  \/ \E r \in RateLimits : SetMintRateLimit(r)
  \/ \E c \in Ceilings : SetProtocolConfig(c)
  \/ \E sc \in Score, b \in Bounds : SetAmountBounds(RiskTier(sc), b)
  \/ ProposeUpgrade \/ ExecuteUpgrade

Next == Mint \/ Owner \/ Lifecycle \/ Hold \/ Admin \/ Tick \/ TogglePause

Spec == Init /\ [][Next]_vars

-------------------------------------------------------------------------------
(* Properties.                                                             *)

HotRecord ==
  [sme : Sme \union {NoSme}, amount : Nat, dueDate : Time, riskScore : 0..100,
   status : Status \union {"None"}, createdAt : Time,
   fundedAt : Time \union {NoTime}, repaidAt : Time \union {NoTime}]

ConfigRecord ==
  [callers : BOOLEAN, registry : BOOLEAN, rate : RateLimits \union {NoLimit},
   ceiling : 0..100, bounds : [Tier -> Bounds \union {NoBounds}],
   upgradeAt : Time \union {NoTime}]

WindowRecord == [start : Time \union {NoTime}, used : Nat]

AuditRecord ==
  [total : 0..MaxAudit, head : 0..(AuditSize - 1),
   slot : [0..(AuditSize - 1) -> (0..MaxAudit) \union {NoTime}]]

InvoicesOk == /\ hot \in [Id -> HotRecord]
              /\ hashed \subseteq Id
              /\ nextId \in 1..(MaxId + 1)
              /\ smeIds \in [Sme -> SUBSET Id]

MintingOk  == /\ window \in [Sme -> WindowRecord]
              /\ firstMint \in [Sme -> Id \union {NoId}]
              /\ referrer \in [Sme -> Sme \union {NoSme}]

HoldOk     == /\ frozen \subseteq Id
              /\ dispute \in [Id -> {"None", "Open", "Upheld", "Rejected"}]

EnvOk      == now \in Time /\ paused \in BOOLEAN

(* Every storage key but the exposure counter holds a value of its type    *)
(* (the DataKey layout of invoice_nft).                                    *)
StorageOk ==
  /\ InvoicesOk /\ MintingOk /\ HoldOk /\ EnvOk
  /\ config \in ConfigRecord
  /\ audit \in AuditRecord

(* The same with the exposure counter, which may be negative like any i128.*)
TypeOK == StorageOk /\ exposure \in [Sme -> Int] /\ drift \in [Sme -> Int]

(* The SME index and the records agree after any mix of mints, batches,    *)
(* withdrawals and archivals: a live invoice is in its owner's index, no   *)
(* id is in two indexes, and every id in use is below NextId, so a mint    *)
(* never overwrites a record or an index entry.                            *)
IndexSound ==
  /\ \A id \in Id : Live(id) => hot[id].sme \in Sme /\ id \in smeIds[hot[id].sme]
  /\ \A id \in Id : Live(id) => id < nextId
  /\ \A s \in Sme : \A id \in smeIds[s] : id < nextId /\ (Live(id) => hot[id].sme = s)
  /\ \A s, t \in Sme : s # t => smeIds[s] \intersect smeIds[t] = {}

TimesOk(h, t) ==
  /\ (h.fundedAt # NoTime) <=> (h.status \in {"Funded", "Repaid", "Defaulted"})
  /\ (h.repaidAt # NoTime) <=> (h.status = "Repaid")
  /\ h.createdAt <= t
  /\ h.fundedAt # NoTime => h.createdAt <= h.fundedAt /\ h.fundedAt <= t
  /\ h.repaidAt # NoTime => h.fundedAt <= h.repaidAt /\ h.repaidAt <= t
  /\ h.status = "Defaulted" => h.dueDate < t

(* funded_at and repaid_at tell the same story as the status, in order,    *)
(* whichever contract drove the transitions and however often the listing  *)
(* was withdrawn in between; a default is never recorded before the due    *)
(* date has passed.                                                        *)
TimesMatchStatus == \A id \in Id : Live(id) => TimesOk(hot[id], now)

(* reconcile_outstanding_exposure: the sum it recomputes.                  *)
Owed(s, h) == IF h.sme = s /\ h.status \notin {"None", "Repaid", "Defaulted"} THEN h.amount ELSE 0

ReconcileOutstandingExposure(s) == SumOver([id \in Id |-> Owed(s, hot[id])], Id)

(* The cached exposure counter differs from the recomputed one by exactly  *)
(* what amend_invoice changed face values by: mint, batch, withdrawal,     *)
(* repayment, default and archival book and release the same amounts.      *)
ExposureExplained ==
  \A s \in Sme : exposure[s] + drift[s] = ReconcileOutstandingExposure(s)

(* The quota window of consume_mint_quota accounts for every invoice the   *)
(* SME minted after the window opened, and never holds more than a limit   *)
(* that was configured.                                                    *)
QuotaCoversMints ==
  \A s \in Sme : window[s].start # NoTime =>
    /\ Cardinality({id \in Id : Live(id) /\ hot[id].sme = s
                                /\ hot[id].createdAt > window[s].start})
         <= window[s].used
    /\ \E r \in RateLimits : window[s].used <= r.max

(* First-mint referrals never form a cycle, in whatever order the SMEs     *)
(* name each other (the walk in mint_invoice_with_referrer).               *)
ReferralsAcyclic ==
  \A s \in Sme : referrer[s] # NoSme =>
    \A n \in 0..MaxHops : ReferralChain(referrer[s])[n] # s

(* A referral is attributed only by the first mint and never changed after *)
(* it, and the first mint is recorded once.                                *)
ReferralLocked ==
  [][\A s \in Sme :
       firstMint[s] # NoId => firstMint'[s] = firstMint[s] /\ referrer'[s] = referrer[s]]_vars

(* A dispute exists only about a committed hash, and a hash only on a      *)
(* stored record: withdrawing a disputed draft leaves no dangling hash.    *)
DisputeHasHash ==
  /\ \A id \in hashed : Live(id)
  /\ \A id \in Id : dispute[id] # "None" => id \in hashed \/ ~Live(id)

(* What an investor saw at listing stays: while an invoice is not in       *)
(* Created, its owner, face value, due date and committed-hash flag are    *)
(* unchanged until the record is archived.                                 *)
TermsFixed ==
  [][\A id \in Id :
       hot[id].status \notin {"None", "Created"} /\ hot'[id].status # "None" =>
         /\ hot'[id].sme = hot[id].sme
         /\ hot'[id].amount = hot[id].amount
         /\ hot'[id].dueDate = hot[id].dueDate
         /\ (id \in hashed) <=> (id \in hashed')]_vars

(* The audit ring always holds exactly the latest entries, each in the     *)
(* slot its sequence number belongs to.                                    *)
AuditRingLatest ==
  /\ audit.head = audit.total % AuditSize
  /\ \A i \in 0..(AuditSize - 1) :
       IF i < audit.total
         THEN /\ audit.slot[i] \in (audit.total - AuditSize)..(audit.total - 1)
              /\ audit.slot[i] % AuditSize = i
         ELSE audit.slot[i] = NoTime

(* What is kept beside the invoices follows from them: the exposure        *)
(* counter, the mint quota, metadata disputes, and the audit ring.         *)
SideRecordsExplained ==
  ExposureExplained /\ QuotaCoversMints /\ DisputeHasHash /\ AuditRingLatest

(* What was stated once stays: the terms an investor saw and the referral  *)
(* of a first mint.                                                        *)
FixedOnceStated == TermsFixed /\ ReferralLocked

(* The lifecycle the other contracts rely on.                              *)
Abstract == INSTANCE InvoiceLifecycle WITH
  phase  <- [id \in Id |-> IF Live(id) THEN hot[id].status
                           ELSE IF id < nextId THEN "Gone" ELSE "Unborn"],
  minted <- nextId - 1

(* The contract implements InvoiceLifecycle.                               *)
ImplementsLifecycle == Abstract!Spec

===============================================================================
