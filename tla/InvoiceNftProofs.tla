-------------------------- MODULE InvoiceNftProofs ----------------------------
(***************************************************************************)
(* Theorems about InvoiceNft for every set of SMEs, every number of        *)
(* invoices, every clock and every configuration the constants allow.      *)
(***************************************************************************)
EXTENDS InvoiceNft, FiniteSums

-------------------------------------------------------------------------------
(* Type correctness.                                                       *)

LEMMA NewHotType ==
  ASSUME EnvOk, NEW s \in Sme, NEW inv \in Input
  PROVE  NewHot(s, inv) \in HotRecord
BY ConstantsOk DEF NewHot, HotRecord, Input, EnvOk, Status, Time, NoTime

LEMMA NoHotType == NoHot \in HotRecord
BY ConstantsOk DEF NoHot, HotRecord, Status, Time, NoTime

LEMMA ChargeType ==
  ASSUME EnvOk, NEW w \in WindowRecord, NEW n \in Nat
  PROVE  Charge(w, n) \in WindowRecord
<1>1. [start |-> now, used |-> n] \in WindowRecord
  BY DEF WindowRecord, EnvOk
<1>2. [w EXCEPT !.used = @ + n] \in WindowRecord
  BY DEF WindowRecord
<1>3. QED
  BY <1>1, <1>2 DEF Charge

LEMMA InitStorageOk == Init => StorageOk
<1> SUFFICES ASSUME Init PROVE StorageOk
  OBVIOUS
<1>1. InvoicesOk
  BY ConstantsOk, NoHotType DEF Init, InvoicesOk, Id
<1>2. MintingOk
  BY DEF Init, MintingOk, WindowRecord, NoWindow, NoTime, NoId
<1>3. HoldOk /\ EnvOk
  <2>1. now \in Time
    BY ConstantsOk DEF Init, Time
  <2>2. QED
    BY <2>1 DEF Init, HoldOk, EnvOk
<1>4. config \in ConfigRecord
  BY DEF Init, ConfigRecord, Tier
<1>5. audit \in AuditRecord
  BY ConstantsOk DEF Init, AuditRecord
<1>6. QED
  BY <1>1, <1>2, <1>3, <1>4, <1>5 DEF StorageOk

LEMMA StoreMintedType ==
  ASSUME InvoicesOk, EnvOk, firstMint \in [Sme -> Id \union {NoId}],
         NEW s \in Sme, NEW n \in Nat, NEW batch \in [1..n -> Input],
         StoreMinted(s, n, batch)
  PROVE  InvoicesOk' /\ firstMint' \in [Sme -> Id \union {NoId}]
<1> DEFINE ids == nextId .. (nextId + n - 1)
<1>1. nextId \in Nat /\ nextId + n - 1 <= MaxId /\ ids \subseteq Id
  BY ConstantsOk DEF StoreMinted, InvoicesOk, Id
<1>2. hot' \in [Id -> HotRecord]
  <2>1. \A id \in ids : NewHot(s, batch[id - nextId + 1]) \in HotRecord
    BY <1>1, NewHotType
  <2>2. QED
    BY <2>1 DEF StoreMinted, InvoicesOk
<1>3. nextId' \in 1..(MaxId + 1) /\ hashed' \subseteq Id
  BY <1>1, ConstantsOk DEF StoreMinted, InvoicesOk
<1>4. smeIds' \in [Sme -> SUBSET Id]
  BY <1>1 DEF StoreMinted, AppendSmeInvoiceIds, InvoicesOk
<1>5. firstMint' \in [Sme -> Id \union {NoId}]
  BY <1>1, ConstantsOk DEF StoreMinted, InvoicesOk, Id
<1>6. QED
  BY <1>2, <1>3, <1>4, <1>5 DEF InvoicesOk

LEMMA AppendAuditEntryType ==
  ASSUME audit \in AuditRecord, AppendAuditEntry
  PROVE  audit' \in AuditRecord
<1>1. (audit.head + 1) % AuditSize \in 0..(AuditSize - 1)
  BY ConstantsOk DEF AuditRecord
<1>2. audit.total + 1 \in 0..MaxAudit /\ audit.total \in 0..MaxAudit
  BY ConstantsOk DEF AuditRecord, AppendAuditEntry
<1>3. QED
  BY <1>1, <1>2 DEF AuditRecord, AppendAuditEntry

LEMMA MintStorageOk ==
  ASSUME StorageOk, Mint
  PROVE  StorageOk'
<1>1. PICK s \in Sme :
        \/ \E inv \in Input : MintInvoicePlain(s, inv)
        \/ \E inv \in Input, r \in Sme : MintInvoiceWithReferrer(s, inv, r)
        \/ \E n \in 0..MaxBatch : \E batch \in [1..n -> Input] : MintInvoicesBatch(s, n, batch)
  BY DEF Mint
<1>2. ASSUME NEW inv \in Input, MintInvoice(s, inv), referrer' \in [Sme -> Sme \union {NoSme}]
      PROVE  StorageOk'
  <2>1. InvoicesOk' /\ firstMint' \in [Sme -> Id \union {NoId}]
    BY <1>2, StoreMintedType DEF MintInvoice, StorageOk, MintingOk
  <2>2. ChargeMint(window[s]) \in WindowRecord
    BY ChargeType DEF ChargeMint, StorageOk, MintingOk
  <2>3. window' \in [Sme -> WindowRecord]
    BY <1>2, <2>2 DEF MintInvoice, StorageOk, MintingOk
  <2>4. HoldOk' /\ EnvOk' /\ config' \in ConfigRecord /\ audit' \in AuditRecord
    BY <1>2 DEF MintInvoice, StorageOk, HoldOk, EnvOk, holdVars, envVars
  <2>5. QED
    BY <1>2, <2>1, <2>3, <2>4 DEF StorageOk, MintingOk
<1>3. ASSUME NEW inv \in Input, MintInvoicePlain(s, inv) PROVE StorageOk'
  BY <1>2, <1>3 DEF MintInvoicePlain, StorageOk, MintingOk
<1>4. ASSUME NEW inv \in Input, NEW r \in Sme, MintInvoiceWithReferrer(s, inv, r)
      PROVE  StorageOk'
  BY <1>2, <1>4 DEF MintInvoiceWithReferrer, StorageOk, MintingOk
<1>5. ASSUME NEW n \in 0..MaxBatch, NEW batch \in [1..n -> Input], MintInvoicesBatch(s, n, batch)
      PROVE  StorageOk'
  <2>1. n \in Nat
    BY ConstantsOk
  <2>2. InvoicesOk' /\ firstMint' \in [Sme -> Id \union {NoId}]
    BY <1>5, <2>1, StoreMintedType DEF MintInvoicesBatch, StorageOk, MintingOk
  <2>3. ChargeBatch(window[s], n) \in WindowRecord
    BY <2>1, ChargeType DEF ChargeBatch, StorageOk, MintingOk
  <2>4. window' \in [Sme -> WindowRecord] /\ referrer' = referrer
    BY <1>5, <2>3 DEF MintInvoicesBatch, StorageOk, MintingOk
  <2>5. HoldOk' /\ EnvOk' /\ config' \in ConfigRecord /\ audit' \in AuditRecord
    BY <1>5 DEF MintInvoicesBatch, StorageOk, HoldOk, EnvOk, holdVars, envVars
  <2>6. QED
    BY <2>2, <2>4, <2>5 DEF StorageOk, MintingOk
<1>6. QED
  BY <1>1, <1>3, <1>4, <1>5

LEMMA OwnerStorageOk ==
  ASSUME StorageOk, Owner
  PROVE  StorageOk'
<1>1. PICK s \in Sme, id \in Id :
        \/ \E inv \in Input : AmendInvoice(s, id, inv)
        \/ WithdrawInvoice(s, id)
        \/ CommitMetadataHash(s, id)
  BY DEF Owner
<1>2. ASSUME NEW inv \in Input, AmendInvoice(s, id, inv) PROVE StorageOk'
  <2>1. inv.amount \in Nat
    BY ConstantsOk DEF Input
  <2>2. inv.dueDate \in Time
    BY DEF Input
  <2>3. inv.riskScore \in 0..100
    BY ConstantsOk DEF Input
  <2>4. [hot[id] EXCEPT !.amount = inv.amount, !.dueDate = inv.dueDate,
                        !.riskScore = inv.riskScore] \in HotRecord
    <3>1. hot[id] \in HotRecord
      BY DEF StorageOk, InvoicesOk
    <3>2. QED
      BY <2>1, <2>2, <2>3, <3>1 DEF HotRecord
  <2>5. hot' \in [Id -> HotRecord]
    BY <1>2, <2>4 DEF AmendInvoice, StorageOk, InvoicesOk
  <2>6. QED
    BY <1>2, <2>5 DEF AmendInvoice, StorageOk, InvoicesOk, MintingOk, HoldOk, EnvOk,
                      mintVars, holdVars, envVars
<1>3. CASE WithdrawInvoice(s, id)
  <2>1. hot' \in [Id -> HotRecord] /\ smeIds' \in [Sme -> SUBSET Id]
    BY <1>3, NoHotType DEF WithdrawInvoice, RemoveInvoice, StorageOk, InvoicesOk
  <2>2. QED
    BY <1>3, <2>1 DEF WithdrawInvoice, RemoveInvoice, StorageOk, InvoicesOk, MintingOk,
                      HoldOk, EnvOk, mintVars, holdVars, envVars
<1>4. CASE CommitMetadataHash(s, id)
  BY <1>4 DEF CommitMetadataHash, StorageOk, InvoicesOk, MintingOk, HoldOk, EnvOk,
              mintVars, holdVars, envVars
<1>5. QED
  BY <1>1, <1>2, <1>3, <1>4

LEMMA TransitionStorageOk ==
  ASSUME StorageOk, NEW id \in Id, NEW from, NEW rec \in HotRecord,
         Transition(id, from, rec), audit' \in AuditRecord
  PROVE  StorageOk'
<1>1. hot' \in [Id -> HotRecord]
  BY DEF Transition, StorageOk, InvoicesOk
<1>2. QED
  BY <1>1 DEF Transition, StorageOk, InvoicesOk, MintingOk, HoldOk, EnvOk,
              mintVars, holdVars, envVars

LEMMA LifecycleStorageOk ==
  ASSUME StorageOk, IndexSound, Lifecycle
  PROVE  StorageOk'
<1>1. PICK id \in Id :
        \/ SetCreated(id) \/ SetListed(id) \/ SetFunded(id)
        \/ SetRepaid(id) \/ SetDefaulted(id)
        \/ ArchiveInvoice(id) \/ RefreshRiskScore(id)
  BY DEF Lifecycle
<1>a. hot[id] \in HotRecord /\ now \in Time
  BY DEF StorageOk, InvoicesOk, EnvOk
<1>2. \A st \in Status : [hot[id] EXCEPT !.status = st] \in HotRecord
  BY DEF StorageOk, InvoicesOk, HotRecord
<1>3. CASE SetCreated(id)
  <2>1. [hot[id] EXCEPT !.status = "Created"] \in HotRecord
    BY <1>2 DEF Status
  <2>2. QED
    BY <1>3, <2>1, TransitionStorageOk DEF SetCreated, StorageOk
<1>4. CASE SetListed(id)
  <2>1. [hot[id] EXCEPT !.status = "Listed"] \in HotRecord
    BY <1>2 DEF Status
  <2>2. QED
    BY <1>4, <2>1, TransitionStorageOk DEF SetListed, StorageOk
<1>5. CASE SetFunded(id)
  <2>1. [hot[id] EXCEPT !.status = "Funded", !.fundedAt = now] \in HotRecord
    BY <1>a DEF HotRecord, Status
  <2>2. QED
    BY <1>5, <2>1, TransitionStorageOk DEF SetFunded, StorageOk
<1>6. CASE SetRepaid(id)
  <2>1. [hot[id] EXCEPT !.status = "Repaid", !.repaidAt = now] \in HotRecord
    BY <1>a DEF HotRecord, Status
  <2>2. QED
    BY <1>6, <2>1, TransitionStorageOk DEF SetRepaid, StorageOk
<1>7. CASE SetDefaulted(id)
  <2>1. [hot[id] EXCEPT !.status = "Defaulted"] \in HotRecord
    BY <1>2 DEF Status
  <2>2. audit' \in AuditRecord
    BY <1>7, AppendAuditEntryType DEF SetDefaulted, StorageOk
  <2>3. QED
    BY <1>7, <2>1, <2>2, TransitionStorageOk DEF SetDefaulted
<1>8. CASE ArchiveInvoice(id)
  <2>1. hot' \in [Id -> HotRecord]
    BY <1>8, NoHotType DEF ArchiveInvoice, RemoveInvoice, StorageOk, InvoicesOk
  <2>2. QED
    BY <1>8, <2>1 DEF ArchiveInvoice, RemoveInvoice, StorageOk, InvoicesOk, MintingOk,
                      HoldOk, EnvOk, mintVars, holdVars, envVars
<1>9. CASE RefreshRiskScore(id)
  <2>0. hot[id].sme \in Sme
    BY <1>9 DEF RefreshRiskScore, IndexSound, Live
  <2>1. ProfileScore[hot[id].sme] \in 0..100
    BY <2>0, ConstantsOk
  <2>2. hot' \in [Id -> HotRecord]
    BY <1>9, <1>a, <2>1 DEF RefreshRiskScore, StorageOk, InvoicesOk, HotRecord
  <2>3. QED
    BY <1>9, <2>2 DEF RefreshRiskScore, StorageOk, InvoicesOk, MintingOk,
                      HoldOk, EnvOk, mintVars, holdVars, envVars
<1>10. QED
  BY <1>1, <1>3, <1>4, <1>5, <1>6, <1>7, <1>8, <1>9

LEMMA HoldStorageOk ==
  ASSUME StorageOk, Hold
  PROVE  StorageOk'
<1>1. ASSUME NEW id \in Id, FlagMetadataMismatch(id) PROVE StorageOk'
  BY <1>1 DEF FlagMetadataMismatch, StorageOk, InvoicesOk, MintingOk, HoldOk, EnvOk,
              invoiceVars, mintVars, envVars
<1>2. ASSUME NEW id \in Id, NEW upheld \in BOOLEAN, ResolveMetadataDispute(id, upheld)
      PROVE  StorageOk'
  BY <1>2 DEF ResolveMetadataDispute, StorageOk, InvoicesOk, MintingOk, HoldOk, EnvOk,
              invoiceVars, mintVars, envVars
<1>3. ASSUME NEW id \in Id, AdminCorrectMetadataHash(id) PROVE StorageOk'
  <2>1. audit' \in AuditRecord
    BY <1>3, AppendAuditEntryType DEF AdminCorrectMetadataHash, StorageOk
  <2>2. QED
    BY <1>3, <2>1 DEF AdminCorrectMetadataHash, StorageOk, InvoicesOk, MintingOk, HoldOk,
                      EnvOk, mintVars, holdVars, envVars
<1>4. ASSUME NEW F \in SUBSET Id, SetFrozen(F), audit' \in AuditRecord PROVE StorageOk'
  BY <1>4 DEF SetFrozen, StorageOk, InvoicesOk, MintingOk, HoldOk, EnvOk,
              invoiceVars, mintVars, envVars
<1>5. ASSUME NEW id \in Id, FreezeInvoice(id) \/ UnfreezeInvoice(id) PROVE StorageOk'
  <2>1. audit' \in AuditRecord
    BY <1>5, AppendAuditEntryType DEF FreezeInvoice, UnfreezeInvoice, StorageOk
  <2>2. frozen \union {id} \in SUBSET Id /\ frozen \ {id} \in SUBSET Id
    BY DEF StorageOk, HoldOk
  <2>3. QED
    BY <1>4, <1>5, <2>1, <2>2 DEF FreezeInvoice, UnfreezeInvoice
<1>6. ASSUME NEW s \in Sme, NEW max \in 0..MaxId,
             FreezeSmeInvoices(s, max) \/ UnfreezeSmeInvoices(s, max)
      PROVE  StorageOk'
  <2> DEFINE T == {id \in smeIds[s] \ frozen : Live(id) /\ ~Terminal(id)}
  <2>1. audit' \in AuditRecord
    BY <1>6 DEF FreezeSmeInvoices, UnfreezeSmeInvoices, StorageOk
  <2>2. frozen \union FirstOf(T, max) \in SUBSET Id
    BY DEF StorageOk, HoldOk, InvoicesOk, FirstOf
  <2>3. frozen \ FirstOf(smeIds[s] \intersect frozen, max) \in SUBSET Id
    BY DEF StorageOk, HoldOk
  <2>4. QED
    BY <1>4, <1>6, <2>1, <2>2, <2>3 DEF FreezeSmeInvoices, UnfreezeSmeInvoices
<1>7. QED
  BY <1>1, <1>2, <1>3, <1>5, <1>6 DEF Hold

LEMMA ConfigureStorageOk ==
  ASSUME StorageOk, NEW c \in ConfigRecord, Configure(c), audit' \in AuditRecord
  PROVE  StorageOk'
BY DEF Configure, StorageOk, InvoicesOk, MintingOk, HoldOk, EnvOk,
       invoiceVars, mintVars, holdVars, envVars

LEMMA AdminStorageOk ==
  ASSUME StorageOk, Admin
  PROVE  StorageOk'
<1>1. config \in ConfigRecord /\ now \in Time
  BY DEF StorageOk, EnvOk
<1>2. AppendAuditEntry \/ audit' = audit => audit' \in AuditRecord
  BY AppendAuditEntryType DEF StorageOk
<1>3. CASE SetAuthorizedCallers
  <2>1. [config EXCEPT !.callers = TRUE] \in ConfigRecord
    BY <1>1 DEF ConfigRecord
  <2>2. QED
    BY <1>2, <1>3, <2>1, ConfigureStorageOk DEF SetAuthorizedCallers
<1>4. CASE SetRiskRegistry
  <2>1. [config EXCEPT !.registry = TRUE] \in ConfigRecord
    BY <1>1 DEF ConfigRecord
  <2>2. QED
    BY <1>2, <1>4, <2>1, ConfigureStorageOk DEF SetRiskRegistry
<1>5. ASSUME NEW r \in RateLimits, SetMintRateLimit(r) PROVE StorageOk'
  <2>1. [config EXCEPT !.rate = r] \in ConfigRecord
    BY <1>1 DEF ConfigRecord
  <2>2. QED
    BY <1>2, <1>5, <2>1, ConfigureStorageOk DEF SetMintRateLimit
<1>6. ASSUME NEW c \in Ceilings, SetProtocolConfig(c) PROVE StorageOk'
  <2>1. [config EXCEPT !.ceiling = c] \in ConfigRecord
    BY <1>1, ConstantsOk DEF ConfigRecord
  <2>2. QED
    BY <1>2, <1>6, <2>1, ConfigureStorageOk DEF SetProtocolConfig
<1>7. ASSUME NEW t \in Tier, NEW b \in Bounds, SetAmountBounds(t, b) PROVE StorageOk'
  <2>1. [config EXCEPT !.bounds[t] = b] \in ConfigRecord
    BY <1>1 DEF ConfigRecord
  <2>2. QED
    BY <1>2, <1>7, <2>1, ConfigureStorageOk DEF SetAmountBounds
<1>8. CASE ProposeUpgrade
  <2>1. [config EXCEPT !.upgradeAt = now] \in ConfigRecord
    BY <1>1 DEF ConfigRecord
  <2>2. QED
    BY <1>2, <1>8, <2>1, ConfigureStorageOk DEF ProposeUpgrade
<1>9. CASE ExecuteUpgrade
  <2>1. [config EXCEPT !.upgradeAt = NoTime] \in ConfigRecord
    BY <1>1 DEF ConfigRecord
  <2>2. QED
    BY <1>2, <1>9, <2>1, ConfigureStorageOk DEF ExecuteUpgrade
<1>10. \A sc \in Score : RiskTier(sc) \in Tier
  BY DEF RiskTier, Tier
<1>11. QED
  BY <1>3, <1>4, <1>5, <1>6, <1>7, <1>8, <1>9, <1>10 DEF Admin

LEMMA StorageStep ==
  ASSUME StorageOk, IndexSound, [Next]_vars
  PROVE  StorageOk'
<1>1. CASE Tick
  <2>1. now' \in Time
    BY <1>1, ConstantsOk DEF Tick, StorageOk, EnvOk, Time
  <2>2. QED
    BY <1>1, <2>1 DEF Tick, StorageOk, InvoicesOk, MintingOk, HoldOk, EnvOk,
                      invoiceVars, mintVars, holdVars
<1>2. CASE TogglePause
  BY <1>2 DEF TogglePause, StorageOk, InvoicesOk, MintingOk, HoldOk, EnvOk,
              invoiceVars, mintVars, holdVars
<1>3. CASE UNCHANGED vars
  BY <1>3 DEF vars, StorageOk, InvoicesOk, MintingOk, HoldOk, EnvOk,
              invoiceVars, mintVars, holdVars, envVars
<1>4. QED
  BY <1>1, <1>2, <1>3, MintStorageOk, OwnerStorageOk, LifecycleStorageOk,
     HoldStorageOk, AdminStorageOk DEF Next

-------------------------------------------------------------------------------
(* The index.                                                              *)

LEMMA IndexFrame ==
  ASSUME StorageOk, IndexSound, nextId' = nextId, smeIds' = smeIds,
         \A id \in Id : Live(id)' => Live(id) /\ hot'[id].sme = hot[id].sme
  PROVE  IndexSound'
<1>1. \A s \in Sme : smeIds[s] \subseteq Id
  BY DEF StorageOk, InvoicesOk
<1>2. QED
  BY <1>1 DEF IndexSound, Live

LEMMA OneRecordFrame ==
  ASSUME StorageOk, IndexSound, NEW id \in Id, NEW rec, hot' = [hot EXCEPT ![id] = rec],
         nextId' = nextId, smeIds' = smeIds,
         rec.status # "None" => Live(id) /\ rec.sme = hot[id].sme
  PROVE  IndexSound'
<1>1. \A j \in Id : Live(j)' => Live(j) /\ hot'[j].sme = hot[j].sme
  BY DEF StorageOk, InvoicesOk, Live
<1>2. QED
  BY <1>1, IndexFrame

LEMMA StoreMintedIndex ==
  ASSUME StorageOk, IndexSound, NEW s \in Sme, NEW n \in Nat,
         NEW batch \in [1..n -> Input], StoreMinted(s, n, batch)
  PROVE  IndexSound'
<1> DEFINE ids == nextId .. (nextId + n - 1)
<1>1. nextId \in Nat /\ ids \subseteq Id /\ nextId' = nextId + n
  BY ConstantsOk DEF StoreMinted, StorageOk, InvoicesOk, Id
<1>2. \A j \in ids : j \in Int /\ nextId <= j /\ j < nextId'
  BY <1>1
<1>3. \A j \in Id : j \in Int
  BY ConstantsOk DEF Id
<1>4. \A j \in Id : j < nextId => j < nextId' /\ j \notin ids
  BY <1>1, <1>3
<1>5. \A j \in ids : hot'[j].sme = s /\ Live(j)'
  BY <1>1 DEF StoreMinted, NewHot, Live
<1>6. \A j \in Id \ ids : hot'[j] = hot[j]
  BY DEF StoreMinted
<1>7. \A j \in Id : Live(j) => j \notin ids /\ j < nextId'
  BY <1>4 DEF IndexSound
<1>8. \A t \in Sme : smeIds'[t] = IF t = s THEN smeIds[s] \union ids ELSE smeIds[t]
  BY DEF StoreMinted, AppendSmeInvoiceIds, StorageOk, InvoicesOk
<1>9. \A t \in Sme : \A j \in smeIds[t] : j \in Id /\ j < nextId /\ j \notin ids
  BY <1>4 DEF StorageOk, InvoicesOk, IndexSound
<1>10. \A j \in Id : Live(j)' => hot'[j].sme \in Sme /\ j \in smeIds'[hot'[j].sme]
  BY <1>5, <1>6, <1>8 DEF IndexSound, Live
<1>11. \A j \in Id : Live(j)' => j < nextId'
  BY <1>2, <1>6, <1>7 DEF Live
<1>12. \A t \in Sme : \A j \in smeIds'[t] : j < nextId' /\ (Live(j)' => hot'[j].sme = t)
  BY <1>2, <1>4, <1>5, <1>6, <1>8, <1>9 DEF IndexSound, Live
<1>13. \A t, u \in Sme : t # u => smeIds'[t] \intersect smeIds'[u] = {}
  BY <1>8, <1>9 DEF IndexSound
<1>14. QED
  BY <1>10, <1>11, <1>12, <1>13 DEF IndexSound, Live

LEMMA IndexStep ==
  ASSUME StorageOk, IndexSound, [Next]_vars
  PROVE  IndexSound'
<1>1. CASE Mint
  <2>1. ASSUME NEW s \in Sme, NEW inv \in Input, MintInvoice(s, inv) PROVE IndexSound'
    <3>1. [i \in 1..1 |-> inv] \in [1..1 -> Input]
      OBVIOUS
    <3>2. QED
      BY <2>1, <3>1, StoreMintedIndex DEF MintInvoice
  <2>2. ASSUME NEW s \in Sme, NEW n \in 0..MaxBatch, NEW batch \in [1..n -> Input],
               MintInvoicesBatch(s, n, batch)
        PROVE  IndexSound'
    <3>1. n \in Nat
      BY ConstantsOk
    <3>2. QED
      BY <2>2, <3>1, StoreMintedIndex DEF MintInvoicesBatch
  <2>3. QED
    BY <1>1, <2>1, <2>2 DEF Mint, MintInvoicePlain, MintInvoiceWithReferrer
<1>2. ASSUME NEW s \in Sme, NEW id \in Id, NEW inv \in Input, AmendInvoice(s, id, inv)
      PROVE  IndexSound'
  <2> DEFINE rec == [hot[id] EXCEPT !.amount = inv.amount, !.dueDate = inv.dueDate,
                                    !.riskScore = inv.riskScore]
  <2>1. rec.sme = hot[id].sme /\ Live(id)
    BY <1>2 DEF AmendInvoice, OwnedDraft, Live, StorageOk, InvoicesOk, HotRecord
  <2>2. QED
    BY <1>2, <2>1, OneRecordFrame DEF AmendInvoice
<1>3. ASSUME NEW s \in Sme, NEW id \in Id, WithdrawInvoice(s, id)
      PROVE  IndexSound'
  <2>1. hot'[id].status = "None" /\ \A j \in Id \ {id} : hot'[j] = hot[j]
    BY <1>3 DEF WithdrawInvoice, RemoveInvoice, StorageOk, InvoicesOk, NoHot
  <2>2. nextId' = nextId
    BY <1>3 DEF WithdrawInvoice, RemoveInvoice
  <2>3. \A t \in Sme : smeIds'[t] = IF t = s THEN smeIds[s] \ {id} ELSE smeIds[t]
    BY <1>3 DEF WithdrawInvoice, StorageOk, InvoicesOk
  <2>4. \A t \in Sme : smeIds[t] \subseteq Id
    BY DEF StorageOk, InvoicesOk
  <2>5. QED
    BY <2>1, <2>2, <2>3, <2>4 DEF IndexSound, Live
<1>4. ASSUME NEW id \in Id, NEW from \in Status, NEW rec, Transition(id, from, rec),
             rec.sme = hot[id].sme
      PROVE  IndexSound'
  <2>1. Live(id)
    BY <1>4 DEF Transition, Live, Status
  <2>2. QED
    BY <1>4, <2>1, OneRecordFrame DEF Transition
<1>5. ASSUME NEW id \in Id,
             SetCreated(id) \/ SetListed(id) \/ SetFunded(id) \/ SetRepaid(id) \/ SetDefaulted(id)
      PROVE  IndexSound'
  <2>1. hot[id] \in HotRecord
    BY DEF StorageOk, InvoicesOk
  <2>2. /\ [hot[id] EXCEPT !.status = "Created"].sme = hot[id].sme
        /\ [hot[id] EXCEPT !.status = "Listed"].sme = hot[id].sme
        /\ [hot[id] EXCEPT !.status = "Defaulted"].sme = hot[id].sme
        /\ [hot[id] EXCEPT !.status = "Funded", !.fundedAt = now].sme = hot[id].sme
        /\ [hot[id] EXCEPT !.status = "Repaid", !.repaidAt = now].sme = hot[id].sme
    BY <2>1 DEF HotRecord
  <2>3. "Listed" \in Status /\ "Created" \in Status /\ "Funded" \in Status
    BY DEF Status
  <2>4. QED
    BY <1>4, <1>5, <2>2, <2>3 DEF SetCreated, SetListed, SetFunded, SetRepaid, SetDefaulted
<1>6. ASSUME NEW id \in Id, ArchiveInvoice(id) PROVE IndexSound'
  <2>1. NoHot.status = "None"
    BY DEF NoHot
  <2>2. QED
    BY <1>6, <2>1, OneRecordFrame DEF ArchiveInvoice, RemoveInvoice
<1>7. ASSUME NEW id \in Id, RefreshRiskScore(id) PROVE IndexSound'
  <2>1. Live(id)
    BY <1>7 DEF RefreshRiskScore, Live
  <2>2. \A j \in Id : Live(j)' => Live(j) /\ hot'[j].sme = hot[j].sme
    BY <1>7, <2>1 DEF RefreshRiskScore, StorageOk, InvoicesOk, HotRecord, Live
  <2>3. QED
    BY <1>7, <2>2, IndexFrame DEF RefreshRiskScore
<1>8. ASSUME hot' = hot, nextId' = nextId, smeIds' = smeIds PROVE IndexSound'
  BY <1>8 DEF IndexSound, Live
<1>9. CASE Owner
  <2>1. ASSUME NEW s \in Sme, NEW id \in Id, CommitMetadataHash(s, id) PROVE IndexSound'
    BY <1>8, <2>1 DEF CommitMetadataHash
  <2>2. QED
    BY <1>2, <1>3, <1>9, <2>1 DEF Owner
<1>10. CASE Lifecycle
  BY <1>5, <1>6, <1>7, <1>10 DEF Lifecycle
<1>11. CASE Hold
  BY <1>8, <1>11 DEF Hold, FlagMetadataMismatch, ResolveMetadataDispute,
     AdminCorrectMetadataHash, FreezeInvoice, UnfreezeInvoice, FreezeSmeInvoices,
     UnfreezeSmeInvoices, SetFrozen, invoiceVars
<1>12. CASE Admin
  BY <1>8, <1>12 DEF Admin, SetAuthorizedCallers, SetRiskRegistry, SetMintRateLimit,
     SetProtocolConfig, SetAmountBounds, ProposeUpgrade, ExecuteUpgrade, Configure, invoiceVars
<1>13. CASE Tick \/ TogglePause \/ UNCHANGED vars
  BY <1>8, <1>13 DEF Tick, TogglePause, vars, invoiceVars
<1>14. QED
  BY <1>1, <1>9, <1>10, <1>11, <1>12, <1>13 DEF Next

LEMMA InitIndexSound == Init => IndexSound
BY DEF Init, IndexSound, Live, NoHot

(* Every storage key always has a value of its type, and the SME index and *)
(* the invoice records always agree: the two are inductive together, since *)
(* refresh_risk_score stores the profile score of the record's owner, who  *)
(* is an SME only because the index is sound.                              *)
THEOREM StorageAndIndex == Spec => [](StorageOk /\ IndexSound)
<1>1. Init => StorageOk /\ IndexSound
  BY InitStorageOk, InitIndexSound
<1>2. StorageOk /\ IndexSound /\ [Next]_vars => StorageOk' /\ IndexSound'
  BY StorageStep, IndexStep
<1>3. QED
  BY <1>1, <1>2, PTL DEF Spec

-------------------------------------------------------------------------------
(* Timestamps.                                                             *)

LEMMA TimesOneRecord ==
  ASSUME StorageOk, TimesMatchStatus, NEW id \in Id, NEW rec,
         hot' = [hot EXCEPT ![id] = rec], now' = now,
         rec.status # "None" => TimesOk(rec, now)
  PROVE  TimesMatchStatus'
<1>1. \A j \in Id : hot'[j] = IF j = id THEN rec ELSE hot[j]
  BY DEF StorageOk, InvoicesOk
<1>2. ASSUME NEW j \in Id, hot'[j].status # "None" PROVE TimesOk(hot'[j], now)
  BY <1>1, <1>2 DEF TimesMatchStatus, Live
<1>3. QED
  BY <1>2 DEF TimesMatchStatus, Live

LEMMA TransitionTimes ==
  ASSUME StorageOk, TimesMatchStatus, NEW id \in Id, NEW from \in Status, NEW rec,
         Transition(id, from, rec), TimesOk(hot[id], now) => TimesOk(rec, now)
  PROVE  TimesMatchStatus'
<1>1. Live(id)
  BY DEF Transition, Live, Status
<1>2. QED
  BY <1>1, TimesOneRecord DEF Transition, TimesMatchStatus, envVars

LEMMA LifecycleTimes ==
  ASSUME StorageOk, TimesMatchStatus, NEW id \in Id,
         SetCreated(id) \/ SetListed(id) \/ SetFunded(id) \/ SetRepaid(id) \/ SetDefaulted(id)
  PROVE  TimesMatchStatus'
<1>1. hot[id] \in HotRecord /\ now \in Time
  BY DEF StorageOk, InvoicesOk, EnvOk
<1>2. \A t \in Time : t \in Nat /\ t # NoTime
  BY ConstantsOk DEF Time, NoTime
<1>3. "Listed" \in Status /\ "Created" \in Status /\ "Funded" \in Status
  BY DEF Status
<1>4. CASE SetCreated(id)
  <2>1. TimesOk(hot[id], now) => TimesOk([hot[id] EXCEPT !.status = "Created"], now)
    BY <1>1, <1>4 DEF SetCreated, Transition, TimesOk, HotRecord
  <2>2. QED
    BY <1>3, <1>4, <2>1, TransitionTimes DEF SetCreated
<1>5. CASE SetListed(id)
  <2>1. TimesOk(hot[id], now) => TimesOk([hot[id] EXCEPT !.status = "Listed"], now)
    BY <1>1, <1>5 DEF SetListed, Transition, TimesOk, HotRecord
  <2>2. QED
    BY <1>3, <1>5, <2>1, TransitionTimes DEF SetListed
<1>6. CASE SetFunded(id)
  <2>1. TimesOk(hot[id], now)
          => TimesOk([hot[id] EXCEPT !.status = "Funded", !.fundedAt = now], now)
    BY <1>1, <1>2, <1>6 DEF SetFunded, Transition, TimesOk, HotRecord
  <2>2. QED
    BY <1>3, <1>6, <2>1, TransitionTimes DEF SetFunded
<1>7. CASE SetRepaid(id)
  <2>1. TimesOk(hot[id], now)
          => TimesOk([hot[id] EXCEPT !.status = "Repaid", !.repaidAt = now], now)
    BY <1>1, <1>2, <1>7 DEF SetRepaid, Transition, TimesOk, HotRecord
  <2>2. QED
    BY <1>3, <1>7, <2>1, TransitionTimes DEF SetRepaid
<1>8. CASE SetDefaulted(id)
  <2>1. TimesOk(hot[id], now) => TimesOk([hot[id] EXCEPT !.status = "Defaulted"], now)
    BY <1>1, <1>2, <1>8 DEF SetDefaulted, Transition, PastDue, TimesOk, HotRecord
  <2>2. QED
    BY <1>3, <1>8, <2>1, TransitionTimes DEF SetDefaulted
<1>9. QED
  BY <1>4, <1>5, <1>6, <1>7, <1>8

LEMMA StoreMintedTimes ==
  ASSUME StorageOk, TimesMatchStatus, NEW s \in Sme, NEW n \in Nat,
         NEW batch \in [1..n -> Input], StoreMinted(s, n, batch), now' = now
  PROVE  TimesMatchStatus'
<1>1. now \in Nat
  BY ConstantsOk DEF StorageOk, EnvOk, Time
<1>2. \A inv \in Input : TimesOk(NewHot(s, inv), now)
  BY <1>1 DEF TimesOk, NewHot
<1>3. nextId \in Int
  BY DEF StorageOk, InvoicesOk
<1>4. ASSUME NEW id \in Id, Live(id)' PROVE TimesOk(hot'[id], now)
  <2>1. CASE id \in nextId .. (nextId + n - 1)
    <3>1. batch[id - nextId + 1] \in Input
      BY <1>3, <2>1
    <3>2. QED
      BY <1>2, <2>1, <3>1 DEF StoreMinted
  <2>2. CASE id \notin nextId .. (nextId + n - 1)
    BY <1>4, <2>2 DEF StoreMinted, TimesMatchStatus, Live
  <2>3. QED
    BY <2>1, <2>2
<1>5. QED
  BY <1>4 DEF TimesMatchStatus

LEMMA TimesStep ==
  ASSUME StorageOk, IndexSound, TimesMatchStatus, [Next]_vars
  PROVE  TimesMatchStatus'
<1>1. CASE Mint
  <2>1. ASSUME NEW s \in Sme, NEW inv \in Input, MintInvoice(s, inv) PROVE TimesMatchStatus'
    <3>1. [i \in 1..1 |-> inv] \in [1..1 -> Input]
      OBVIOUS
    <3>2. QED
      BY <2>1, <3>1, StoreMintedTimes DEF MintInvoice, envVars
  <2>2. ASSUME NEW s \in Sme, NEW n \in 0..MaxBatch, NEW batch \in [1..n -> Input],
               MintInvoicesBatch(s, n, batch)
        PROVE  TimesMatchStatus'
    <3>1. n \in Nat
      BY ConstantsOk
    <3>2. QED
      BY <2>2, <3>1, StoreMintedTimes DEF MintInvoicesBatch, envVars
  <2>3. QED
    BY <1>1, <2>1, <2>2 DEF Mint, MintInvoicePlain, MintInvoiceWithReferrer
<1>2. ASSUME hot' = hot, now' = now PROVE TimesMatchStatus'
  BY <1>2 DEF TimesMatchStatus, Live
<1>3. ASSUME NEW s \in Sme, NEW id \in Id, NEW inv \in Input, AmendInvoice(s, id, inv)
      PROVE  TimesMatchStatus'
  <2> DEFINE rec == [hot[id] EXCEPT !.amount = inv.amount, !.dueDate = inv.dueDate,
                                    !.riskScore = inv.riskScore]
  <2>1. hot[id] \in HotRecord /\ hot[id].status = "Created" /\ TimesOk(hot[id], now)
    BY <1>3 DEF StorageOk, InvoicesOk, AmendInvoice, OwnedDraft, TimesMatchStatus, Live
  <2>2. TimesOk(rec, now)
    BY <2>1 DEF TimesOk, HotRecord
  <2>3. QED
    BY <1>3, <2>2, TimesOneRecord DEF AmendInvoice, envVars
<1>4. ASSUME NEW id \in Id, RemoveInvoice(id), now' = now PROVE TimesMatchStatus'
  <2>1. NoHot.status = "None"
    BY DEF NoHot
  <2>2. QED
    BY <1>4, <2>1, TimesOneRecord DEF RemoveInvoice
<1>5. ASSUME NEW id \in Id, RefreshRiskScore(id) PROVE TimesMatchStatus'
  <2> DEFINE rec == [hot[id] EXCEPT !.riskScore = ProfileScore[hot[id].sme]]
  <2>1. hot[id] \in HotRecord /\ TimesOk(hot[id], now)
    BY <1>5 DEF StorageOk, InvoicesOk, RefreshRiskScore, TimesMatchStatus, Live
  <2>2. TimesOk(rec, now)
    BY <2>1 DEF TimesOk, HotRecord
  <2>3. hot' = [hot EXCEPT ![id] = rec] /\ now' = now
    BY <1>5 DEF RefreshRiskScore, envVars
  <2>4. QED
    BY <2>2, <2>3, TimesOneRecord
<1>6. CASE Owner
  <2>1. ASSUME NEW s \in Sme, NEW id \in Id, WithdrawInvoice(s, id) \/ CommitMetadataHash(s, id)
        PROVE  TimesMatchStatus'
    BY <1>2, <1>4, <2>1 DEF WithdrawInvoice, CommitMetadataHash, envVars
  <2>2. QED
    BY <1>3, <1>6, <2>1 DEF Owner
<1>7. CASE Lifecycle
  <2>1. ASSUME NEW id \in Id, ArchiveInvoice(id) PROVE TimesMatchStatus'
    BY <1>4, <2>1 DEF ArchiveInvoice, envVars
  <2>2. QED
    BY <1>5, <1>7, <2>1, LifecycleTimes DEF Lifecycle
<1>8. CASE Hold
  BY <1>2, <1>8 DEF Hold, FlagMetadataMismatch, ResolveMetadataDispute,
     AdminCorrectMetadataHash, FreezeInvoice, UnfreezeInvoice, FreezeSmeInvoices,
     UnfreezeSmeInvoices, SetFrozen, invoiceVars, envVars
<1>9. CASE Admin
  BY <1>2, <1>9 DEF Admin, SetAuthorizedCallers, SetRiskRegistry, SetMintRateLimit,
     SetProtocolConfig, SetAmountBounds, ProposeUpgrade, ExecuteUpgrade, Configure,
     invoiceVars, envVars
<1>10. CASE Tick
  <2>1. hot' = hot /\ now' = now + 1 /\ now \in Nat
    BY <1>10, ConstantsOk DEF Tick, invoiceVars, StorageOk, EnvOk, Time
  <2>2. ASSUME NEW id \in Id, TimesOk(hot[id], now) PROVE TimesOk(hot[id], now + 1)
    <3>1. hot[id] \in HotRecord
      BY DEF StorageOk, InvoicesOk
    <3>2. /\ hot[id].createdAt \in Int /\ hot[id].dueDate \in Int
          /\ hot[id].fundedAt \in Int /\ hot[id].repaidAt \in Int
      BY <3>1, ConstantsOk DEF HotRecord, Time, NoTime
    <3>3. QED
      BY <2>1, <2>2, <3>2 DEF TimesOk
  <2>3. QED
    BY <2>1, <2>2 DEF TimesMatchStatus, Live
<1>11. CASE TogglePause \/ UNCHANGED vars
  BY <1>2, <1>11 DEF TogglePause, vars, invoiceVars, envVars
<1>12. QED
  BY <1>1, <1>6, <1>7, <1>8, <1>9, <1>10, <1>11 DEF Next

(* The timestamps of every invoice always tell the same story as its       *)
(* status: set_funded and set_repaid are the only writers, and no amend,   *)
(* re-listing or risk refresh disturbs them.                               *)
THEOREM TimesAlwaysMatch == Spec => []TimesMatchStatus
<1>1. Init => TimesMatchStatus
  BY DEF Init, TimesMatchStatus, Live, NoHot
<1>2. StorageOk /\ IndexSound /\ TimesMatchStatus /\ [Next]_vars => TimesMatchStatus'
  BY TimesStep
<1>3. QED
  BY <1>1, <1>2, StorageAndIndex, PTL DEF Spec

-------------------------------------------------------------------------------
(* What one call does to the records, whatever else it writes: a batch is  *)
(* stored under fresh identifiers, or one live record moves, or none does. *)

OneMoves(id, rec) ==
  /\ Live(id) /\ hot' = [hot EXCEPT ![id] = rec] /\ nextId' = nextId
  /\ \/ rec.status = hot[id].status
     \/ rec.status \in Abstract!Successor[hot[id].status]
     \/ rec.status = "None" /\ hot[id].status \in {"Created", "Repaid", "Defaulted"}
  /\ rec.status # "None" => rec.sme = hot[id].sme /\ rec.createdAt = hot[id].createdAt
  /\ hot[id].status # "Created" /\ rec.status # "None" =>
       rec.amount = hot[id].amount /\ rec.dueDate = hot[id].dueDate

Stored(s, n) == \E batch \in [1..n -> Input] : StoreMinted(s, n, batch)

LEMMA MintStores ==
  ASSUME Mint
  PROVE  \E s \in Sme, n \in Nat : Stored(s, n)
<1>1. ASSUME NEW s \in Sme, NEW inv \in Input, MintInvoice(s, inv) PROVE Stored(s, 1)
  <2>1. [i \in 1..1 |-> inv] \in [1..1 -> Input]
    OBVIOUS
  <2>2. QED
    BY <1>1, <2>1 DEF MintInvoice, Stored
<1>2. ASSUME NEW s \in Sme, NEW n \in 0..MaxBatch, NEW batch \in [1..n -> Input],
             MintInvoicesBatch(s, n, batch)
      PROVE  n \in Nat /\ Stored(s, n)
  <2>1. n \in Nat
    BY ConstantsOk
  <2>2. QED
    BY <1>2, <2>1 DEF MintInvoicesBatch, Stored
<1>3. QED
  BY <1>1, <1>2 DEF Mint, MintInvoicePlain, MintInvoiceWithReferrer

LEMMA TransitionMoves ==
  ASSUME StorageOk, NEW id \in Id,
         SetCreated(id) \/ SetListed(id) \/ SetFunded(id) \/ SetRepaid(id) \/ SetDefaulted(id)
  PROVE  \E rec : OneMoves(id, rec)
<1>1. hot[id] \in HotRecord
  BY DEF StorageOk, InvoicesOk
<1>2. ASSUME NEW from, NEW to, from # "None", to \in Abstract!Successor[from], NEW rec,
             Transition(id, from, rec), rec.status = to,
             rec.sme = hot[id].sme, rec.amount = hot[id].amount, rec.dueDate = hot[id].dueDate,
             rec.createdAt = hot[id].createdAt
      PROVE  OneMoves(id, rec)
  BY <1>2 DEF Transition, OneMoves, Live
<1>3. /\ "Created" \in Abstract!Successor["Listed"] /\ "Listed" \in Abstract!Successor["Created"]
      /\ "Funded" \in Abstract!Successor["Listed"] /\ "Repaid" \in Abstract!Successor["Funded"]
      /\ "Defaulted" \in Abstract!Successor["Funded"]
  BY DEF Abstract!Successor
<1>4. CASE SetCreated(id)
  <2> DEFINE rec == [hot[id] EXCEPT !.status = "Created"]
  <2>1. /\ rec.status = "Created" /\ rec.sme = hot[id].sme /\ rec.amount = hot[id].amount
        /\ rec.dueDate = hot[id].dueDate /\ rec.createdAt = hot[id].createdAt
    BY <1>1 DEF HotRecord
  <2>2. Transition(id, "Listed", rec)
    BY <1>4 DEF SetCreated
  <2> HIDE DEF rec
  <2>3. QED
    BY <1>2, <1>3, <2>1, <2>2
<1>5. CASE SetListed(id)
  <2> DEFINE rec == [hot[id] EXCEPT !.status = "Listed"]
  <2>1. /\ rec.status = "Listed" /\ rec.sme = hot[id].sme /\ rec.amount = hot[id].amount
        /\ rec.dueDate = hot[id].dueDate /\ rec.createdAt = hot[id].createdAt
    BY <1>1 DEF HotRecord
  <2>2. Transition(id, "Created", rec)
    BY <1>5 DEF SetListed
  <2> HIDE DEF rec
  <2>3. QED
    BY <1>2, <1>3, <2>1, <2>2
<1>6. CASE SetFunded(id)
  <2> DEFINE rec == [hot[id] EXCEPT !.status = "Funded", !.fundedAt = now]
  <2>1. /\ rec.status = "Funded" /\ rec.sme = hot[id].sme /\ rec.amount = hot[id].amount
        /\ rec.dueDate = hot[id].dueDate /\ rec.createdAt = hot[id].createdAt
    BY <1>1 DEF HotRecord
  <2>2. Transition(id, "Listed", rec)
    BY <1>6 DEF SetFunded
  <2> HIDE DEF rec
  <2>3. QED
    BY <1>2, <1>3, <2>1, <2>2
<1>7. CASE SetRepaid(id)
  <2> DEFINE rec == [hot[id] EXCEPT !.status = "Repaid", !.repaidAt = now]
  <2>1. /\ rec.status = "Repaid" /\ rec.sme = hot[id].sme /\ rec.amount = hot[id].amount
        /\ rec.dueDate = hot[id].dueDate /\ rec.createdAt = hot[id].createdAt
    BY <1>1 DEF HotRecord
  <2>2. Transition(id, "Funded", rec)
    BY <1>7 DEF SetRepaid
  <2> HIDE DEF rec
  <2>3. QED
    BY <1>2, <1>3, <2>1, <2>2
<1>8. CASE SetDefaulted(id)
  <2> DEFINE rec == [hot[id] EXCEPT !.status = "Defaulted"]
  <2>1. /\ rec.status = "Defaulted" /\ rec.sme = hot[id].sme /\ rec.amount = hot[id].amount
        /\ rec.dueDate = hot[id].dueDate /\ rec.createdAt = hot[id].createdAt
    BY <1>1 DEF HotRecord
  <2>2. Transition(id, "Funded", rec)
    BY <1>8 DEF SetDefaulted
  <2> HIDE DEF rec
  <2>3. QED
    BY <1>2, <1>3, <2>1, <2>2
<1>9. QED
  BY <1>4, <1>5, <1>6, <1>7, <1>8

LEMMA OneRecordMoves ==
  ASSUME StorageOk, [Next]_vars, ~Mint
  PROVE  (\E id \in Id : \E rec : OneMoves(id, rec)) \/ (hot' = hot /\ nextId' = nextId)
<1>1. ASSUME NEW s \in Sme, NEW id \in Id, NEW inv \in Input, AmendInvoice(s, id, inv)
      PROVE  \E rec : OneMoves(id, rec)
  <2> DEFINE rec == [hot[id] EXCEPT !.amount = inv.amount, !.dueDate = inv.dueDate,
                                    !.riskScore = inv.riskScore]
  <2>1. hot' = [hot EXCEPT ![id] = rec] /\ nextId' = nextId /\ hot[id].status = "Created"
    BY <1>1 DEF AmendInvoice, OwnedDraft
  <2>2. rec.status = hot[id].status /\ rec.sme = hot[id].sme /\ rec.createdAt = hot[id].createdAt
    BY DEF StorageOk, InvoicesOk, HotRecord
  <2> HIDE DEF rec
  <2>3. QED
    BY <2>1, <2>2 DEF OneMoves, Live
<1>2. ASSUME NEW id \in Id, RemoveInvoice(id), hot[id].status \in {"Created", "Repaid", "Defaulted"}
      PROVE  \E rec : OneMoves(id, rec)
  <2>1. NoHot.status = "None"
    BY DEF NoHot
  <2>2. QED
    BY <1>2, <2>1 DEF RemoveInvoice, OneMoves, Live
<1>3. ASSUME NEW id \in Id, RefreshRiskScore(id) PROVE \E rec : OneMoves(id, rec)
  <2> DEFINE rec == [hot[id] EXCEPT !.riskScore = ProfileScore[hot[id].sme]]
  <2>1. hot[id] \in HotRecord /\ hot[id].status = "Funded"
    BY <1>3 DEF StorageOk, InvoicesOk, RefreshRiskScore
  <2>2. hot' = [hot EXCEPT ![id] = rec] /\ nextId' = nextId
    BY <1>3 DEF RefreshRiskScore
  <2>3. /\ rec.status = hot[id].status /\ rec.sme = hot[id].sme
        /\ rec.amount = hot[id].amount /\ rec.dueDate = hot[id].dueDate
        /\ rec.createdAt = hot[id].createdAt
    BY <2>1 DEF HotRecord
  <2> HIDE DEF rec
  <2>4. QED
    BY <2>1, <2>2, <2>3 DEF OneMoves, Live
<1>4. CASE Owner
  <2>1. ASSUME NEW s \in Sme, NEW id \in Id, WithdrawInvoice(s, id)
        PROVE  \E rec : OneMoves(id, rec)
    BY <1>2, <2>1 DEF WithdrawInvoice, OwnedDraft
  <2>2. QED
    BY <1>1, <1>4, <2>1 DEF Owner, CommitMetadataHash
<1>5. CASE Lifecycle
  <2>1. ASSUME NEW id \in Id, ArchiveInvoice(id) PROVE \E rec : OneMoves(id, rec)
    BY <1>2, <2>1 DEF ArchiveInvoice, Terminal
  <2>2. QED
    BY <1>3, <1>5, <2>1, TransitionMoves DEF Lifecycle
<1>6. CASE Hold
  BY <1>6 DEF Hold, FlagMetadataMismatch, ResolveMetadataDispute,
     AdminCorrectMetadataHash, FreezeInvoice, UnfreezeInvoice, FreezeSmeInvoices,
     UnfreezeSmeInvoices, SetFrozen, invoiceVars
<1>7. CASE Admin
  BY <1>7 DEF Admin, SetAuthorizedCallers, SetRiskRegistry, SetMintRateLimit,
     SetProtocolConfig, SetAmountBounds, ProposeUpgrade, ExecuteUpgrade, Configure, invoiceVars
<1>8. CASE Tick \/ TogglePause \/ UNCHANGED vars
  BY <1>8 DEF Tick, TogglePause, vars, invoiceVars
<1>9. QED
  BY <1>4, <1>5, <1>6, <1>7, <1>8 DEF Next

LEMMA RecordsMove ==
  ASSUME StorageOk, [Next]_vars
  PROVE  \/ \E s \in Sme, n \in Nat : Stored(s, n)
         \/ \E id \in Id : \E rec : OneMoves(id, rec)
         \/ hot' = hot /\ nextId' = nextId
BY MintStores, OneRecordMoves

-------------------------------------------------------------------------------
(* The lifecycle.                                                          *)

(* The phase of the abstract specification that a record stands for.       *)
PhaseOf(id) == IF Live(id) THEN hot[id].status ELSE IF id < nextId THEN "Gone" ELSE "Unborn"
Phases == [id \in Id |-> PhaseOf(id)]

LEMMA BirthIsAbstract ==
  ASSUME StorageOk, IndexSound, NEW s \in Sme, NEW n \in Nat, Stored(s, n)
  PROVE  Abstract!Birth \/ (Phases' = Phases /\ nextId' = nextId)
<1> DEFINE ids == nextId .. (nextId + n - 1)
<1>1. PICK batch \in [1..n -> Input] : StoreMinted(s, n, batch)
  BY DEF Stored
<1>2. /\ nextId \in Nat /\ nextId >= 1 /\ nextId' = nextId + n /\ nextId + n - 1 <= MaxId
      /\ MaxId \in Nat
  BY <1>1, ConstantsOk DEF StoreMinted, StorageOk, InvoicesOk
<1>3. \A id \in Id : id \in Nat /\ id >= 1 /\ id <= MaxId
  BY <1>2 DEF Id
<1>4. ASSUME NEW id \in Id PROVE PhaseOf(id)' = IF id \in ids THEN "Created" ELSE PhaseOf(id)
  <2>1. CASE id \in ids
    <3>1. hot'[id].status = "Created"
      BY <1>1, <2>1 DEF StoreMinted, NewHot
    <3>2. QED
      BY <2>1, <3>1 DEF PhaseOf, Live
  <2>2. CASE id \notin ids
    <3>1. hot'[id] = hot[id]
      BY <1>1, <2>2 DEF StoreMinted
    <3>2. id < nextId' <=> id < nextId
      BY <1>2, <1>3, <2>2
    <3>3. QED
      BY <2>2, <3>1, <3>2 DEF PhaseOf, Live
  <2>3. QED
    BY <2>1, <2>2
<1>5. CASE n = 0
  <2>1. \A id \in Id : PhaseOf(id)' = PhaseOf(id)
    BY <1>2, <1>4, <1>5
  <2>2. QED
    BY <1>2, <1>5, <2>1 DEF Phases
<1>6. CASE n > 0
  <2>1. n \in 1..MaxId /\ (nextId - 1) + n <= MaxId /\ nextId' - 1 = (nextId - 1) + n
    BY <1>2, <1>6
  <2>2. ids = ((nextId - 1) + 1)..((nextId - 1) + n)
    BY <1>2
  <2>3. Phases' = [id \in 1..MaxId |-> IF id \in ((nextId - 1) + 1)..((nextId - 1) + n)
                                         THEN "Created" ELSE Phases[id]]
    BY <1>4, <2>2 DEF Phases, Id
  <2>4. QED
    BY <2>1, <2>3 DEF Abstract!Birth, Abstract!Id, Phases, PhaseOf
<1>7. QED
  BY <1>5, <1>6

LEMMA MoveIsAbstract ==
  ASSUME StorageOk, IndexSound, NEW id \in Id, NEW rec, OneMoves(id, rec)
  PROVE  Abstract!Move \/ (Phases' = Phases /\ nextId' = nextId)
<1> DEFINE p == IF rec.status = "None" THEN "Gone" ELSE rec.status
<1>1. /\ hot[id].status \in Status /\ id < nextId /\ nextId' = nextId
      /\ PhaseOf(id) = hot[id].status
  BY DEF OneMoves, Live, IndexSound, PhaseOf, StorageOk, InvoicesOk, HotRecord
<1>2. hot'[id] = rec /\ \A j \in Id \ {id} : hot'[j] = hot[j]
  BY DEF OneMoves, StorageOk, InvoicesOk
<1>3. PhaseOf(id)' = p /\ \A j \in Id \ {id} : PhaseOf(j)' = PhaseOf(j)
  BY <1>1, <1>2 DEF PhaseOf, Live
<1>4. Phases' = [Phases EXCEPT ![id] = p]
  BY <1>3 DEF Phases
<1>5. CASE rec.status = hot[id].status
  <2>1. p = PhaseOf(id)
    BY <1>1, <1>5 DEF Status
  <2>2. QED
    BY <1>1, <1>4, <2>1 DEF Phases
<1>6. CASE rec.status # hot[id].status
  <2>1. p \in Abstract!Successor[hot[id].status]
    <3>1. CASE rec.status = "None"
      <4>1. hot[id].status \in {"Created", "Repaid", "Defaulted"}
        BY <1>1, <1>6, <3>1 DEF OneMoves, Abstract!Successor, Status
      <4>2. QED
        BY <3>1, <4>1 DEF Abstract!Successor
    <3>2. CASE rec.status # "None"
      BY <1>6, <3>2 DEF OneMoves
    <3>3. QED
      BY <3>1, <3>2
  <2>2. Phases[id] = hot[id].status
    BY <1>1 DEF Phases
  <2> HIDE DEF p
  <2>3. id \in Abstract!Id
    BY DEF Abstract!Id, Id
  <2>4. QED
    BY <1>1, <1>4, <2>1, <2>2, <2>3 DEF Abstract!Move, Phases, PhaseOf
<1>7. QED
  BY <1>5, <1>6

LEMMA StepIsAbstract ==
  ASSUME StorageOk, IndexSound, [Next]_vars
  PROVE  Abstract!Next \/ (Phases' = Phases /\ nextId' = nextId)
<1>1. CASE hot' = hot /\ nextId' = nextId
  BY <1>1 DEF Phases, PhaseOf, Live
<1>2. QED
  BY <1>1, RecordsMove, BirthIsAbstract, MoveIsAbstract DEF Abstract!Next

LEMMA InitIsAbstract == Init => Abstract!Init
<1> SUFFICES ASSUME Init PROVE Abstract!Init
  OBVIOUS
<1>1. \A id \in Id : PhaseOf(id) = "Unborn"
  <2>1. \A id \in Id : id \in Nat /\ id >= 1
    BY ConstantsOk DEF Id
  <2>2. QED
    BY <2>1 DEF Init, PhaseOf, Live, NoHot
<1>2. nextId - 1 = 0
  BY DEF Init
<1>3. QED
  BY <1>1, <1>2 DEF Abstract!Init, Abstract!Id, Id, PhaseOf

(* The contract implements InvoiceLifecycle: whatever the calls, an        *)
(* identifier is handed out once, an invoice moves along the lifecycle     *)
(* only, and Repaid, Defaulted and gone are final (set_listed, set_funded, *)
(* set_repaid, set_defaulted, archive_invoice).                            *)
THEOREM LifecycleImplemented == Spec => ImplementsLifecycle
<1> DEFINE PH == [id \in Id |-> IF Live(id) THEN hot[id].status
                                ELSE IF id < nextId THEN "Gone" ELSE "Unborn"]
<1>1. Init => Abstract!Init
  BY InitIsAbstract
<1>2. StorageOk /\ IndexSound /\ [Next]_vars => [Abstract!Next]_<<PH, nextId - 1>>
  BY StepIsAbstract DEF Phases, PhaseOf
<1>3. QED
  BY <1>1, <1>2, StorageAndIndex, PTL DEF Spec, ImplementsLifecycle, Abstract!Spec

-------------------------------------------------------------------------------
(* What was stated once.                                                   *)

(* No call touches the hash of an invoice that is past Created.            *)
LEMMA HashesStay ==
  ASSUME StorageOk, [Next]_vars, NEW id \in Id, Live(id), hot[id].status # "Created", Live(id)'
  PROVE  (id \in hashed) <=> (id \in hashed')
<1>1. ASSUME NEW j \in Id, RemoveInvoice(j) PROVE (id \in hashed) <=> (id \in hashed')
  <2>1. hot'[j].status = "None"
    BY <1>1 DEF RemoveInvoice, StorageOk, InvoicesOk, NoHot
  <2>2. id # j /\ hashed' = hashed \ {j}
    BY <1>1, <2>1 DEF RemoveInvoice, Live
  <2>3. QED
    BY <2>2
<1>2. CASE Mint
  BY <1>2, MintStores DEF Stored, StoreMinted
<1>3. CASE Owner
  <2>1. ASSUME NEW s \in Sme, NEW j \in Id, NEW inv \in Input, AmendInvoice(s, j, inv)
        PROVE  hashed' = hashed
    BY <2>1 DEF AmendInvoice
  <2>2. ASSUME NEW s \in Sme, NEW j \in Id, WithdrawInvoice(s, j) PROVE RemoveInvoice(j)
    BY <2>2 DEF WithdrawInvoice
  <2>3. ASSUME NEW s \in Sme, NEW j \in Id, CommitMetadataHash(s, j)
        PROVE  hashed' = hashed \union {j} /\ j # id
    BY <2>3 DEF CommitMetadataHash, OwnedDraft
  <2>4. QED
    BY <1>1, <1>3, <2>1, <2>2, <2>3 DEF Owner
<1>4. CASE Lifecycle
  BY <1>1, <1>4 DEF Lifecycle, SetCreated, SetListed, SetFunded, SetRepaid, SetDefaulted,
                    Transition, ArchiveInvoice, RefreshRiskScore
<1>5. CASE Hold
  BY <1>5 DEF Hold, FlagMetadataMismatch, ResolveMetadataDispute, AdminCorrectMetadataHash,
     FreezeInvoice, UnfreezeInvoice, FreezeSmeInvoices, UnfreezeSmeInvoices, SetFrozen, invoiceVars
<1>6. CASE Admin
  BY <1>6 DEF Admin, SetAuthorizedCallers, SetRiskRegistry, SetMintRateLimit,
     SetProtocolConfig, SetAmountBounds, ProposeUpgrade, ExecuteUpgrade, Configure, invoiceVars
<1>7. CASE Tick \/ TogglePause \/ UNCHANGED vars
  BY <1>7 DEF Tick, TogglePause, vars, invoiceVars
<1>8. QED
  BY <1>2, <1>3, <1>4, <1>5, <1>6, <1>7 DEF Next

LEMMA TermsStay ==
  ASSUME StorageOk, IndexSound, [Next]_vars, NEW id \in Id,
         hot[id].status \notin {"None", "Created"}, hot'[id].status # "None"
  PROVE  /\ hot'[id].sme = hot[id].sme /\ hot'[id].amount = hot[id].amount
         /\ hot'[id].dueDate = hot[id].dueDate
<1>1. ASSUME NEW s \in Sme, NEW n \in Nat, Stored(s, n) PROVE hot'[id] = hot[id]
  <2>1. id < nextId /\ id \in Int /\ nextId \in Int
    BY ConstantsOk DEF IndexSound, Live, Id, StorageOk, InvoicesOk
  <2>2. id \notin nextId .. (nextId + n - 1)
    BY <2>1
  <2>3. QED
    BY <1>1, <2>2 DEF Stored, StoreMinted
<1>2. ASSUME NEW j \in Id, NEW rec, OneMoves(j, rec)
      PROVE  /\ hot'[id].sme = hot[id].sme /\ hot'[id].amount = hot[id].amount
             /\ hot'[id].dueDate = hot[id].dueDate
  <2>1. hot'[id] = IF id = j THEN rec ELSE hot[id]
    BY <1>2 DEF OneMoves, StorageOk, InvoicesOk
  <2>2. QED
    BY <1>2, <2>1 DEF OneMoves
<1>3. QED
  BY <1>1, <1>2, RecordsMove

(* Only a mint writes the quota windows, the first mints and the referrers.*)
LEMMA OnlyMintsMint == ASSUME [Next]_vars, ~Mint PROVE UNCHANGED mintVars
<1>1. CASE Owner
  <2>1. ASSUME NEW t \in Sme, NEW id \in Id, NEW inv \in Input, AmendInvoice(t, id, inv)
        PROVE  UNCHANGED mintVars
    BY <2>1 DEF AmendInvoice
  <2>2. ASSUME NEW t \in Sme, NEW id \in Id, WithdrawInvoice(t, id) \/ CommitMetadataHash(t, id)
        PROVE  UNCHANGED mintVars
    BY <2>2 DEF WithdrawInvoice, CommitMetadataHash
  <2>3. QED
    BY <1>1, <2>1, <2>2 DEF Owner
<1>2. CASE Lifecycle
  BY <1>2 DEF Lifecycle, SetCreated, SetListed, SetFunded, SetRepaid, SetDefaulted,
              Transition, ArchiveInvoice, RefreshRiskScore
<1>3. CASE Hold
  BY <1>3 DEF Hold, FlagMetadataMismatch, ResolveMetadataDispute, AdminCorrectMetadataHash,
     FreezeInvoice, UnfreezeInvoice, FreezeSmeInvoices, UnfreezeSmeInvoices, SetFrozen
<1>4. CASE Admin
  BY <1>4 DEF Admin, SetAuthorizedCallers, SetRiskRegistry, SetMintRateLimit,
     SetProtocolConfig, SetAmountBounds, ProposeUpgrade, ExecuteUpgrade, Configure
<1>5. CASE Tick \/ TogglePause \/ UNCHANGED vars
  BY <1>5 DEF Tick, TogglePause, vars
<1>6. QED
  BY <1>1, <1>2, <1>3, <1>4, <1>5 DEF Next

LEMMA ReferralStays ==
  ASSUME StorageOk, [Next]_vars, NEW s \in Sme, firstMint[s] # NoId
  PROVE  firstMint'[s] = firstMint[s] /\ referrer'[s] = referrer[s]
<1>1. ASSUME NEW t \in Sme, NEW n, NEW batch, StoreMinted(t, n, batch)
      PROVE  firstMint'[s] = firstMint[s]
  BY <1>1 DEF StoreMinted, StorageOk, MintingOk
<1>2. ASSUME NEW t \in Sme, NEW inv \in Input, NEW r \in Sme, MintInvoiceWithReferrer(t, inv, r)
      PROVE  referrer'[s] = referrer[s]
  <2>1. t # s
    BY <1>2 DEF MintInvoiceWithReferrer, ReferrerOk
  <2>2. QED
    BY <1>2, <2>1 DEF MintInvoiceWithReferrer, StorageOk, MintingOk
<1>3. CASE Mint
  BY <1>1, <1>2, <1>3 DEF Mint, MintInvoicePlain, MintInvoiceWithReferrer, MintInvoice,
                          MintInvoicesBatch
<1>4. CASE ~Mint
  BY <1>4, OnlyMintsMint DEF mintVars
<1>5. QED
  BY <1>3, <1>4

(* The terms an investor saw at listing stay until the record is archived, *)
(* and the referral of an SME is settled by its first mint: amend_invoice, *)
(* withdraw_invoice, commit_metadata_hash and admin_correct_metadata_hash  *)
(* write only what is in Created.                                          *)
THEOREM StatedTermsStay == Spec => FixedOnceStated
<1> DEFINE Terms == \A id \in Id :
             hot[id].status \notin {"None", "Created"} /\ hot'[id].status # "None" =>
               /\ hot'[id].sme = hot[id].sme
               /\ hot'[id].amount = hot[id].amount
               /\ hot'[id].dueDate = hot[id].dueDate
               /\ (id \in hashed) <=> (id \in hashed')
           Locked == \A s \in Sme :
             firstMint[s] # NoId => firstMint'[s] = firstMint[s] /\ referrer'[s] = referrer[s]
<1>1. StorageOk /\ IndexSound /\ [Next]_vars => Terms /\ Locked
  <2> SUFFICES ASSUME StorageOk, IndexSound, [Next]_vars PROVE Terms /\ Locked
    OBVIOUS
  <2>1. Terms
    <3> SUFFICES ASSUME NEW id \in Id, hot[id].status \notin {"None", "Created"},
                        hot'[id].status # "None"
                 PROVE  /\ hot'[id].sme = hot[id].sme /\ hot'[id].amount = hot[id].amount
                        /\ hot'[id].dueDate = hot[id].dueDate
                        /\ (id \in hashed) <=> (id \in hashed')
      OBVIOUS
    <3>1. QED
      BY TermsStay, HashesStay DEF Live
  <2>2. Locked
    BY ReferralStays
  <2>3. QED
    BY <2>1, <2>2
<1>2. [][Terms]_vars => TermsFixed
  BY PTL DEF TermsFixed
<1>3. [][Locked]_vars => ReferralLocked
  BY PTL DEF ReferralLocked
<1>4. QED
  BY <1>1, <1>2, <1>3, StorageAndIndex, PTL DEF Spec, FixedOnceStated

-------------------------------------------------------------------------------
(* Referrals.                                                              *)

(* walk is the chain of referrers by from r, of n hops.                    *)
Walks(walk, by, r, n) ==
  walk = [k \in 0..n |-> IF k = 0 THEN r
                         ELSE IF walk[k - 1] = NoSme THEN NoSme ELSE by[walk[k - 1]]]

LEMMA WalkExists ==
  ASSUME NEW by, NEW r, NEW n \in Nat
  PROVE  \E walk : Walks(walk, by, r, n)
<1> DEFINE G == {m \in Nat : \E walk : Walks(walk, by, r, m)}
<1>1. 0 \in G
  <2>1. Walks([k \in 0..0 |-> r], by, r, 0)
    BY DEF Walks
  <2>2. QED
    BY <2>1
<1>2. ASSUME NEW m \in Nat, m \in G PROVE m + 1 \in G
  <2>1. PICK walk : Walks(walk, by, r, m)
    BY <1>2
  <2> DEFINE hop == IF walk[m] = NoSme THEN NoSme ELSE by[walk[m]]
             next == [k \in 0..(m + 1) |-> IF k = m + 1 THEN hop ELSE walk[k]]
  <2>2. \A k \in 0..m : walk[k] = IF k = 0 THEN r
                                  ELSE IF walk[k - 1] = NoSme THEN NoSme ELSE by[walk[k - 1]]
    BY <2>1 DEF Walks
  <2>3. \A k \in 0..m : next[k] = walk[k]
    OBVIOUS
  <2>4. next[m + 1] = hop /\ m + 1 # 0 /\ (m + 1) - 1 = m /\ m \in 0..m
    OBVIOUS
  <2>5. \A k \in 1..m : k \in 0..m /\ k - 1 \in 0..m
    OBVIOUS
  <2>6. \A k \in 0..(m + 1) : next[k] = IF k = 0 THEN r
                                 ELSE IF next[k - 1] = NoSme THEN NoSme ELSE by[next[k - 1]]
    <3> SUFFICES ASSUME NEW k \in 0..(m + 1)
                 PROVE  next[k] = IF k = 0 THEN r
                                  ELSE IF next[k - 1] = NoSme THEN NoSme ELSE by[next[k - 1]]
      OBVIOUS
    <3>1. k = 0 \/ k \in 1..m \/ k = m + 1
      OBVIOUS
    <3>2. 0 \in 0..m
      OBVIOUS
    <3> HIDE DEF next
    <3>3. QED
      BY <2>2, <2>3, <2>4, <2>5, <3>1, <3>2
  <2>7. next = [k \in 0..(m + 1) |-> IF k = 0 THEN r
                  ELSE IF next[k - 1] = NoSme THEN NoSme ELSE by[next[k - 1]]]
    <3>1. next = [k \in 0..(m + 1) |-> next[k]]
      OBVIOUS
    <3> HIDE DEF next
    <3>2. QED
      BY <2>6, <3>1
  <2>8. Walks(next, by, r, m + 1)
    BY <2>7 DEF Walks
  <2> HIDE DEF next
  <2>9. m + 1 \in Nat
    OBVIOUS
  <2>10. QED
    BY <2>8, <2>9
<1>3. Nat \subseteq G
  <2> HIDE DEF G
  <2>1. QED
    BY <1>1, <1>2, NumberInduction
<1>4. QED
  BY <1>3

(* One hop of the chain at a time.                                         *)
LEMMA WalkHops ==
  ASSUME NEW by, NEW r
  PROVE  /\ Walk(by, r)[0] = r
         /\ \A n \in 0..(MaxHops - 1) :
              Walk(by, r)[n + 1] = IF Walk(by, r)[n] = NoSme THEN NoSme ELSE by[Walk(by, r)[n]]
<1>1. MaxHops \in Nat
  BY ConstantsOk
<1>2. Walks(Walk(by, r), by, r, MaxHops)
  <2>1. Walk(by, r) = CHOOSE walk : Walks(walk, by, r, MaxHops)
    BY DEF Walk, Walks
  <2>2. QED
    BY <1>1, <2>1, WalkExists
<1>3. \A k \in 0..MaxHops :
        Walk(by, r)[k] = IF k = 0 THEN r
                         ELSE IF Walk(by, r)[k - 1] = NoSme THEN NoSme ELSE by[Walk(by, r)[k - 1]]
  BY <1>2 DEF Walks
<1>4. 0 \in 0..MaxHops
  BY <1>1
<1>5. ASSUME NEW n \in 0..(MaxHops - 1) PROVE n + 1 \in 0..MaxHops /\ n + 1 # 0 /\ (n + 1) - 1 = n
  BY <1>1
<1>6. QED
  BY <1>3, <1>4, <1>5

(* Each SME can be given a rank below that of its referrer, and only an    *)
(* SME that has minted has a referrer.                                     *)
Ranked ==
  \E rank \in [Sme -> Nat] : \A s \in Sme : referrer[s] # NoSme => rank[s] < rank[referrer[s]]
FirstReferred == \A s \in Sme : referrer[s] # NoSme => firstMint[s] # NoId

LEMMA RankedIsAcyclic ==
  ASSUME StorageOk, Ranked
  PROVE  ReferralsAcyclic
<1>1. PICK rank \in [Sme -> Nat] :
        \A s \in Sme : referrer[s] # NoSme => rank[s] < rank[referrer[s]]
  BY DEF Ranked
<1>2. MaxHops \in Nat /\ NoSme \notin Sme /\ \A s \in Sme : referrer[s] \in Sme \union {NoSme}
  BY ConstantsOk DEF StorageOk, MintingOk
<1>3. ASSUME NEW s \in Sme, referrer[s] # NoSme, NEW n \in 0..MaxHops
      PROVE  ReferralChain(referrer[s])[n] # s
  <2> DEFINE c    == ReferralChain(referrer[s])
             G    == {m \in Nat : m <= MaxHops =>
                        c[m] = NoSme \/ (c[m] \in Sme /\ rank[s] < rank[c[m]])}
  <2>1. c[0] = referrer[s] /\ \A m \in 0..(MaxHops - 1) :
          c[m + 1] = IF c[m] = NoSme THEN NoSme ELSE referrer[c[m]]
    BY WalkHops DEF ReferralChain
  <2> HIDE DEF c
  <2>2. 0 \in G
    BY <1>1, <1>2, <1>3, <2>1
  <2>3. ASSUME NEW m \in Nat, m \in G PROVE m + 1 \in G
    <3>1. SUFFICES ASSUME m + 1 <= MaxHops
                   PROVE  c[m + 1] = NoSme \/ (c[m + 1] \in Sme /\ rank[s] < rank[c[m + 1]])
      OBVIOUS
    <3>2. m \in 0..(MaxHops - 1) /\ m <= MaxHops
      BY <1>2, <3>1
    <3>3. c[m] = NoSme \/ (c[m] \in Sme /\ rank[s] < rank[c[m]])
      BY <2>3, <3>2
    <3>4. CASE c[m] = NoSme
      BY <2>1, <3>2, <3>4
    <3>5. CASE c[m] \in Sme /\ rank[s] < rank[c[m]]
      <4>1. c[m + 1] = referrer[c[m]]
        BY <1>2, <2>1, <3>2, <3>5
      <4>2. referrer[c[m]] # NoSme => rank[c[m]] < rank[referrer[c[m]]] /\ referrer[c[m]] \in Sme
        BY <1>1, <1>2, <3>5
      <4>3. ASSUME NEW x \in Sme, NEW y \in Sme PROVE rank[x] \in Nat /\ rank[y] \in Nat
        BY <1>1
      <4>4. QED
        BY <3>5, <4>1, <4>2, <4>3
    <3>6. QED
      BY <3>3, <3>4, <3>5
  <2>4. Nat \subseteq G
    <3> HIDE DEF G
    <3>1. QED
      BY <2>2, <2>3, NumberInduction
  <2>5. c[n] = NoSme \/ (c[n] \in Sme /\ rank[s] < rank[c[n]])
    BY <1>2, <2>4
  <2>6. QED
    BY <1>1, <1>2, <2>5 DEF c
<1>4. QED
  BY <1>3 DEF ReferralsAcyclic

(* The walk of mint_invoice_with_referrer finds every SME above the        *)
(* referrer; they are ranked anew, above the newcomer.                     *)
LEMMA LinkKeepsRank ==
  ASSUME StorageOk, Ranked, NEW s \in Sme, NEW r \in Sme, ReferrerOk(s, r),
         referrer' = [referrer EXCEPT ![s] = r]
  PROVE  Ranked'
<1> DEFINE c == ReferralChain(r)
           R == {c[n] : n \in 0..MaxHops} \ {NoSme}
<1>1. PICK rank \in [Sme -> Nat] :
        \A x \in Sme : referrer[x] # NoSme => rank[x] < rank[referrer[x]]
  BY DEF Ranked
<1>2. MaxHops \in Nat /\ NoSme \notin Sme /\ referrer \in [Sme -> Sme \union {NoSme}]
  BY ConstantsOk DEF StorageOk, MintingOk
<1>3. c[0] = r /\ \A n \in 0..(MaxHops - 1) :
        c[n + 1] = IF c[n] = NoSme THEN NoSme ELSE referrer[c[n]]
  BY WalkHops DEF ReferralChain
<1>4. (\A n \in 0..(MaxHops - 1) : c[n] # s) /\ c[MaxHops] = NoSme /\ r # s
  BY DEF ReferrerOk
<1> HIDE DEF c
<1>5. r \in R
  <2>1. 0 \in 0..MaxHops
    BY <1>2
  <2>2. QED
    BY <1>2, <1>3, <2>1
<1>6. s \notin R
  <2>1. \A n \in 0..MaxHops : n = MaxHops \/ n \in 0..(MaxHops - 1)
    BY <1>2
  <2>2. s # NoSme
    BY <1>2
  <2>3. QED
    BY <1>4, <2>1, <2>2
<1>7. ASSUME NEW x \in R, referrer[x] # NoSme PROVE referrer[x] \in R
  <2>1. PICK n \in 0..MaxHops : x = c[n] /\ x # NoSme
    OBVIOUS
  <2>2. n \in 0..(MaxHops - 1) /\ n + 1 \in 0..MaxHops
    BY <1>2, <1>4, <2>1
  <2>3. c[n + 1] = referrer[x]
    BY <1>3, <2>1, <2>2
  <2>4. QED
    BY <1>7, <2>2, <2>3
<1> DEFINE K    == rank[s] + 1
           up   == [x \in Sme |-> IF x \in R THEN rank[x] + K ELSE rank[x]]
<1>8. (\A x \in Sme : rank[x] \in Nat) /\ K \in Nat /\ K = rank[s] + 1
  BY <1>1
<1> HIDE DEF R, K
<1>9. up \in [Sme -> Nat]
  BY <1>8
<1>10. ASSUME NEW x \in Sme, referrer'[x] # NoSme PROVE up[x] < up[referrer'[x]]
  <2>1. CASE x = s
    <3>1. referrer'[x] = r
      BY <1>2, <2>1
    <3>2. up[r] = rank[r] + K /\ up[s] = rank[s]
      BY <1>5, <1>6
    <3>3. rank[r] \in Nat /\ rank[s] \in Nat
      BY <1>8
    <3> HIDE DEF up
    <3>4. QED
      BY <1>8, <2>1, <3>1, <3>2, <3>3
  <2>2. CASE x # s
    <3> DEFINE y == referrer[x]
    <3>1. referrer'[x] = y /\ y \in Sme /\ y # NoSme
      BY <1>2, <1>10, <2>2
    <3>2. rank[x] < rank[y] /\ rank[x] \in Nat /\ rank[y] \in Nat
      BY <1>1, <1>8, <3>1
    <3>3. x \in R => y \in R
      BY <1>7, <3>1
    <3>4. up[x] = (IF x \in R THEN rank[x] + K ELSE rank[x])
          /\ up[y] = IF y \in R THEN rank[y] + K ELSE rank[y]
      BY <3>1
    <3> HIDE DEF y, up
    <3>5. QED
      BY <1>8, <3>1, <3>2, <3>3, <3>4
  <2>3. QED
    BY <2>1, <2>2
<1>11. \E f \in [Sme -> Nat] : \A x \in Sme : referrer'[x] # NoSme => f[x] < f[referrer'[x]]
  <2> HIDE DEF up
  <2>1. QED
    BY <1>9, <1>10
<1>12. QED
  BY <1>11 DEF Ranked

LEMMA ReferralsStep ==
  ASSUME StorageOk, Ranked, FirstReferred, [Next]_vars
  PROVE  Ranked' /\ FirstReferred'
<1>1. ASSUME referrer' = referrer, \A s \in Sme : firstMint[s] # NoId => firstMint'[s] # NoId
      PROVE  Ranked' /\ FirstReferred'
  BY <1>1 DEF Ranked, FirstReferred
<1>2. ASSUME NEW s \in Sme, NEW inv \in Input, NEW r \in Sme, MintInvoiceWithReferrer(s, inv, r)
      PROVE  Ranked' /\ FirstReferred'
  <2>1. ReferrerOk(s, r) /\ referrer' = [referrer EXCEPT ![s] = r] /\ firstMint[s] = NoId
    BY <1>2 DEF MintInvoiceWithReferrer, ReferrerOk
  <2>2. Ranked'
    BY <2>1, LinkKeepsRank
  <2>3. nextId # NoId
    BY ConstantsOk DEF StorageOk, InvoicesOk, NoId
  <2>4. firstMint' = [firstMint EXCEPT ![s] = nextId]
    BY <1>2, <2>1 DEF MintInvoiceWithReferrer, MintInvoice, StoreMinted
  <2>5. QED
    BY <2>1, <2>2, <2>3, <2>4 DEF FirstReferred, StorageOk, MintingOk
<1>3. CASE Mint
  <2>1. \A s \in Sme : firstMint[s] # NoId => firstMint'[s] # NoId
    BY ReferralStays
  <2>2. ASSUME NEW s \in Sme, NEW inv \in Input, MintInvoicePlain(s, inv) PROVE referrer' = referrer
    BY <2>2 DEF MintInvoicePlain
  <2>3. ASSUME NEW s \in Sme, NEW n \in 0..MaxBatch, NEW batch \in [1..n -> Input],
               MintInvoicesBatch(s, n, batch)
        PROVE  referrer' = referrer
    BY <2>3 DEF MintInvoicesBatch
  <2>4. QED
    BY <1>1, <1>2, <1>3, <2>1, <2>2, <2>3 DEF Mint
<1>4. CASE ~Mint
  BY <1>1, <1>4, OnlyMintsMint DEF mintVars
<1>5. QED
  BY <1>3, <1>4

LEMMA InitReferrals == Init => Ranked /\ FirstReferred
<1> SUFFICES ASSUME Init PROVE Ranked /\ FirstReferred
  OBVIOUS
<1>1. \A s \in Sme : referrer[s] = NoSme
  BY DEF Init
<1>2. [s \in Sme |-> 0] \in [Sme -> Nat]
  OBVIOUS
<1>3. QED
  BY <1>1, <1>2 DEF Ranked, FirstReferred

(* No order in which SMEs name each other at their first mint makes an SME *)
(* its own referrer, over however many hops: the walk of                   *)
(* mint_invoice_with_referrer (lib.rs:751-770) refuses a chain that it     *)
(* cannot follow to its end.                                               *)
THEOREM NoReferralCycle == Spec => []ReferralsAcyclic
<1>1. Init => Ranked /\ FirstReferred
  BY InitReferrals
<1>2. StorageOk /\ Ranked /\ FirstReferred /\ [Next]_vars => Ranked' /\ FirstReferred'
  BY ReferralsStep
<1>3. StorageOk /\ Ranked => ReferralsAcyclic
  BY RankedIsAcyclic
<1>4. QED
  BY <1>1, <1>2, <1>3, StorageAndIndex, PTL DEF Spec

-------------------------------------------------------------------------------
(* Metadata disputes.                                                      *)

(* A dispute is about an identifier that was handed out.                   *)
DisputesOk == DisputeHasHash /\ \A id \in Id : dispute[id] # "None" => id < nextId

(* A call that leaves hashes and disputes alone, and which records live.   *)
LEMMA DisputesFrame ==
  ASSUME StorageOk, IndexSound, DisputesOk, hashed' = hashed, dispute' = dispute,
         nextId' \in Nat, nextId <= nextId',
         \A id \in Id : id < nextId => (Live(id)' <=> Live(id))
  PROVE  DisputesOk'
<1>1. nextId \in Nat /\ (\A id \in Id : id \in Nat) /\ hashed \subseteq Id
  BY ConstantsOk DEF StorageOk, InvoicesOk, Id
<1>2. \A id \in hashed : id \in Id /\ Live(id) /\ id < nextId
  BY <1>1 DEF IndexSound, DisputesOk, DisputeHasHash
<1>3. \A id \in Id : id < nextId => id < nextId'
  BY <1>1
<1>4. QED
  BY <1>2, <1>3 DEF DisputesOk, DisputeHasHash

LEMMA DisputesMint == ASSUME StorageOk, IndexSound, DisputesOk, Mint PROVE DisputesOk'
<1>1. PICK s \in Sme, n \in Nat : Stored(s, n)
  BY MintStores
<1>2. /\ hashed' = hashed /\ nextId' = nextId + n
      /\ \A id \in Id : id \notin nextId..(nextId + n - 1) => hot'[id] = hot[id]
  BY <1>1 DEF Stored, StoreMinted
<1>3. dispute' = dispute
  BY DEF Mint, MintInvoicePlain, MintInvoiceWithReferrer, MintInvoice, MintInvoicesBatch, holdVars
<1>4. nextId \in Nat /\ \A id \in Id : id \in Nat
  BY ConstantsOk DEF StorageOk, InvoicesOk, Id
<1>5. \A id \in Id : id < nextId => hot'[id] = hot[id]
  BY <1>2, <1>4
<1>6. QED
  BY <1>2, <1>3, <1>4, <1>5, DisputesFrame DEF Live

(* The calls that write the hash of an invoice.                            *)
LEMMA DisputesRecord ==
  ASSUME StorageOk, IndexSound, DisputesOk, NEW id \in Id, dispute' = dispute, nextId' = nextId,
         \/ RemoveInvoice(id)
         \/ Live(id) /\ hot' = hot /\ hashed' = hashed \union {id}
  PROVE  DisputesOk'
<1>1. CASE RemoveInvoice(id)
  <2>1. hashed' = hashed \ {id} /\ ~Live(id)' /\ \A j \in Id : j # id => (Live(j)' <=> Live(j))
    BY <1>1 DEF RemoveInvoice, StorageOk, InvoicesOk, NoHot, Live
  <2>2. hashed \subseteq Id
    BY DEF StorageOk, InvoicesOk
  <2>3. QED
    BY <2>1, <2>2 DEF DisputesOk, DisputeHasHash
<1>2. CASE Live(id) /\ hot' = hot /\ hashed' = hashed \union {id}
  BY <1>2 DEF DisputesOk, DisputeHasHash, Live
<1>3. QED
  BY <1>1, <1>2

LEMMA DisputesStep ==
  ASSUME StorageOk, IndexSound, DisputesOk, [Next]_vars
  PROVE  DisputesOk'
<1>1. nextId \in Nat /\ hot \in [Id -> HotRecord]
  BY DEF StorageOk, InvoicesOk
<1>2. ASSUME hashed' = hashed, dispute' = dispute, nextId' = nextId,
             hot' = hot \/ (\E id \in Id : \E rec : hot' = [hot EXCEPT ![id] = rec] /\ Live(id)
                                                /\ rec.status # "None")
      PROVE  DisputesOk'
  <2>1. \A id \in Id : Live(id)' <=> Live(id)
    BY <1>1, <1>2 DEF Live
  <2>2. QED
    BY <1>1, <1>2, <2>1, DisputesFrame
<1>3. ASSUME NEW s \in Sme, NEW id \in Id, NEW inv \in Input, AmendInvoice(s, id, inv)
      PROVE  DisputesOk'
  <2> DEFINE rec == [hot[id] EXCEPT !.amount = inv.amount, !.dueDate = inv.dueDate,
                                    !.riskScore = inv.riskScore]
  <2>1. /\ hot' = [hot EXCEPT ![id] = rec] /\ nextId' = nextId /\ hashed' = hashed
        /\ dispute' = dispute /\ hot[id].status = "Created"
    BY <1>3 DEF AmendInvoice, OwnedDraft, holdVars
  <2>2. rec.status = hot[id].status
    BY <1>1 DEF HotRecord
  <2> HIDE DEF rec
  <2>3. QED
    BY <1>2, <2>1, <2>2 DEF Live
<1>4. CASE Owner
  <2>1. ASSUME NEW s \in Sme, NEW id \in Id, WithdrawInvoice(s, id) PROVE DisputesOk'
    BY <2>1, DisputesRecord DEF WithdrawInvoice, RemoveInvoice, holdVars
  <2>2. ASSUME NEW s \in Sme, NEW id \in Id, CommitMetadataHash(s, id) PROVE DisputesOk'
    BY <2>2, DisputesRecord DEF CommitMetadataHash, OwnedDraft, Live, holdVars
  <2>3. QED
    BY <1>3, <1>4, <2>1, <2>2 DEF Owner
<1>5. CASE Lifecycle
  <2>1. ASSUME NEW id \in Id, ArchiveInvoice(id) PROVE DisputesOk'
    BY <2>1, DisputesRecord DEF ArchiveInvoice, RemoveInvoice, holdVars
  <2>2. ASSUME NEW id \in Id,
          SetCreated(id) \/ SetListed(id) \/ SetFunded(id) \/ SetRepaid(id) \/ SetDefaulted(id)
        PROVE  DisputesOk'
    <3>1. nextId' = nextId /\ hashed' = hashed /\ dispute' = dispute /\ hot'[id].status # "None"
      BY <1>1, <2>2 DEF SetCreated, SetListed, SetFunded, SetRepaid, SetDefaulted, Transition,
                        holdVars, HotRecord
    <3>2. PICK rec : OneMoves(id, rec)
      BY <2>2, TransitionMoves
    <3>3. QED
      BY <1>1, <1>2, <3>1, <3>2 DEF OneMoves
  <2>3. ASSUME NEW id \in Id, RefreshRiskScore(id) PROVE DisputesOk'
    <3>1. /\ nextId' = nextId /\ hashed' = hashed /\ dispute' = dispute
          /\ \A j \in Id : hot'[j].status = hot[j].status
      BY <1>1, <2>3 DEF RefreshRiskScore, holdVars, HotRecord
    <3>2. QED
      BY <1>1, <3>1, DisputesFrame DEF Live
  <2>4. QED
    BY <1>5, <2>1, <2>2, <2>3 DEF Lifecycle
<1>6. CASE Hold
  <2>1. ASSUME NEW id \in Id, FlagMetadataMismatch(id) PROVE DisputesOk'
    BY <2>1 DEF FlagMetadataMismatch, invoiceVars, DisputesOk, DisputeHasHash, Live, IndexSound,
                StorageOk, HoldOk
  <2>2. ASSUME NEW id \in Id, NEW upheld \in BOOLEAN, ResolveMetadataDispute(id, upheld)
        PROVE  DisputesOk'
    BY <2>2 DEF ResolveMetadataDispute, invoiceVars, DisputesOk, DisputeHasHash, Live,
                StorageOk, HoldOk
  <2>3. ASSUME NEW id \in Id, AdminCorrectMetadataHash(id) PROVE DisputesOk'
    BY <2>3, DisputesRecord DEF AdminCorrectMetadataHash, holdVars, Live
  <2>4. ASSUME NEW F, SetFrozen(F) PROVE DisputesOk'
    BY <1>2, <2>4 DEF SetFrozen, invoiceVars
  <2>5. QED
    BY <1>6, <2>1, <2>2, <2>3, <2>4 DEF Hold, FreezeInvoice, UnfreezeInvoice, FreezeSmeInvoices,
                                        UnfreezeSmeInvoices
<1>7. CASE Admin
  BY <1>2, <1>7 DEF Admin, SetAuthorizedCallers, SetRiskRegistry, SetMintRateLimit,
     SetProtocolConfig, SetAmountBounds, ProposeUpgrade, ExecuteUpgrade, Configure, invoiceVars,
     holdVars
<1>8. CASE Tick \/ TogglePause \/ UNCHANGED vars
  BY <1>2, <1>8 DEF Tick, TogglePause, vars, invoiceVars, holdVars
<1>9. QED
  BY <1>4, <1>5, <1>6, <1>7, <1>8, DisputesMint DEF Next

-------------------------------------------------------------------------------
(* The audit ring.                                                         *)

LEMMA RemainderIs ==
  ASSUME NEW N \in Nat \ {0}, NEW q \in Int, NEW r \in 0..(N - 1), NEW a \in Int, a = N * q + r
  PROVE  a % N = r
<1> DEFINE d == a \div N
           e == a % N
<1>1. d \in Int /\ e \in 0..(N - 1) /\ a = N * d + e
  OBVIOUS
<1> HIDE DEF d, e
<1>2. N * (q - d) = e - r /\ q - d \in Int
  BY <1>1
<1>3. N * (q - d) = N * q - N * d
  BY <1>1
<1>4. q - d >= 1 => N * (q - d) >= N
  BY <1>1
<1>5. q - d <= -1 => N * (q - d) <= -N
  BY <1>1
<1>6. e - r < N /\ e - r > -N
  BY <1>1
<1>7. q - d = 0
  BY <1>1, <1>2, <1>4, <1>5, <1>6
<1>8. e = r
  BY <1>1, <1>2, <1>7
<1>9. QED
  BY <1>8 DEF e

LEMMA Remainders ==
  ASSUME NEW N \in Nat \ {0}, NEW a \in Int
  PROVE  /\ a % N \in 0..(N - 1) /\ (a - N) % N = a % N
         /\ (a + 1) % N = ((a % N) + 1) % N
         /\ a \in 0..(N - 1) => a % N = a
<1> DEFINE q == a \div N
           r == a % N
<1>1. q \in Int /\ r \in 0..(N - 1) /\ a = N * q + r
  OBVIOUS
<1> HIDE DEF q, r
<1>2. (a - N) % N = r
  <2>1. a - N = N * (q - 1) + r /\ q - 1 \in Int /\ a - N \in Int
    BY <1>1
  <2>2. QED
    BY <1>1, <2>1, RemainderIs
<1>3. (a + 1) % N = (r + 1) % N
  <2>1. CASE r + 1 < N
    <3>1. a + 1 = N * q + (r + 1) /\ r + 1 \in 0..(N - 1) /\ a + 1 \in Int /\ r + 1 = N * 0 + (r + 1)
      BY <1>1, <2>1
    <3>2. (a + 1) % N = r + 1 /\ (r + 1) % N = r + 1
      BY <1>1, <3>1, RemainderIs
    <3>3. QED
      BY <3>2
  <2>2. CASE r + 1 = N
    <3>1. /\ a + 1 = N * (q + 1) + 0 /\ q + 1 \in Int /\ 0 \in 0..(N - 1) /\ a + 1 \in Int
          /\ r + 1 = N * 1 + 0 /\ r + 1 \in Int
      BY <1>1, <2>2
    <3>2. (a + 1) % N = 0 /\ (r + 1) % N = 0
      BY <3>1, RemainderIs
    <3>3. QED
      BY <3>2
  <2>3. QED
    BY <1>1, <2>1, <2>2
<1>4. a \in 0..(N - 1) => a % N = a
  <2>1. a = N * 0 + a
    OBVIOUS
  <2>2. QED
    BY <2>1, RemainderIs
<1>5. QED
  BY <1>1, <1>2, <1>3, <1>4 DEF r

(* One more entry: the slot it is written to held the oldest.              *)
LEMMA AuditAppended ==
  ASSUME audit \in AuditRecord, AuditRingLatest, AppendAuditEntry
  PROVE  AuditRingLatest'
<1> DEFINE N == AuditSize
           a == audit.total
           b == audit'.total
<1>1. N \in Nat \ {0} /\ a \in Nat /\ a \in Int
  BY ConstantsOk DEF AuditRecord
<1>2. /\ audit.head = a % N
      /\ \A i \in 0..(N - 1) :
           IF i < a THEN audit.slot[i] \in (a - N)..(a - 1) /\ audit.slot[i] % N = i
                    ELSE audit.slot[i] = NoTime
  BY DEF AuditRingLatest
<1>3. /\ b = a + 1 /\ audit'.head = (audit.head + 1) % N
      /\ audit'.slot = [audit.slot EXCEPT ![audit.head] = a]
  BY DEF AppendAuditEntry
<1>4. audit.slot \in [0..(N - 1) -> (0..MaxAudit) \union {NoTime}]
  BY DEF AuditRecord
<1> HIDE DEF N, a, b
<1>5. audit.head \in 0..(N - 1) /\ audit'.head = b % N
  <2>1. a % N \in 0..(N - 1) /\ b % N = ((a % N) + 1) % N
    BY <1>1, <1>3, Remainders
  <2>2. audit.head = a % N /\ audit'.head = (audit.head + 1) % N
    BY <1>2, <1>3
  <2>3. QED
    BY <2>1, <2>2
<1>6. \A i \in 0..(N - 1) : audit'.slot[i] = IF i = audit.head THEN a ELSE audit.slot[i]
  BY <1>3, <1>4, <1>5
<1>7. ASSUME NEW i \in 0..(N - 1)
      PROVE  IF i < b
               THEN audit'.slot[i] \in (b - N)..(b - 1) /\ audit'.slot[i] % N = i
               ELSE audit'.slot[i] = NoTime
  <2>1. CASE i = audit.head
    <3>1. audit'.slot[i] = a /\ a % N = i
      BY <1>2, <1>6, <2>1
    <3>2. i < b
      <4>1. CASE a < N
        <5>1. a % N = a
          BY <1>1, <4>1, Remainders
        <5>2. QED
          BY <1>1, <1>3, <3>1, <5>1
      <4>2. CASE ~(a < N)
        BY <1>1, <1>3, <4>2
      <4>3. QED
        BY <4>1, <4>2
    <3>3. a \in (b - N)..(b - 1)
      BY <1>1, <1>3
    <3>4. QED
      BY <3>1, <3>2, <3>3
  <2>2. CASE i # audit.head
    <3>1. audit'.slot[i] = audit.slot[i]
      BY <1>6, <2>2
    <3>2. CASE i < a
      <4> DEFINE k == audit.slot[i]
      <4>1. k \in (a - N)..(a - 1) /\ k % N = i
        BY <1>2, <3>2
      <4>2. (a - N) % N = audit.head
        BY <1>1, <1>2, Remainders
      <4>3. k # a - N
        BY <2>2, <4>1, <4>2
      <4> HIDE DEF k
      <4>4. k \in (b - N)..(b - 1) /\ i < b
        BY <1>1, <1>3, <3>2, <4>1, <4>3
      <4>5. QED
        BY <3>1, <4>1, <4>4 DEF k
    <3>3. CASE ~(i < a)
      <4>1. a < N /\ a \in 0..(N - 1)
        BY <1>1, <3>3
      <4>2. audit.head = a
        BY <1>1, <1>2, <4>1, Remainders
      <4>3. ~(i < b)
        BY <1>1, <1>3, <2>2, <3>3, <4>2
      <4>4. audit.slot[i] = NoTime
        BY <1>2, <3>3
      <4>5. QED
        BY <3>1, <4>3, <4>4
    <3>4. QED
      BY <3>2, <3>3
  <2>3. QED
    BY <2>1, <2>2
<1>8. QED
  BY <1>5, <1>7 DEF AuditRingLatest, N, b

LEMMA AuditStep ==
  ASSUME StorageOk, AuditRingLatest, [Next]_vars
  PROVE  AuditRingLatest'
<1>1. ASSUME audit' = audit PROVE AuditRingLatest'
  BY <1>1 DEF AuditRingLatest
<1>2. AppendAuditEntry => AuditRingLatest'
  BY AuditAppended DEF StorageOk
<1>3. CASE Mint
  BY <1>1, <1>3 DEF Mint, MintInvoicePlain, MintInvoiceWithReferrer, MintInvoice, MintInvoicesBatch
<1>4. CASE Owner
  <2>1. ASSUME NEW s \in Sme, NEW id \in Id, NEW inv \in Input, AmendInvoice(s, id, inv)
        PROVE  audit' = audit
    BY <2>1 DEF AmendInvoice
  <2>2. ASSUME NEW s \in Sme, NEW id \in Id, WithdrawInvoice(s, id) \/ CommitMetadataHash(s, id)
        PROVE  audit' = audit
    BY <2>2 DEF WithdrawInvoice, CommitMetadataHash
  <2>3. QED
    BY <1>1, <1>4, <2>1, <2>2 DEF Owner
<1>5. CASE Lifecycle
  BY <1>1, <1>2, <1>5 DEF Lifecycle, SetCreated, SetListed, SetFunded, SetRepaid, SetDefaulted,
                    ArchiveInvoice, RefreshRiskScore
<1>6. CASE Hold
  BY <1>1, <1>2, <1>6 DEF Hold, FlagMetadataMismatch, ResolveMetadataDispute,
     AdminCorrectMetadataHash, FreezeInvoice, UnfreezeInvoice, FreezeSmeInvoices,
     UnfreezeSmeInvoices
<1>7. CASE Admin
  BY <1>1, <1>2, <1>7 DEF Admin, SetAuthorizedCallers, SetRiskRegistry, SetMintRateLimit,
     SetProtocolConfig, SetAmountBounds, ProposeUpgrade, ExecuteUpgrade
<1>8. CASE Tick \/ TogglePause \/ UNCHANGED vars
  BY <1>1, <1>8 DEF Tick, TogglePause, vars
<1>9. QED
  BY <1>3, <1>4, <1>5, <1>6, <1>7, <1>8 DEF Next

-------------------------------------------------------------------------------
(* The mint quota.                                                         *)

Since(s, t) == {id \in Id : Live(id) /\ hot[id].sme = s /\ hot[id].createdAt > t}

(* Windows are kept only while a limit is configured.                      *)
WindowsOk ==
  QuotaCoversMints /\ (config.rate = NoLimit => \A s \in Sme : window[s] = NoWindow)

(* What charging does to a window: it is opened now or grows, by at least  *)
(* n.                                                                      *)
Charged(w, w1, n) ==
  IF config.rate = NoLimit THEN w1 = w
  ELSE \E k \in Nat : /\ k >= n
                      /\ \/ w1 = [start |-> now, used |-> k]
                         \/ w.start # NoTime /\ w1 = [start |-> w.start, used |-> w.used + k]

LEMMA RateTypes ==
  ASSUME StorageOk
  PROVE  /\ now \in Nat /\ now # NoTime
         /\ config.rate # NoLimit => config.rate \in RateLimits /\ config.rate.window \in Nat \ {0}
         /\ NoLimit \notin RateLimits
<1>1. now \in Nat /\ now # NoTime
  BY ConstantsOk DEF StorageOk, EnvOk, Time, NoTime
<1>2. config.rate \in RateLimits \union {NoLimit}
  BY DEF StorageOk, ConfigRecord
<1>3. NoLimit \notin RateLimits /\ \A r \in RateLimits : r.window \in Nat \ {0}
  BY ConstantsOk DEF NoLimit
<1>4. QED
  BY <1>1, <1>2, <1>3

LEMMA ChargedOnce ==
  ASSUME StorageOk, NEW w \in WindowRecord, NEW n \in Nat
  PROVE  Charged(w, Charge(w, n), n)
<1>1. [w EXCEPT !.used = @ + n] = [start |-> w.start, used |-> w.used + n]
  BY DEF WindowRecord
<1>2. n >= n
  OBVIOUS
<1>3. QED
  BY <1>1, <1>2 DEF Charge, Charged

LEMMA ChargedTwice ==
  ASSUME StorageOk, NEW w \in WindowRecord
  PROVE  Charged(w, ChargeMint(w), 1)
<1>1. CASE config.rate = NoLimit
  BY <1>1 DEF Charged, ChargeMint, Charge
<1>2. CASE config.rate # NoLimit
  <2>1. /\ now \in Nat /\ now # NoTime /\ config.rate.window \in Nat \ {0}
        /\ ~(now - now >= config.rate.window)
    BY <1>2, RateTypes
  <2>2. CASE w.start = NoTime \/ now - w.start >= config.rate.window
    <3>1. Charge(w, 1) = [start |-> now, used |-> 1]
      BY <1>2, <2>2 DEF Charge
    <3>2. ChargeMint(w) = [start |-> now, used |-> 2]
      BY <1>2, <2>1, <3>1 DEF ChargeMint, Charge
    <3>3. QED
      BY <1>2, <3>2 DEF Charged
  <2>3. CASE ~(w.start = NoTime \/ now - w.start >= config.rate.window)
    <3>1. Charge(w, 1) = [start |-> w.start, used |-> w.used + 1]
      BY <1>2, <2>3 DEF Charge, WindowRecord
    <3>2. ChargeMint(w) = [start |-> w.start, used |-> w.used + 1 + 1]
      BY <1>2, <2>3, <3>1 DEF ChargeMint, Charge
    <3>3. w.used + 1 + 1 = w.used + 2
      BY DEF WindowRecord
    <3>4. ChargeMint(w) = [start |-> w.start, used |-> w.used + 2] /\ w.start # NoTime
      BY <2>3, <3>2, <3>3
    <3>5. 2 \in Nat /\ 2 >= 1
      OBVIOUS
    <3>6. QED
      BY <1>2, <3>4, <3>5 DEF Charged
  <2>4. QED
    BY <2>2, <2>3
<1>3. QED
  BY <1>1, <1>2

LEMMA SinceFinite ==
  ASSUME NEW s, NEW t
  PROVE  /\ IsFiniteSet(Since(s, t)) /\ Cardinality(Since(s, t)) \in Nat
         /\ IsFiniteSet(Since(s, t)') /\ Cardinality(Since(s, t)') \in Nat
<1>1. IsFiniteSet(Id)
  BY ConstantsOk, FS_Interval DEF Id
<1>2. Since(s, t) \subseteq Id /\ Since(s, t)' \subseteq Id
  BY DEF Since
<1>3. QED
  BY <1>1, <1>2, FS_Subset, FS_CardinalityType

(* Storing n invoices of s after charging its window for them.             *)
LEMMA WindowsMint ==
  ASSUME StorageOk, IndexSound, TimesMatchStatus, WindowsOk, NEW s \in Sme, NEW n \in Nat,
         NEW batch \in [1..n -> Input], StoreMinted(s, n, batch), now' = now, config' = config,
         NEW w1 \in WindowRecord, Charged(window[s], w1, n), WithinQuota(w1),
         window' = [window EXCEPT ![s] = w1]
  PROVE  WindowsOk'
<1> DEFINE ids == nextId .. (nextId + n - 1)
<1>1. /\ nextId \in Nat /\ window \in [Sme -> WindowRecord]
      /\ \A x \in Sme : window[x].used \in Nat
  BY DEF StorageOk, InvoicesOk, MintingOk, WindowRecord
<1>2. /\ \A id \in Id : id \notin ids => hot'[id] = hot[id]
      /\ \A id \in Id : id \in ids => hot'[id].sme = s
  BY DEF StoreMinted, NewHot
<1>3. \A id \in Id : Live(id)' => hot'[id].createdAt <= now /\ hot'[id].createdAt \in Int
  <2>1. TimesMatchStatus'
    BY StoreMintedTimes
  <2>2. InvoicesOk'
    BY StoreMintedType DEF StorageOk, MintingOk
  <2>3. \A id \in Id : hot'[id].createdAt \in Int
    BY <2>2 DEF InvoicesOk, HotRecord, Time
  <2>4. QED
    BY <2>1, <2>3 DEF TimesMatchStatus, TimesOk
<1>4. ASSUME NEW x \in Sme, NEW t PROVE Since(x, t)' \subseteq Since(x, t) \union ids
  BY <1>2 DEF Since, Live
<1>5. ASSUME NEW x \in Sme, x # s, NEW t PROVE Since(x, t)' \subseteq Since(x, t)
  BY <1>2, <1>5 DEF Since, Live
<1>6. IsFiniteSet(ids) /\ Cardinality(ids) = n
  <2>1. nextId \in Int /\ nextId + n - 1 \in Int /\ (n > 0 => nextId <= nextId + n - 1)
        /\ (n = 0 => nextId > nextId + n - 1) /\ (nextId + n - 1) - nextId + 1 = n
    BY <1>1
  <2>2. /\ IsFiniteSet(ids)
        /\ Cardinality(ids) = IF nextId > nextId + n - 1 THEN 0 ELSE (nextId + n - 1) - nextId + 1
    BY <2>1, FS_Interval
  <2>3. QED
    BY <2>1, <2>2
<1> HIDE DEF ids
<1>7. ASSUME NEW x \in Sme, NEW t PROVE Cardinality(Since(x, t)') <= Cardinality(Since(x, t)) + n
  <2>1. /\ IsFiniteSet(Since(x, t)) /\ Cardinality(Since(x, t)) \in Nat
        /\ IsFiniteSet(Since(x, t)') /\ Cardinality(Since(x, t)') \in Nat
    BY SinceFinite
  <2> DEFINE A == Since(x, t)
             B == Since(x, t)'
  <2>2. IsFiniteSet(A) /\ Cardinality(A) \in Nat /\ B \subseteq A \union ids
    BY <1>4, <2>1
  <2> HIDE DEF A, B
  <2>3. /\ IsFiniteSet(A \union ids) /\ IsFiniteSet(A \cap ids)
        /\ Cardinality(A \union ids) = Cardinality(A) + Cardinality(ids) - Cardinality(A \cap ids)
    BY <1>6, <2>2, FS_Union, FS_Intersection
  <2>4. Cardinality(A \cap ids) \in Nat /\ Cardinality(B) <= Cardinality(A \union ids)
        /\ Cardinality(B) \in Nat
    BY <2>2, <2>3, FS_CardinalityType, FS_Subset
  <2>5. Cardinality(B) <= Cardinality(A) + n
    BY <1>6, <2>2, <2>3, <2>4
  <2>6. QED
    BY <2>5 DEF A, B
<1>8. ASSUME NEW x \in Sme, x # s, NEW t PROVE Cardinality(Since(x, t)') <= Cardinality(Since(x, t))
  BY <1>5, <1>8, SinceFinite, FS_Subset
<1>9. Since(s, now)' = {}
  <2>1. now \in Nat
    BY RateTypes
  <2>2. \A id \in Id : Live(id)' => ~(hot'[id].createdAt > now)
    BY <1>3, <2>1
  <2>3. QED
    BY <2>2 DEF Since
<1>10. \A x \in Sme : window'[x] = IF x = s THEN w1 ELSE window[x]
  BY <1>1
<1>11. /\ config.rate = NoLimit => \A x \in Sme : window[x] = NoWindow
       /\ \A x \in Sme : window[x].start # NoTime =>
            /\ Cardinality(Since(x, window[x].start)) <= window[x].used
            /\ \E r \in RateLimits : window[x].used <= r.max
  BY DEF WindowsOk, QuotaCoversMints, Since
<1>12. ASSUME NEW x \in Sme, window'[x].start # NoTime, NEW t, t = window'[x].start
       PROVE  /\ Cardinality(Since(x, t)') <= window'[x].used
              /\ \E r \in RateLimits : window'[x].used <= r.max
  <2>1. CASE x # s
    <3>1. window'[x] = window[x]
      BY <1>10, <2>1
    <3>2. /\ Cardinality(Since(x, t)) <= window[x].used
          /\ \E r \in RateLimits : window[x].used <= r.max
      BY <1>11, <1>12, <3>1
    <3>3. Cardinality(Since(x, t)') <= Cardinality(Since(x, t))
      BY <1>8, <2>1
    <3>4. /\ Cardinality(Since(x, t)) \in Nat /\ Cardinality(Since(x, t)') \in Nat
          /\ window[x].used \in Nat
      BY <1>1, SinceFinite
    <3>5. Cardinality(Since(x, t)') <= window[x].used
      BY <3>2, <3>3, <3>4
    <3>6. QED
      BY <3>1, <3>2, <3>5
  <2>2. CASE x = s
    <3>1. window'[x] = w1 /\ w1.start = t /\ t # NoTime
      BY <1>10, <1>12, <2>2
    <3>2. config.rate # NoLimit
      BY <1>11, <3>1 DEF Charged, NoWindow
    <3>3. \E r \in RateLimits : w1.used <= r.max
      BY <3>2, RateTypes DEF WithinQuota
    <3>4. PICK k \in Nat : /\ k >= n
                           /\ \/ w1 = [start |-> now, used |-> k]
                              \/ /\ window[s].start # NoTime
                                 /\ w1 = [start |-> window[s].start, used |-> window[s].used + k]
      BY <3>2 DEF Charged
    <3>5. CASE w1 = [start |-> now, used |-> k]
      <4>1. t = now /\ w1.used = k
        BY <3>1, <3>5
      <4>2. Cardinality(Since(x, t)') = 0
        BY <1>9, <2>2, <4>1, FS_EmptySet
      <4>3. QED
        BY <3>1, <3>3, <4>1, <4>2
    <3>6. CASE /\ window[s].start # NoTime
               /\ w1 = [start |-> window[s].start, used |-> window[s].used + k]
      <4>1. t = window[s].start /\ w1.used = window[s].used + k /\ window[s].used \in Nat
        BY <1>1, <3>1, <3>6
      <4>2. Cardinality(Since(s, t)) <= window[s].used
        BY <1>11, <3>6, <4>1
      <4>3. Cardinality(Since(s, t)') <= Cardinality(Since(s, t)) + n
        BY <1>7
      <4>4. Cardinality(Since(s, t)) \in Nat /\ Cardinality(Since(s, t)') \in Nat
        BY SinceFinite
      <4>5. Cardinality(Since(s, t)') <= w1.used
        BY <3>4, <4>1, <4>2, <4>3, <4>4
      <4>6. QED
        BY <2>2, <3>1, <3>3, <4>5
    <3>7. QED
      BY <3>4, <3>5, <3>6
  <2>3. QED
    BY <2>1, <2>2
<1>13. config'.rate = NoLimit => \A x \in Sme : window'[x] = NoWindow
  BY <1>10, <1>11 DEF Charged
<1>14. QED
  BY <1>12, <1>13 DEF WindowsOk, QuotaCoversMints, Since

(* An administrator can change the limit and never take it away.           *)
LEMMA RateUnlimited ==
  ASSUME StorageOk, [Next]_vars, config'.rate = NoLimit
  PROVE  config.rate = NoLimit
<1>1. config \in ConfigRecord /\ NoLimit \notin RateLimits
  BY RateTypes DEF StorageOk
<1>2. CASE config' = config
  BY <1>2
<1>3. CASE Mint
  BY <1>2, <1>3 DEF Mint, MintInvoicePlain, MintInvoiceWithReferrer, MintInvoice, MintInvoicesBatch
<1>4. CASE Owner
  <2>1. ASSUME NEW t \in Sme, NEW id \in Id, NEW inv \in Input, AmendInvoice(t, id, inv)
        PROVE  config' = config
    BY <2>1 DEF AmendInvoice
  <2>2. ASSUME NEW t \in Sme, NEW id \in Id, WithdrawInvoice(t, id) \/ CommitMetadataHash(t, id)
        PROVE  config' = config
    BY <2>2 DEF WithdrawInvoice, CommitMetadataHash
  <2>3. QED
    BY <1>2, <1>4, <2>1, <2>2 DEF Owner
<1>5. CASE Lifecycle
  BY <1>2, <1>5 DEF Lifecycle, SetCreated, SetListed, SetFunded, SetRepaid, SetDefaulted,
                    Transition, ArchiveInvoice, RefreshRiskScore
<1>6. CASE Hold
  BY <1>2, <1>6 DEF Hold, FlagMetadataMismatch, ResolveMetadataDispute, AdminCorrectMetadataHash,
     FreezeInvoice, UnfreezeInvoice, FreezeSmeInvoices, UnfreezeSmeInvoices, SetFrozen
<1>7. CASE Admin
  <2>1. ASSUME NEW r \in RateLimits, SetMintRateLimit(r) PROVE config'.rate = r
    BY <1>1, <2>1 DEF SetMintRateLimit, Configure, ConfigRecord
  <2>2. CASE SetAuthorizedCallers \/ SetRiskRegistry \/ ProposeUpgrade \/ ExecuteUpgrade
    BY <1>1, <2>2 DEF SetAuthorizedCallers, SetRiskRegistry, ProposeUpgrade, ExecuteUpgrade,
                      Configure, ConfigRecord
  <2>3. ASSUME NEW c, SetProtocolConfig(c) PROVE config'.rate = config.rate
    BY <1>1, <2>3 DEF SetProtocolConfig, Configure, ConfigRecord
  <2>4. ASSUME NEW t, NEW b, SetAmountBounds(t, b) PROVE config'.rate = config.rate
    BY <1>1, <2>4 DEF SetAmountBounds, Configure, ConfigRecord
  <2>5. QED
    BY <1>1, <1>7, <2>1, <2>2, <2>3, <2>4 DEF Admin
<1>8. CASE Tick \/ TogglePause \/ UNCHANGED vars
  BY <1>2, <1>8 DEF Tick, TogglePause, vars
<1>9. QED
  BY <1>3, <1>4, <1>5, <1>6, <1>7, <1>8 DEF Next

LEMMA WindowsStep ==
  ASSUME StorageOk, IndexSound, TimesMatchStatus, WindowsOk, [Next]_vars
  PROVE  WindowsOk'
<1>1. window \in [Sme -> WindowRecord] /\ EnvOk
  BY DEF StorageOk, MintingOk
<1>2. ASSUME NEW s \in Sme, NEW inv \in Input, MintInvoice(s, inv) PROVE WindowsOk'
  <2> DEFINE w1 == ChargeMint(window[s])
             batch == [i \in 1..1 |-> inv]
  <2>1. /\ WithinQuota(w1) /\ window' = [window EXCEPT ![s] = w1] /\ StoreMinted(s, 1, batch)
        /\ now' = now /\ config' = config
    BY <1>1, <1>2 DEF MintInvoice, envVars
  <2>2. w1 \in WindowRecord /\ Charged(window[s], w1, 1)
    BY <1>1, ChargeType, ChargedTwice DEF ChargeMint
  <2>3. batch \in [1..1 -> Input] /\ 1 \in Nat
    OBVIOUS
  <2> HIDE DEF w1, batch
  <2>4. QED
    BY <2>1, <2>2, <2>3, WindowsMint
<1>3. ASSUME NEW s \in Sme, NEW n \in 0..MaxBatch, NEW batch \in [1..n -> Input],
             MintInvoicesBatch(s, n, batch)
      PROVE  WindowsOk'
  <2> DEFINE w1 == ChargeBatch(window[s], n)
  <2>1. /\ WithinQuota(w1) /\ window' = [window EXCEPT ![s] = w1] /\ StoreMinted(s, n, batch)
        /\ now' = now /\ config' = config
    BY <1>1, <1>3 DEF MintInvoicesBatch, envVars
  <2>2. n \in Nat
    BY ConstantsOk
  <2>3. w1 \in WindowRecord /\ Charged(window[s], w1, n)
    BY <1>1, <2>2, ChargeType, ChargedOnce DEF ChargeBatch
  <2> HIDE DEF w1
  <2>4. QED
    BY <2>1, <2>2, <2>3, WindowsMint
<1>4. CASE ~Mint
  <2>1. window' = window
    BY <1>4, OnlyMintsMint DEF mintVars
  <2>2. \A id \in Id : Live(id)' => Live(id) /\ hot'[id].sme = hot[id].sme
                                    /\ hot'[id].createdAt = hot[id].createdAt
    <3>1. ASSUME NEW j \in Id, NEW rec, OneMoves(j, rec), NEW id \in Id, Live(id)'
          PROVE  Live(id) /\ hot'[id].sme = hot[id].sme /\ hot'[id].createdAt = hot[id].createdAt
      BY <3>1 DEF OneMoves, Live, StorageOk, InvoicesOk
    <3>2. QED
      BY <1>4, <3>1, OneRecordMoves DEF Live
  <2>3. \A s \in Sme, t \in Time : Since(s, t)' \subseteq Since(s, t)
    BY <2>2 DEF Since
  <2>4. \A s \in Sme, t \in Time : Cardinality(Since(s, t)') <= Cardinality(Since(s, t))
    BY <2>3, SinceFinite, FS_Subset
  <2>5. config'.rate = NoLimit => config.rate = NoLimit
    BY <1>4, RateUnlimited
  <2>6. \A s \in Sme : window[s].start \in Time \union {NoTime} /\ window[s].used \in Nat
    BY <1>1 DEF WindowRecord
  <2>7. ASSUME NEW s \in Sme, NEW t \in Time, t = window[s].start, t # NoTime
        PROVE  /\ Cardinality(Since(s, t)') <= window[s].used
               /\ \E r \in RateLimits : window[s].used <= r.max
    <3>1. /\ Cardinality(Since(s, t)) <= window[s].used
          /\ \E r \in RateLimits : window[s].used <= r.max
      BY <2>7 DEF WindowsOk, QuotaCoversMints, Since
    <3>2. /\ Cardinality(Since(s, t)) \in Nat /\ Cardinality(Since(s, t)') \in Nat
          /\ Cardinality(Since(s, t)') <= Cardinality(Since(s, t))
      BY <2>4, SinceFinite
    <3>3. Cardinality(Since(s, t)') <= window[s].used
      BY <2>6, <3>1, <3>2
    <3>4. QED
      BY <3>1, <3>3
  <2>8. \A s \in Sme : window'[s].start # NoTime => window[s].start \in Time /\ window'[s] = window[s]
    BY <2>1, <2>6
  <2>9. config'.rate = NoLimit => \A s \in Sme : window'[s] = NoWindow
    BY <2>1, <2>5 DEF WindowsOk
  <2>10. QED
    BY <2>7, <2>8, <2>9 DEF WindowsOk, QuotaCoversMints, Since
<1>5. QED
  BY <1>2, <1>3, <1>4 DEF Mint, MintInvoicePlain, MintInvoiceWithReferrer

-------------------------------------------------------------------------------
(* The exposure counter.                                                   *)

CountersOk == exposure \in [Sme -> Int] /\ drift \in [Sme -> Int]

LEMMA OwedType ==
  ASSUME NEW s, NEW h, h.amount \in Int
  PROVE  Owed(s, h) \in Int
BY DEF Owed

LEMMA FiniteIds == IsFiniteSet(Id)
BY ConstantsOk, FS_Interval DEF Id

LEMMA InputAmount == \A inv \in Input : inv.amount \in Int
<1>1. \A inv \in Input : inv.amount \in Nat
  BY ConstantsOk DEF Input
<1>2. QED
  BY <1>1

(* One record changes, and the counters follow what its owner owes.        *)
LEMMA ExposureOne ==
  ASSUME StorageOk, CountersOk, ExposureExplained, NEW id \in Id, NEW rec,
         hot' = [hot EXCEPT ![id] = rec], rec.amount \in Int,
         \A x \in Sme : exposure'[x] + drift'[x]
                          = exposure[x] + drift[x] - Owed(x, hot[id]) + Owed(x, rec)
  PROVE  ExposureExplained'
<1>1. ASSUME NEW x \in Sme
      PROVE  exposure'[x] + drift'[x] = SumOver([j \in Id |-> Owed(x, hot'[j])], Id)
  <2> DEFINE f == [j \in Id |-> Owed(x, hot[j])]
             g == [j \in Id |-> Owed(x, hot'[j])]
  <2>1. \A j \in Id : hot[j].amount \in Int /\ hot'[j] = IF j = id THEN rec ELSE hot[j]
    BY DEF StorageOk, InvoicesOk, HotRecord
  <2>2. \A j \in Id : f[j] \in Int
    BY <2>1, OwedType
  <2>3. f[id] = Owed(x, hot[id]) /\ g[id] = Owed(x, rec)
    BY <2>1
  <2>4. g[id] \in Int
    BY <2>3, OwedType
  <2>5. \A j \in Id \ {id} : g[j] = f[j]
    BY <2>1
  <2>6. SumOver(f, Id) = exposure[x] + drift[x]
    BY DEF ExposureExplained, ReconcileOutstandingExposure
  <2>7. exposure[x] + drift[x] \in Int
    BY DEF CountersOk
  <2>8. exposure'[x] + drift'[x] = exposure[x] + drift[x] - f[id] + g[id]
    <3>1. exposure'[x] + drift'[x] = exposure[x] + drift[x] - Owed(x, hot[id]) + Owed(x, rec)
      OBVIOUS
    <3> HIDE DEF f, g
    <3>2. QED
      BY <2>3, <3>1
  <2> HIDE DEF f, g
  <2>9. SumOver(g, Id) = SumOver(f, Id) - f[id] + g[id]
    BY <2>2, <2>4, <2>5, FiniteIds, SumChange
  <2>10. exposure'[x] + drift'[x] = SumOver(g, Id)
    <3>1. SumOver(g, Id) = exposure[x] + drift[x] - f[id] + g[id]
      <4>1. f[id] \in Int /\ exposure[x] \in Int /\ drift[x] \in Int
        BY <2>2 DEF CountersOk
      <4>2. QED
        BY <2>4, <2>6, <2>9, <4>1
    <3>2. QED
      BY <2>8, <3>1
  <2>11. QED
    BY <2>10 DEF g
<1>2. QED
  BY <1>1 DEF ExposureExplained, ReconcileOutstandingExposure

(* What a batch adds to the sum.                                           *)
LEMMA BatchOwed ==
  ASSUME NEW m \in Nat \ {0}, NEW n \in Nat, m + n - 1 <= MaxId, NEW f, \A i \in 1..n : f[i] \in Int,
         NEW g, \A id \in Id : g[id] = IF id \in m..(m + n - 1) THEN f[id - m + 1] ELSE 0
  PROVE  SumOver(g, Id) = SumOver(f, 1..n)
<1> DEFINE K == 1..n
           h == [i \in K |-> m + i - 1]
<1>1. IsFiniteSet(K) /\ \A i \in K : i \in Int
  BY FS_Interval
<1>2. \A i \in K : h[i] = m + i - 1 /\ h[i] \in Id
  BY ConstantsOk DEF Id
<1>3. \A id \in Id : id \in Int
  BY ConstantsOk DEF Id
<1>4. ASSUME NEW id \in Id PROVE g[id] = SumOver(f, {i \in K : h[i] = id})
  <2>1. CASE id \in m..(m + n - 1)
    <3> DEFINE e == id - m + 1
    <3>0. e \in K /\ h[e] = id
      BY <1>1, <1>2, <1>3, <2>1
    <3>a. \A i \in K : h[i] = id => i = e
      BY <1>1, <1>2, <1>3
    <3>1. e \in K /\ {i \in K : h[i] = id} = {e}
      BY <3>0, <3>a
    <3>2. f[e] \in Int /\ g[id] = f[e]
      BY <2>1, <3>1
    <3> HIDE DEF e
    <3>3. SumOver(f, {} \union {e}) = f[e] + SumOver(f, {})
      BY <3>2, FS_EmptySet, SumAdd
    <3>4. {} \union {e} = {e} /\ SumOver(f, {}) = 0
      BY SumEmpty
    <3>5. SumOver(f, {e}) = g[id]
      BY <3>2, <3>3, <3>4
    <3>6. QED
      BY <3>1, <3>5
  <2>2. CASE id \notin m..(m + n - 1)
    <3>1. {i \in K : h[i] = id} = {}
      BY <1>1, <1>2, <1>3, <2>2
    <3>2. g[id] = 0
      BY <2>2
    <3>3. QED
      BY <3>1, <3>2, SumEmpty
  <2>3. QED
    BY <2>1, <2>2
<1> HIDE DEF h, K
<1>5. \A i \in K : f[i] \in Int
  BY DEF K
<1>a. \A i \in K : h[i] \in Id
  BY <1>2
<1>b. \A id \in Id : g[id] = SumOver(f, {i \in K : h[i] = id})
  BY <1>4
<1>c. IsFiniteSet(K)
  BY <1>1
<1>6. SumOver(g, Id) = SumOver(f, K)
  BY <1>5, <1>a, <1>b, <1>c, FiniteIds, SumByGroup
<1>7. QED
  BY <1>6 DEF K

BatchBooked(s, n, batch, f) ==
  /\ s \in Sme /\ n \in Nat /\ batch \in [1..n -> Input]
  /\ StoreMinted(s, n, batch) /\ drift' = drift
  /\ \A i \in 1..n : f[i] = batch[i].amount
  /\ exposure' = [exposure EXCEPT ![s] = @ + SumOver(f, 1..n)]

LEMMA ExposureMint ==
  ASSUME StorageOk, IndexSound, CountersOk, ExposureExplained, NEW s, NEW n, NEW batch, NEW f,
         BatchBooked(s, n, batch, f)
  PROVE  ExposureExplained'
<1>0. /\ s \in Sme /\ n \in Nat /\ batch \in [1..n -> Input]
      /\ StoreMinted(s, n, batch) /\ drift' = drift
      /\ \A i \in 1..n : f[i] = batch[i].amount
      /\ exposure' = [exposure EXCEPT ![s] = @ + SumOver(f, 1..n)]
  BY DEF BatchBooked
<1> DEFINE ids == nextId .. (nextId + n - 1)
<1>1. nextId \in Nat \ {0} /\ nextId + n - 1 <= MaxId
  BY <1>0, ConstantsOk DEF StorageOk, InvoicesOk, StoreMinted
<1>2. \A i \in 1..n : f[i] \in Int
  <2>1. ASSUME NEW i \in 1..n PROVE f[i] \in Int
    <3>1. batch[i] \in Input /\ f[i] = batch[i].amount
      BY <1>0
    <3>2. batch[i].amount \in Int
      BY <3>1, InputAmount
    <3>3. QED
      BY <3>1, <3>2
  <2>2. QED
    BY <2>1
<1>3. \A id \in Id : hot'[id] = IF id \in ids THEN NewHot(s, batch[id - nextId + 1]) ELSE hot[id]
  BY <1>0 DEF StoreMinted
<1>4. \A id \in Id : id \in ids => hot[id].status = "None"
  <2>1. \A id \in ids : ~(id < nextId)
    BY <1>1
  <2>2. QED
    BY <2>1 DEF IndexSound, Live
<1>5. \A id \in ids : id - nextId + 1 \in 1..n
  BY <1>0, <1>1
<1>6. \A id \in Id : hot[id].amount \in Int
  BY DEF StorageOk, InvoicesOk, HotRecord
<1>7. SumOver(f, 1..n) \in Int
  <2>0. n \in Int /\ 1 \in Int
    BY <1>0
  <2>1. IsFiniteSet(1..n)
    BY <2>0, FS_Interval
  <2>2. QED
    BY <1>2, <2>1, SumInt
<1> HIDE DEF ids
<1>8. ASSUME NEW x \in Sme
      PROVE  exposure'[x] + drift'[x] = SumOver([j \in Id |-> Owed(x, hot'[j])], Id)
  <2> DEFINE old == [j \in Id |-> Owed(x, hot[j])]
             new == [j \in Id |-> Owed(x, hot'[j])]
             more == [j \in Id |-> IF j \in ids /\ x = s THEN f[j - nextId + 1] ELSE 0]
  <2>1. SumOver(old, Id) = exposure[x] + drift[x]
    BY DEF ExposureExplained, ReconcileOutstandingExposure
  <2>2. \A j \in Id : old[j] \in Int /\ more[j] \in Int
    BY <1>2, <1>5, <1>6, OwedType
  <2>3. \A j \in Id : new[j] = old[j] + more[j]
    <3>1. ASSUME NEW j \in Id, j \in ids PROVE new[j] = old[j] + more[j]
      <4>1. hot'[j] = NewHot(s, batch[j - nextId + 1]) /\ j - nextId + 1 \in 1..n
        BY <1>3, <1>5, <3>1
      <4>2. Owed(x, hot'[j]) = IF x = s THEN f[j - nextId + 1] ELSE 0
        BY <1>0, <4>1 DEF Owed, NewHot
      <4>3. Owed(x, hot[j]) = 0
        BY <1>4, <3>1 DEF Owed
      <4>4. f[j - nextId + 1] \in Int
        BY <1>2, <4>1
      <4>5. QED
        BY <3>1, <4>2, <4>3, <4>4
    <3>2. ASSUME NEW j \in Id, j \notin ids PROVE new[j] = old[j] + more[j]
      <4>1. new[j] = old[j] /\ more[j] = 0 /\ old[j] \in Int
        BY <1>3, <2>2, <3>2
      <4>2. QED
        BY <4>1
    <3>3. QED
      BY <3>1, <3>2
  <2>4. SumOver(more, Id) = IF x = s THEN SumOver(f, 1..n) ELSE 0
    <3>1. CASE x = s
      <4>1. \A j \in Id : more[j] = IF j \in nextId..(nextId + n - 1) THEN f[j - nextId + 1] ELSE 0
        BY <3>1 DEF ids
      <4> HIDE DEF more
      <4>2. QED
        BY <1>0, <1>1, <1>2, <3>1, <4>1, BatchOwed
    <3>2. CASE x # s
      <4>1. \A j \in Id : more[j] = 0
        BY <3>2
      <4> HIDE DEF more
      <4>2. QED
        BY <3>2, <4>1, FiniteIds, SumZero
    <3>3. QED
      BY <3>1, <3>2
  <2> HIDE DEF old, new, more
  <2>5. SumOver(new, Id) = SumOver(old, Id) + SumOver(more, Id)
    BY <2>2, <2>3, FiniteIds, SumPointwise
  <2>6. /\ exposure'[x] = IF x = s THEN exposure[x] + SumOver(f, 1..n) ELSE exposure[x]
        /\ exposure[x] \in Int /\ drift'[x] = drift[x] /\ drift[x] \in Int
    BY <1>0 DEF CountersOk
  <2>7. exposure'[x] + drift'[x] = SumOver(new, Id)
    BY <1>7, <2>1, <2>4, <2>5, <2>6
  <2>8. QED
    BY <2>7 DEF new
<1>9. QED
  BY <1>8 DEF ExposureExplained, ReconcileOutstandingExposure

(* The records whose removal or end is released from the counter.          *)
LEMMA ExposureReleased ==
  ASSUME StorageOk, IndexSound, CountersOk, ExposureExplained, NEW id \in Id, NEW rec,
         Live(id), ~Terminal(id), hot' = [hot EXCEPT ![id] = rec], rec.amount \in Int,
         rec.status \in {"None", "Repaid", "Defaulted"}, ReleaseExposure(id), drift' = drift
  PROVE  CountersOk' /\ ExposureExplained'
<1>1. hot[id].sme \in Sme /\ hot[id].amount \in Int
  BY DEF IndexSound, StorageOk, InvoicesOk, HotRecord
<1>2. /\ exposure' = [exposure EXCEPT ![hot[id].sme] = @ - hot[id].amount]
      /\ hot[id].status \notin {"None", "Repaid", "Defaulted"}
  BY DEF ReleaseExposure, Live, Terminal
<1>3. CountersOk'
  BY <1>1, <1>2 DEF CountersOk
<1>4. ASSUME NEW x \in Sme
      PROVE  exposure'[x] + drift'[x]
               = exposure[x] + drift[x] - Owed(x, hot[id]) + Owed(x, rec)
  <2>1. Owed(x, rec) = 0 /\ Owed(x, hot[id]) = IF x = hot[id].sme THEN hot[id].amount ELSE 0
    BY <1>2 DEF Owed
  <2>2. exposure[x] \in Int /\ drift[x] \in Int /\ drift'[x] = drift[x]
    BY DEF CountersOk
  <2>3. exposure'[x] = IF x = hot[id].sme THEN exposure[x] - hot[id].amount ELSE exposure[x]
    BY <1>1, <1>2 DEF CountersOk
  <2>4. QED
    BY <1>1, <2>1, <2>2, <2>3
<1>5. QED
  BY <1>3, <1>4, ExposureOne

(* Records that change nothing their owner owes.                           *)
LEMMA ExposureFrame ==
  ASSUME StorageOk, CountersOk, ExposureExplained, exposure' = exposure, drift' = drift,
         \A x \in Sme, id \in Id : Owed(x, hot'[id]) = Owed(x, hot[id])
  PROVE  CountersOk' /\ ExposureExplained'
<1>1. CountersOk'
  BY DEF CountersOk
<1>2. ASSUME NEW x \in Sme
      PROVE  exposure'[x] + drift'[x] = SumOver([j \in Id |-> Owed(x, hot'[j])], Id)
  <2>1. [j \in Id |-> Owed(x, hot'[j])] = [j \in Id |-> Owed(x, hot[j])]
    OBVIOUS
  <2>2. exposure[x] + drift[x] = SumOver([j \in Id |-> Owed(x, hot[j])], Id)
    BY DEF ExposureExplained, ReconcileOutstandingExposure
  <2>3. QED
    BY <2>1, <2>2
<1>3. QED
  BY <1>1, <1>2 DEF ExposureExplained, ReconcileOutstandingExposure

LEMMA ExposureMintStep ==
  ASSUME StorageOk, IndexSound, CountersOk, ExposureExplained, Mint
  PROVE  CountersOk' /\ ExposureExplained'
<1>1. ASSUME NEW s \in Sme, NEW inv \in Input, MintInvoice(s, inv)
      PROVE  CountersOk' /\ ExposureExplained'
  <2> DEFINE batch == [i \in 1..1 |-> inv]
             f     == [i \in 1..1 |-> inv.amount]
  <2>1. inv.amount \in Int
    BY InputAmount
  <2>2. /\ StoreMinted(s, 1, batch) /\ drift' = drift
        /\ exposure' = [exposure EXCEPT ![s] = @ + inv.amount]
    BY <1>1 DEF MintInvoice, CountersOk
  <2>3. batch \in [1..1 -> Input] /\ 1 \in Nat /\ \A i \in 1..1 : f[i] = batch[i].amount
    OBVIOUS
  <2>4. 1..1 = {} \union {1} /\ f[1] = inv.amount
    OBVIOUS
  <2> HIDE DEF f
  <2>5. SumOver(f, {} \union {1}) = f[1] + SumOver(f, {})
    BY <2>1, <2>4, FS_EmptySet, SumAdd
  <2>6. SumOver(f, 1..1) = inv.amount
    BY <2>1, <2>4, <2>5, SumEmpty
  <2>7. exposure' = [exposure EXCEPT ![s] = @ + SumOver(f, 1..1)]
    BY <2>2, <2>6
  <2>8. CountersOk'
    BY <2>1, <2>2 DEF CountersOk
  <2> HIDE DEF batch
  <2>9. BatchBooked(s, 1, batch, f)
    BY <2>2, <2>3, <2>7 DEF BatchBooked
  <2>10. QED
    BY <2>8, <2>9, ExposureMint
<1>2. ASSUME NEW s \in Sme, NEW n \in 0..MaxBatch, NEW batch \in [1..n -> Input],
             MintInvoicesBatch(s, n, batch)
      PROVE  CountersOk' /\ ExposureExplained'
  <2> DEFINE f == [i \in 1..n |-> batch[i].amount]
  <2>1. n \in Nat
    BY ConstantsOk
  <2>2. /\ StoreMinted(s, n, batch) /\ drift' = drift
        /\ exposure' = [exposure EXCEPT ![s] = @ + SumOver(f, 1..n)]
    BY <1>2 DEF MintInvoicesBatch
  <2>3. \A i \in 1..n : f[i] = batch[i].amount
    OBVIOUS
  <2>4. \A i \in 1..n : f[i] \in Int
    <3>1. ASSUME NEW i \in 1..n PROVE batch[i].amount \in Int
      <4>1. batch[i] \in Input
        OBVIOUS
      <4>2. QED
        BY <4>1, InputAmount
    <3>2. QED
      BY <3>1
  <2> HIDE DEF f
  <2>5. IsFiniteSet(1..n)
    BY <2>1, FS_Interval
  <2>6. SumOver(f, 1..n) \in Int
    BY <2>4, <2>5, SumInt
  <2>7. CountersOk'
    BY <2>2, <2>6 DEF CountersOk
  <2>8. BatchBooked(s, n, batch, f)
    BY <2>1, <2>2, <2>3 DEF BatchBooked
  <2>9. QED
    BY <2>7, <2>8, ExposureMint
<1>3. QED
  BY <1>1, <1>2 DEF Mint, MintInvoicePlain, MintInvoiceWithReferrer

LEMMA ExposureAmend ==
  ASSUME StorageOk, CountersOk, ExposureExplained, NEW s \in Sme, NEW id \in Id, NEW inv \in Input,
         AmendInvoice(s, id, inv)
  PROVE  CountersOk' /\ ExposureExplained'
<1> DEFINE rec == [hot[id] EXCEPT !.amount = inv.amount, !.dueDate = inv.dueDate,
                                  !.riskScore = inv.riskScore]
<1>1. inv.amount \in Int
  BY InputAmount
<1>2. hot[id] \in HotRecord /\ hot[id].amount \in Int
  BY DEF StorageOk, InvoicesOk, HotRecord
<1>3. rec.amount = inv.amount /\ rec.sme = hot[id].sme /\ rec.status = hot[id].status
  BY <1>2 DEF HotRecord
<1>4. /\ hot' = [hot EXCEPT ![id] = rec] /\ exposure' = exposure
      /\ drift' = [drift EXCEPT ![s] = @ + inv.amount - hot[id].amount]
      /\ hot[id].status = "Created" /\ hot[id].sme = s
  BY DEF AmendInvoice, OwnedDraft
<1> HIDE DEF rec
<1>5. CountersOk'
  BY <1>1, <1>2, <1>4 DEF CountersOk
<1>6. ASSUME NEW x \in Sme
      PROVE  exposure'[x] + drift'[x]
               = exposure[x] + drift[x] - Owed(x, hot[id]) + Owed(x, rec)
  <2>1. /\ Owed(x, rec) = IF x = s THEN inv.amount ELSE 0
        /\ Owed(x, hot[id]) = IF x = s THEN hot[id].amount ELSE 0
    BY <1>3, <1>4 DEF Owed
  <2>2. exposure[x] \in Int /\ drift[x] \in Int /\ exposure'[x] = exposure[x]
    BY <1>4 DEF CountersOk
  <2>3. drift'[x] = IF x = s THEN drift[x] + inv.amount - hot[id].amount ELSE drift[x]
    BY <1>4 DEF CountersOk
  <2>4. QED
    BY <1>1, <1>2, <2>1, <2>2, <2>3
<1>7. QED
  BY <1>1, <1>3, <1>4, <1>5, <1>6, ExposureOne

LEMMA ExposureStep ==
  ASSUME StorageOk, IndexSound, CountersOk, ExposureExplained, [Next]_vars
  PROVE  CountersOk' /\ ExposureExplained'
<1>1. hot \in [Id -> HotRecord]
  BY DEF StorageOk, InvoicesOk
<1>2. ASSUME hot' = hot, exposure' = exposure, drift' = drift
      PROVE  CountersOk' /\ ExposureExplained'
  BY <1>2, ExposureFrame
<1>3. NoHot.status = "None" /\ NoHot.amount \in Int
  BY DEF NoHot
<1>4. ASSUME NEW s \in Sme, NEW id \in Id, WithdrawInvoice(s, id)
      PROVE  CountersOk' /\ ExposureExplained'
  <2>1. /\ Live(id) /\ ~Terminal(id) /\ hot' = [hot EXCEPT ![id] = NoHot] /\ ReleaseExposure(id)
        /\ drift' = drift
    BY <1>4 DEF WithdrawInvoice, OwnedDraft, Live, Terminal, RemoveInvoice
  <2>2. QED
    BY <1>3, <2>1, ExposureReleased
<1>5. ASSUME NEW id \in Id, SetRepaid(id) PROVE CountersOk' /\ ExposureExplained'
  <2> DEFINE rec == [hot[id] EXCEPT !.status = "Repaid", !.repaidAt = now]
  <2>1. rec.status = "Repaid" /\ rec.amount \in Int
    BY <1>1 DEF HotRecord
  <2>2. /\ Live(id) /\ ~Terminal(id) /\ hot' = [hot EXCEPT ![id] = rec] /\ ReleaseExposure(id)
        /\ drift' = drift
    BY <1>5 DEF SetRepaid, Transition, Live, Terminal
  <2> HIDE DEF rec
  <2>3. QED
    BY <2>1, <2>2, ExposureReleased
<1>6. ASSUME NEW id \in Id, SetDefaulted(id) PROVE CountersOk' /\ ExposureExplained'
  <2> DEFINE rec == [hot[id] EXCEPT !.status = "Defaulted"]
  <2>1. rec.status = "Defaulted" /\ rec.amount \in Int
    BY <1>1 DEF HotRecord
  <2>2. /\ Live(id) /\ ~Terminal(id) /\ hot' = [hot EXCEPT ![id] = rec] /\ ReleaseExposure(id)
        /\ drift' = drift
    BY <1>6 DEF SetDefaulted, Transition, Live, Terminal
  <2> HIDE DEF rec
  <2>3. QED
    BY <2>1, <2>2, ExposureReleased
<1>7. ASSUME NEW id \in Id, NEW rec, hot' = [hot EXCEPT ![id] = rec], exposure' = exposure,
             drift' = drift, \A x \in Sme : Owed(x, rec) = Owed(x, hot[id])
      PROVE  CountersOk' /\ ExposureExplained'
  <2>1. \A j \in Id : hot'[j] = IF j = id THEN rec ELSE hot[j]
    BY <1>1, <1>7
  <2>2. \A x \in Sme, j \in Id : Owed(x, hot'[j]) = Owed(x, hot[j])
    BY <1>7, <2>1
  <2>3. QED
    BY <1>7, <2>2, ExposureFrame
<1>8. ASSUME NEW id \in Id, ArchiveInvoice(id) PROVE CountersOk' /\ ExposureExplained'
  <2>1. \A x \in Sme : Owed(x, NoHot) = 0 /\ Owed(x, hot[id]) = 0
    BY <1>3, <1>8 DEF ArchiveInvoice, Terminal, Owed
  <2>2. QED
    BY <1>7, <1>8, <2>1 DEF ArchiveInvoice, RemoveInvoice
<1>9. ASSUME NEW id \in Id, SetCreated(id) PROVE CountersOk' /\ ExposureExplained'
  <2> DEFINE rec == [hot[id] EXCEPT !.status = "Created"]
  <2>1. hot' = [hot EXCEPT ![id] = rec] /\ exposure' = exposure /\ drift' = drift
        /\ hot[id].status = "Listed"
    BY <1>9 DEF SetCreated, Transition
  <2>2. rec.status = "Created" /\ rec.amount = hot[id].amount /\ rec.sme = hot[id].sme
    BY <1>1 DEF HotRecord
  <2> HIDE DEF rec
  <2>3. \A x \in Sme : Owed(x, rec) = Owed(x, hot[id])
    BY <2>1, <2>2 DEF Owed
  <2>4. QED
    BY <1>7, <2>1, <2>3
<1>10. ASSUME NEW id \in Id, SetListed(id) PROVE CountersOk' /\ ExposureExplained'
  <2> DEFINE rec == [hot[id] EXCEPT !.status = "Listed"]
  <2>1. hot' = [hot EXCEPT ![id] = rec] /\ exposure' = exposure /\ drift' = drift
        /\ hot[id].status = "Created"
    BY <1>10 DEF SetListed, Transition
  <2>2. rec.status = "Listed" /\ rec.amount = hot[id].amount /\ rec.sme = hot[id].sme
    BY <1>1 DEF HotRecord
  <2> HIDE DEF rec
  <2>3. \A x \in Sme : Owed(x, rec) = Owed(x, hot[id])
    BY <2>1, <2>2 DEF Owed
  <2>4. QED
    BY <1>7, <2>1, <2>3
<1>11. ASSUME NEW id \in Id, SetFunded(id) PROVE CountersOk' /\ ExposureExplained'
  <2> DEFINE rec == [hot[id] EXCEPT !.status = "Funded", !.fundedAt = now]
  <2>1. hot' = [hot EXCEPT ![id] = rec] /\ exposure' = exposure /\ drift' = drift
        /\ hot[id].status = "Listed"
    BY <1>11 DEF SetFunded, Transition
  <2>2. rec.status = "Funded" /\ rec.amount = hot[id].amount /\ rec.sme = hot[id].sme
    BY <1>1 DEF HotRecord
  <2> HIDE DEF rec
  <2>3. \A x \in Sme : Owed(x, rec) = Owed(x, hot[id])
    BY <2>1, <2>2 DEF Owed
  <2>4. QED
    BY <1>7, <2>1, <2>3
<1>12. ASSUME NEW id \in Id, RefreshRiskScore(id) PROVE CountersOk' /\ ExposureExplained'
  <2> DEFINE rec == [hot[id] EXCEPT !.riskScore = ProfileScore[hot[id].sme]]
  <2>1. hot' = [hot EXCEPT ![id] = rec] /\ exposure' = exposure /\ drift' = drift
    BY <1>12 DEF RefreshRiskScore
  <2>2. rec.status = hot[id].status /\ rec.amount = hot[id].amount /\ rec.sme = hot[id].sme
    BY <1>1 DEF HotRecord
  <2> HIDE DEF rec
  <2>3. \A x \in Sme : Owed(x, rec) = Owed(x, hot[id])
    BY <2>2 DEF Owed
  <2>4. QED
    BY <1>7, <2>1, <2>3
<1>13. CASE Owner
  <2>1. ASSUME NEW s \in Sme, NEW id \in Id, CommitMetadataHash(s, id)
        PROVE  CountersOk' /\ ExposureExplained'
    BY <1>2, <2>1 DEF CommitMetadataHash
  <2>2. QED
    BY <1>4, <1>13, <2>1, ExposureAmend DEF Owner
<1>14. CASE Lifecycle
  BY <1>5, <1>6, <1>8, <1>9, <1>10, <1>11, <1>12, <1>14 DEF Lifecycle
<1>15. CASE Hold
  BY <1>2, <1>15 DEF Hold, FlagMetadataMismatch, ResolveMetadataDispute,
     AdminCorrectMetadataHash, FreezeInvoice, UnfreezeInvoice, FreezeSmeInvoices,
     UnfreezeSmeInvoices, SetFrozen, invoiceVars
<1>16. CASE Admin
  BY <1>2, <1>16 DEF Admin, SetAuthorizedCallers, SetRiskRegistry, SetMintRateLimit,
     SetProtocolConfig, SetAmountBounds, ProposeUpgrade, ExecuteUpgrade, Configure, invoiceVars
<1>17. CASE Tick \/ TogglePause \/ UNCHANGED vars
  BY <1>2, <1>17 DEF Tick, TogglePause, vars, invoiceVars
<1>18. QED
  BY <1>13, <1>14, <1>15, <1>16, <1>17, ExposureMintStep DEF Next

-------------------------------------------------------------------------------
(* The side records.                                                       *)

LEMMA InitSides ==
  ASSUME Init
  PROVE  CountersOk /\ ExposureExplained /\ WindowsOk /\ DisputesOk /\ AuditRingLatest
<1>1. /\ exposure = [s \in Sme |-> 0] /\ drift = [s \in Sme |-> 0]
      /\ hot = [id \in Id |-> NoHot] /\ window = [s \in Sme |-> NoWindow]
      /\ hashed = {} /\ dispute = [id \in Id |-> "None"]
      /\ audit = [total |-> 0, head |-> 0, slot |-> [i \in 0..(AuditSize - 1) |-> NoTime]]
  BY DEF Init
<1>2. CountersOk
  BY <1>1 DEF CountersOk
<1>3. ASSUME NEW x \in Sme PROVE exposure[x] + drift[x] = SumOver([j \in Id |-> Owed(x, hot[j])], Id)
  <2> DEFINE f == [j \in Id |-> Owed(x, hot[j])]
  <2>1. \A j \in Id : f[j] = 0
    BY <1>1 DEF Owed, NoHot
  <2> HIDE DEF f
  <2>2. SumOver(f, Id) = 0
    BY <2>1, FiniteIds, SumZero
  <2>3. exposure[x] + drift[x] = SumOver(f, Id)
    BY <1>1, <2>2
  <2>4. QED
    BY <2>3 DEF f
<1>4. ExposureExplained
  BY <1>3 DEF ExposureExplained, ReconcileOutstandingExposure
<1>5. WindowsOk
  BY <1>1 DEF WindowsOk, QuotaCoversMints, NoWindow
<1>6. DisputesOk
  BY <1>1 DEF DisputesOk, DisputeHasHash
<1>7. AuditRingLatest
  <2>1. 0 % AuditSize = 0
    BY ConstantsOk
  <2>2. audit.total = 0 /\ audit.head = 0 /\ \A i \in 0..(AuditSize - 1) : audit.slot[i] = NoTime
    BY <1>1
  <2>3. \A i \in 0..(AuditSize - 1) : ~(i < 0)
    BY ConstantsOk
  <2>4. QED
    BY <2>1, <2>2, <2>3 DEF AuditRingLatest
<1>8. QED
  BY <1>2, <1>4, <1>5, <1>6, <1>7

(* Every storage key holds a value of its type, the exposure counter an    *)
(* integer of either sign (the DataKey layout of invoice_nft).             *)
THEOREM TypeCorrect == Spec => []TypeOK
<1>1. Init => CountersOk /\ ExposureExplained
  BY InitSides
<1>2. StorageOk /\ IndexSound /\ CountersOk /\ ExposureExplained /\ [Next]_vars
        => CountersOk' /\ ExposureExplained'
  BY ExposureStep
<1>3. StorageOk /\ CountersOk => TypeOK
  BY DEF CountersOk, TypeOK
<1>4. QED
  BY <1>1, <1>2, <1>3, StorageAndIndex, PTL DEF Spec

(* What the contract keeps beside the invoices always follows from them:   *)
(* the exposure counter of credit_limit checks differs from the recomputed *)
(* sum by what amend_invoice changed face values by, the mint window       *)
(* accounts for every invoice minted in it, a dispute is about a committed *)
(* hash, and the audit ring holds the latest entries in their slots.       *)
THEOREM SideRecordsAlwaysExplained == Spec => []SideRecordsExplained
<1> DEFINE Sides == CountersOk /\ ExposureExplained /\ WindowsOk /\ DisputesOk /\ AuditRingLatest
<1>1. Init => Sides
  BY InitSides
<1>2. StorageOk /\ IndexSound /\ TimesMatchStatus /\ Sides /\ [Next]_vars => Sides'
  <2>1. ASSUME StorageOk, IndexSound, TimesMatchStatus, Sides, [Next]_vars
        PROVE  /\ CountersOk' /\ ExposureExplained' /\ WindowsOk' /\ DisputesOk'
               /\ AuditRingLatest'
    BY <2>1, ExposureStep, WindowsStep, DisputesStep, AuditStep
  <2>2. QED
    BY <2>1
<1>3. Sides => SideRecordsExplained
  BY DEF SideRecordsExplained, WindowsOk, DisputesOk
<1>4. QED
  BY <1>1, <1>2, <1>3, StorageAndIndex, TimesAlwaysMatch, PTL DEF Spec

===============================================================================
