---------------------------- MODULE CodeLifecycle ----------------------------
(***************************************************************************)
(* The life of a code batch and of its codes, from generation to recall    *)
(* (src/codes/codes.service.ts, src/codes/batch-activation.service.ts and  *)
(* the batch suspension of src/platform/platform-manage-codes.service.ts). *)
(*                                                                         *)
(* One value of each variable is one committed state of the PostgreSQL     *)
(* tables products, code_batches, verification_codes, product_batches and  *)
(* batch_activation_events.  A handler that locks every row it reads is    *)
(* one action, taken when it commits.  A handler that reads without a lock *)
(* is one action for each statement: setCodeStatus (CodeWriters), the      *)
(* vendor's suspendBatch and reactivateBatch (BatchWriters), and verify    *)
(* (Scanners), which locks the code but neither its batch nor its product. *)
(***************************************************************************)
EXTENDS Naturals, FiniteSets

CONSTANTS
    Batches,           \* identifiers of code batches
    Codes,             \* identifiers of codes (units)
    BatchOf,           \* the batch that each code is generated in
    Mode,              \* activationMode of each batch
    Products,          \* product rows of one vendor
    InternalProducts,  \* placeholders that a platform-made batch is bound to
    LotRefs,           \* manufacturer lot references
    Dates,             \* manufacturing and expiry dates a batch can carry
    CodeWriters,       \* concurrent requests to suspend or reactivate a code
    BatchWriters,      \* concurrent vendor requests to suspend or reactivate a batch
    Scanners,          \* concurrent verification requests
    None               \* SQL NULL

ASSUME ConstantsAssumption ==
    /\ BatchOf \in [Codes -> Batches]
    /\ \A b \in Batches : \E c \in Codes : BatchOf[c] = b
    /\ Mode \in [Batches -> {"controlled_physical_print", "self_print_digital"}]
    /\ InternalProducts \subseteq Products
    /\ None \notin Products \cup Dates \cup (Products \X LotRefs)

VARIABLES
    product,      \* product[p]: status of a product
    batch,        \* batch[b]: the code_batches row
    code,         \* code[c]: the verification_codes row
    lots,         \* rows of product_batches
    lotDates,     \* their dates
    codeReq,      \* the setCodeStatus requests in flight
    batchReq,     \* the vendor suspendBatch and reactivateBatch requests in flight
    scan,         \* the verify requests
    activations,  \* history: the "activated" events of each batch
    recalledCodes \* history: the codes a committed recall has covered

rows == <<product, batch, code, lots, lotDates>>
history == <<activations, recalledCodes>>
vars == <<rows, codeReq, batchReq, scan, history>>

\* "off_market" stands for pending, information_required, rejected and archived.
ProductStatus == {"active", "recalled", "off_market"}
BatchStatus == {"absent", "allocated", "released_for_activation",
                "market_active", "recalled", "revoked"}
CodeStatus == {"absent", "allocated", "market_active", "recalled", "revoked"}
Lots == Products \X LotRefs

BatchRow == [status: BatchStatus, released: BOOLEAN, pin: BOOLEAN,
             product: Products \cup {None}, lot: Lots \cup {None},
             dates: Dates \cup {None}]
CodeRow == [status: CodeStatus, product: Products \cup {None},
            lot: Lots \cup {None}]

Verdicts == {"none", "genuine", "recalled", "revoked", "unactivated",
             "invalid", "product_unavailable"}

NoBatch == [status |-> "absent", released |-> FALSE, pin |-> FALSE,
            product |-> None, lot |-> None, dates |-> None]
NoCode == [status |-> "absent", product |-> None, lot |-> None]
NoCodeReq == [stage |-> "idle", code |-> None, status |-> "absent", write |-> FALSE]
NoBatchReq == [stage |-> "idle", batch |-> None, row |-> NoBatch, diff |-> {}]

CodesOf(b) == {c \in Codes : BatchOf[c] = b}

\* A scan holds the row lock of its code from its first read until it ends.
Scanning(s) == scan[s].stage # "idle"

\* Mutant of Unlocked: verify reads its code without the row lock.
ReadWithoutLock(c) == TRUE

Unlocked(c) == \A s \in Scanners : Scanning(s) => scan[s].code # c

\* CHK_batch_pin_release: a row that holds a PIN digest must be released and
\* still be released_for_activation, or PostgreSQL refuses the UPDATE.
PinCheck(row) ==
    row.pin => row.released /\ row.status = "released_for_activation"

Init ==
    /\ product = [p \in Products |-> "active"]
    /\ batch = [b \in Batches |-> NoBatch]
    /\ code = [c \in Codes |-> NoCode]
    /\ lots = {}
    /\ lotDates = [l \in Lots |-> None]
    /\ codeReq = [w \in CodeWriters |-> NoCodeReq]
    /\ batchReq = [w \in BatchWriters |-> NoBatchReq]
    /\ scan = [s \in Scanners |->
                    [stage |-> "idle", code |-> None, late |-> FALSE,
                     write |-> FALSE, verdict |-> "none"]]
    /\ activations = [b \in Batches |-> 0]
    /\ recalledCodes = {}

-----------------------------------------------------------------------------
(* Handlers that hold the locks of every row they read until they commit.  *)

\* generateBatchInTransaction: the product row is locked and must be active.
Generate(b, p, d) ==
    /\ batch[b].status = "absent"
    /\ product[p] = "active"
    /\ batch' = [batch EXCEPT ![b] = [NoBatch EXCEPT !.status = "allocated",
                                                     !.product = p,
                                                     !.dates = d]]
    /\ code' = [c \in Codes |->
                  IF BatchOf[c] = b
                  THEN [NoCode EXCEPT !.status = "allocated", !.product = p]
                  ELSE code[c]]
    /\ UNCHANGED <<product, lots, lotDates, codeReq, batchReq, scan, history>>

\* release: a controlled batch that already has a releasedAt is left as it is.
Release(b) ==
    /\ Mode[b] = "controlled_physical_print"
    /\ batch[b].status \in {"allocated", "released_for_activation"}
    /\ ~batch[b].released
    /\ batch' = [batch EXCEPT ![b].status = "released_for_activation",
                              ![b].released = TRUE]
    /\ UNCHANGED <<product, code, lots, lotDates, codeReq, batchReq, scan, history>>

\* reveal: stores the digest of a fresh PIN, in place of the previous one.
Reveal(b) ==
    /\ Mode[b] = "controlled_physical_print"
    /\ batch[b].status = "released_for_activation"
    /\ batch[b].released
    /\ batch' = [batch EXCEPT ![b].pin = TRUE]
    /\ UNCHANGED <<product, code, lots, lotDates, codeReq, batchReq, scan, history>>

\* The status (and PIN) conditions under which activate goes on to the binding.
ReadyForActivation(b) ==
    IF Mode[b] = "controlled_physical_print"
    THEN /\ batch[b].status = "released_for_activation"
         /\ batch[b].released
         /\ batch[b].pin
    ELSE batch[b].status = "allocated"

\* Mutant of ProductCanBind: a placeholder product can be chosen.
PlaceholderCanBind(b, p) ==
    /\ product[p] = "active"
    /\ batch[b].product \in {p} \cup InternalProducts

\* The product chosen at activation is an active one of the vendor's own, and
\* replaces the product of the batch only when that is a placeholder.
ProductCanBind(b, p) ==
    /\ product[p] = "active"
    /\ p \notin InternalProducts
    /\ batch[b].product \in {p} \cup InternalProducts

\* Every unit of the batch is still allocated and bound to the batch's product.
UnitsIntact(b) ==
    \A c \in CodesOf(b) : /\ code[c].status = "allocated"
                          /\ code[c].product = batch[b].product

\* Mutant of LotAccepts: the dates of an existing lot are not compared.
LotAcceptsAnyDates(b, l) == TRUE

\* The lot is created with the batch's dates, or must agree with them.
LotAccepts(b, l) ==
    l \in lots /\ batch[b].dates # None => lotDates[l] = batch[b].dates

Activate(b, p, ref) ==
    LET l == <<p, ref>> IN
    /\ ReadyForActivation(b)
    /\ ProductCanBind(b, p)
    /\ UnitsIntact(b)
    /\ LotAccepts(b, l)
    /\ \A c \in CodesOf(b) : Unlocked(c)
    /\ lots' = lots \cup {l}
    /\ lotDates' = IF l \in lots THEN lotDates
                                 ELSE [lotDates EXCEPT ![l] = batch[b].dates]
    /\ code' = [c \in Codes |->
                  IF BatchOf[c] = b
                  THEN [status |-> "market_active", product |-> p, lot |-> l]
                  ELSE code[c]]
    /\ batch' = [batch EXCEPT ![b].status = "market_active", ![b].pin = FALSE,
                              ![b].product = p, ![b].lot = l]
    /\ activations' = [activations EXCEPT ![b] = @ + 1]
    /\ UNCHANGED <<product, codeReq, batchReq, scan, recalledCodes>>

\* The platform's suspendBatch and deactivateBatch: the codes, not the batch.
PlatformSuspend(b) ==
    /\ batch[b].status # "absent"
    /\ \A c \in CodesOf(b) : code[c].status = "market_active" => Unlocked(c)
    /\ code' = [c \in Codes |->
                  IF BatchOf[c] = b /\ code[c].status = "market_active"
                  THEN [code[c] EXCEPT !.status = "revoked"] ELSE code[c]]
    /\ UNCHANGED <<product, batch, lots, lotDates, codeReq, batchReq, scan, history>>

\* Mutant of RecallCodes: suspended codes are left out of a recall.
RecallLiveCodes(covered) ==
    /\ \A c \in covered : Unlocked(c)
    /\ code' = [c \in Codes |-> IF c \in covered /\ code[c].status = "market_active"
                                THEN [code[c] EXCEPT !.status = "recalled"]
                                ELSE code[c]]
    /\ recalledCodes' = recalledCodes \cup covered

\* Mutant of RecallCodes: a recall takes the codes out of their lot.
RecallUnbindsCodes(covered) ==
    /\ \A c \in covered : Unlocked(c)
    /\ code' = [c \in Codes |-> IF c \in covered
                                THEN [code[c] EXCEPT !.status = "recalled", !.lot = None]
                                ELSE code[c]]
    /\ recalledCodes' = recalledCodes \cup covered

\* The UPDATE by which a recall changes the codes in a set.
RecallCodes(covered) ==
    /\ \A c \in covered : Unlocked(c)
    /\ code' = [c \in Codes |-> IF c \in covered
                                THEN [code[c] EXCEPT !.status = "recalled"]
                                ELSE code[c]]
    /\ recalledCodes' = recalledCodes \cup covered

\* recallBatch.  With a live PIN its save fails PinCheck and nothing commits.
RecallBatch(b) ==
    /\ batch[b].status \notin {"absent", "recalled"}
    /\ PinCheck([batch[b] EXCEPT !.status = "recalled"])
    /\ batch' = [batch EXCEPT ![b].status = "recalled"]
    /\ RecallCodes(CodesOf(b))
    /\ UNCHANGED <<product, lots, lotDates, codeReq, batchReq, scan, activations>>

\* The batches that the second UPDATE of recallProduct covers.
RecallableBatches(p) ==
    {b \in Batches : batch[b].product = p /\ batch[b].status # "recalled"}

\* recallProduct: the product, its batches and its codes in one transaction,
\* all of it refused by PinCheck when one of the batches has a live PIN.
RecallProduct(p) ==
    /\ product[p] # "recalled"
    /\ \A b \in RecallableBatches(p) :
            PinCheck([batch[b] EXCEPT !.status = "recalled"])
    /\ product' = [product EXCEPT ![p] = "recalled"]
    /\ batch' = [b \in Batches |-> IF b \in RecallableBatches(p)
                                   THEN [batch[b] EXCEPT !.status = "recalled"]
                                   ELSE batch[b]]
    /\ RecallCodes({c \in Codes : code[c].product = p})
    /\ UNCHANGED <<lots, lotDates, codeReq, batchReq, scan, activations>>

\* setProductStatus of the platform sets any status, whatever the present one.
\* (ProductService, which saves a row it read without a lock, can do no more.)
SetProductStatus(p, status) ==
    /\ product[p] # status
    /\ product' = [product EXCEPT ![p] = status]
    /\ UNCHANGED <<batch, code, lots, lotDates, codeReq, batchReq, scan, history>>

-----------------------------------------------------------------------------
(* setCodeStatus: findOneBy, then save, which itself is a SELECT that finds *)
(* the columns that differ from the entity and an UPDATE that writes them.  *)

CodeRead(w, c, status) ==
    /\ codeReq[w].stage = "idle"
    /\ code[c].status = IF status = "market_active" THEN "revoked"
                                                    ELSE "market_active"
    /\ codeReq' = [codeReq EXCEPT ![w] = [stage |-> "read", code |-> c,
                                          status |-> status, write |-> FALSE]]
    /\ UNCHANGED <<rows, batchReq, scan, history>>

CodeDiff(w) ==
    /\ codeReq[w].stage = "read"
    /\ codeReq' = [codeReq EXCEPT ![w].stage = "diffed",
           ![w].write = codeReq[w].status # code[codeReq[w].code].status]
    /\ UNCHANGED <<rows, batchReq, scan, history>>

CodeSave(w) ==
    LET c == codeReq[w].code IN
    /\ codeReq[w].stage = "diffed"
    /\ codeReq[w].write => Unlocked(c)
    /\ code' = IF codeReq[w].write
               THEN [code EXCEPT ![c].status = codeReq[w].status] ELSE code
    /\ codeReq' = [codeReq EXCEPT ![w] = NoCodeReq]
    /\ UNCHANGED <<product, batch, lots, lotDates, batchReq, scan, history>>

-----------------------------------------------------------------------------
(* suspendBatch and reactivateBatch of the vendor: read the batch, UPDATE   *)
(* its codes, then save the batch that was read.  None of it is in one      *)
(* transaction.                                                             *)

SwitchRead(w, b, status) ==
    /\ batchReq[w].stage = "idle"
    /\ batch[b].status \notin {"absent", "recalled"}
    /\ batchReq' = [batchReq EXCEPT ![w] =
           [stage |-> "read", batch |-> b, diff |-> {},
            row |-> [batch[b] EXCEPT !.status = status]]]
    /\ UNCHANGED <<rows, codeReq, scan, history>>

SwitchCodes(w) ==
    LET to == batchReq[w].row.status
        from == IF to = "revoked" THEN "market_active" ELSE "revoked"
        covered == {c \in CodesOf(batchReq[w].batch) : code[c].status = from}
    IN
    /\ batchReq[w].stage = "read"
    /\ \A c \in covered : Unlocked(c)
    /\ code' = [c \in Codes |-> IF c \in covered
                                THEN [code[c] EXCEPT !.status = to] ELSE code[c]]
    /\ batchReq' = [batchReq EXCEPT ![w].stage = "switched"]
    /\ UNCHANGED <<product, batch, lots, lotDates, codeReq, scan, history>>

\* The SELECT of save.  The PIN digest was not selected, so it is not written.
SwitchDiff(w) ==
    LET row == batchReq[w].row
        now == batch[batchReq[w].batch]
    IN
    /\ batchReq[w].stage = "switched"
    /\ batchReq' = [batchReq EXCEPT ![w].stage = "diffed",
           ![w].diff = {f \in {"status", "released", "product", "lot"} :
                            row[f] # now[f]}]
    /\ UNCHANGED <<rows, codeReq, scan, history>>

\* The row that the UPDATE of save leaves: the columns of diff from the entity.
Overwritten(now, row, diff) ==
    [now EXCEPT
       !.status   = IF "status" \in diff THEN row.status ELSE @,
       !.released = IF "released" \in diff THEN row.released ELSE @,
       !.product  = IF "product" \in diff THEN row.product ELSE @,
       !.lot      = IF "lot" \in diff THEN row.lot ELSE @]

\* The UPDATE of save; a row that fails PinCheck makes the request fail here,
\* after its codes have changed.
SwitchSave(w) ==
    LET b == batchReq[w].batch
        row == Overwritten(batch[b], batchReq[w].row, batchReq[w].diff)
    IN
    /\ batchReq[w].stage = "diffed"
    /\ batch' = IF PinCheck(row) THEN [batch EXCEPT ![b] = row] ELSE batch
    /\ batchReq' = [batchReq EXCEPT ![w] = NoBatchReq]
    /\ UNCHANGED <<product, code, lots, lotDates, codeReq, scan, history>>

-----------------------------------------------------------------------------
(* verify: one transaction, but only the code row is locked.                *)

ScanLock(s, c) ==
    /\ ~Scanning(s)
    /\ code[c].status # "absent"
    /\ Unlocked(c)
    /\ scan' = [scan EXCEPT ![s] =
           [stage |-> "locked", code |-> c, late |-> c \in recalledCodes,
            write |-> FALSE, verdict |-> "none"]]
    /\ UNCHANGED <<rows, codeReq, batchReq, history>>

\* The verdict of a code that is not live, or whose batch is not.
OffMarketVerdict(codeStatus, batchStatus) ==
    IF "recalled" \in {codeStatus, batchStatus} THEN "recalled"
    ELSE IF "revoked" \in {codeStatus, batchStatus} THEN "revoked"
    ELSE "unactivated"

\* The verdict once the batch row is read; "none" when the scan goes on.
BatchVerdict(c, row) ==
    IF row.product # code[c].product THEN "invalid"
    ELSE IF {code[c].status, row.status} # {"market_active"}
         THEN OffMarketVerdict(code[c].status, row.status)
    ELSE IF code[c].lot = None \/ code[c].lot # row.lot THEN "invalid"
    ELSE "none"

\* A verdict ends the request and releases the lock; "none" goes to the next stage.
Decide(s, verdict, next) ==
    scan' = [scan EXCEPT ![s].verdict = verdict,
                         ![s].stage = IF verdict = "none" THEN next ELSE "idle"]

ScanBatch(s) ==
    /\ scan[s].stage = "locked"
    /\ Decide(s, BatchVerdict(scan[s].code, batch[BatchOf[scan[s].code]]), "batch_read")
    /\ UNCHANGED <<rows, codeReq, batchReq, history>>

ScanProduct(s) ==
    /\ scan[s].stage = "batch_read"
    /\ Decide(s, IF product[code[scan[s].code].product] = "active"
                 THEN "none" ELSE "product_unavailable", "product_read")
    /\ UNCHANGED <<rows, codeReq, batchReq, history>>

\* The SELECT of save(product): the entity in memory still has status active.
ScanDiff(s) ==
    /\ scan[s].stage = "product_read"
    /\ scan' = [scan EXCEPT ![s].stage = "diffed",
           ![s].write = product[code[scan[s].code].product] # "active"]
    /\ UNCHANGED <<rows, codeReq, batchReq, history>>

\* The UPDATE of save(product) and the commit, with the verdict valid: true.
ScanCommit(s) ==
    /\ scan[s].stage = "diffed"
    /\ product' = IF scan[s].write
                  THEN [product EXCEPT ![code[scan[s].code].product] = "active"]
                  ELSE product
    /\ scan' = [scan EXCEPT ![s].stage = "idle", ![s].write = FALSE,
                            ![s].verdict = "genuine"]
    /\ UNCHANGED <<batch, code, lots, lotDates, codeReq, batchReq, history>>

\* The transaction is chosen as a deadlock victim or its connection is lost.
ScanAbort(s) ==
    /\ Scanning(s)
    /\ scan' = [scan EXCEPT ![s].stage = "idle", ![s].write = FALSE]
    /\ UNCHANGED <<rows, codeReq, batchReq, history>>

-----------------------------------------------------------------------------
BatchNext ==
    \E b \in Batches :
        \/ \E p \in Products, d \in Dates \cup {None} : Generate(b, p, d)
        \/ Release(b)
        \/ Reveal(b)
        \/ \E p \in Products, ref \in LotRefs : Activate(b, p, ref)
        \/ PlatformSuspend(b)
        \/ RecallBatch(b)

ProductNext ==
    \E p \in Products :
        \/ RecallProduct(p)
        \/ \E status \in ProductStatus : SetProductStatus(p, status)

CodeWriterNext ==
    \E w \in CodeWriters :
        \/ \E c \in Codes, status \in {"market_active", "revoked"} :
                CodeRead(w, c, status)
        \/ CodeDiff(w)
        \/ CodeSave(w)

BatchWriterNext ==
    \E w \in BatchWriters :
        \/ \E b \in Batches, status \in {"market_active", "revoked"} :
                SwitchRead(w, b, status)
        \/ SwitchCodes(w)
        \/ SwitchDiff(w)
        \/ SwitchSave(w)

ScannerNext ==
    \E s \in Scanners :
        \/ \E c \in Codes : ScanLock(s, c)
        \/ ScanBatch(s)
        \/ ScanProduct(s)
        \/ ScanDiff(s)
        \/ ScanCommit(s)
        \/ ScanAbort(s)

Next == BatchNext \/ ProductNext \/ CodeWriterNext \/ BatchWriterNext \/ ScannerNext

Spec == Init /\ [][Next]_vars

-----------------------------------------------------------------------------
(* Properties.                                                             *)

\* The shape of every row and of every request in flight.
RowsOK ==
    /\ product \in [Products -> ProductStatus]
    /\ batch \in [Batches -> BatchRow]
    /\ code \in [Codes -> CodeRow]
    /\ lots \subseteq Lots
    /\ lotDates \in [Lots -> Dates \cup {None}]

CodeReqsOK ==
    /\ codeReq \in [CodeWriters ->
            [stage: {"idle", "read", "diffed"}, code: Codes \cup {None},
             status: CodeStatus, write: BOOLEAN]]
    /\ \A w \in CodeWriters : codeReq[w].stage # "idle" =>
            /\ codeReq[w].code \in Codes
            /\ codeReq[w].status \in {"market_active", "revoked"}

BatchReqsOK ==
    /\ batchReq \in [BatchWriters ->
            [stage: {"idle", "read", "switched", "diffed"},
             batch: Batches \cup {None}, row: BatchRow,
             diff: SUBSET {"status", "released", "product", "lot"}]]
    /\ \A w \in BatchWriters : batchReq[w].stage # "idle" =>
            /\ batchReq[w].batch \in Batches
            /\ batchReq[w].row.status \in {"market_active", "revoked"}

ScansOK ==
    /\ scan \in [Scanners ->
            [stage: {"idle", "locked", "batch_read", "product_read", "diffed"},
             code: Codes \cup {None}, late: BOOLEAN, write: BOOLEAN,
             verdict: Verdicts]]
    /\ \A s \in Scanners : Scanning(s) => scan[s].code \in Codes

HistoryOK ==
    /\ activations \in [Batches -> Nat]
    /\ recalledCodes \subseteq Codes

TypeOK == RowsOK /\ CodeReqsOK /\ BatchReqsOK /\ ScansOK /\ HistoryOK

\* The binding that activation gives a code: a lot row of the code's product.
Bound(c) ==
    /\ code[c].lot \in lots
    /\ code[c].product \in Products \ InternalProducts
    /\ code[c].lot[1] = code[c].product

\* A code that is, or was, on the market got there by the one activation of its
\* batch and carries the lot and the vendor's own product chosen there, whatever
\* suspensions, reactivations and stale saves have run since (activate,
\* batch-activation.service.ts; it is also what CHK_gve16_shape asks for).
LiveCodesBound ==
    \A c \in Codes : code[c].status \in {"market_active", "revoked"} =>
                        Bound(c) /\ activations[BatchOf[c]] = 1

\* Activation is all or nothing and happens at most once: the units of a batch
\* are all unbound, or all bound to one product and lot by a single activation,
\* even when two requests activate, suspend and recall the batch concurrently.
UnitsBoundTogether ==
    \A c, d \in Codes : BatchOf[c] = BatchOf[d] =>
        /\ code[c].product = code[d].product
        /\ code[c].lot = code[d].lot
        /\ activations[BatchOf[c]] = IF code[c].lot = None THEN 0 ELSE 1

\* Every batch bound to a lot agrees with the lot's dates, if it has any of its
\* own (PRODUCT_BATCH_DATES_CONFLICT in activate): no later batch changes the
\* dates that an earlier batch was activated under.
LotDatesAgree ==
    \A c, d \in Codes :
        /\ code[c].lot # None
        /\ code[c].lot = code[d].lot
        /\ batch[BatchOf[c]].dates # None
        /\ batch[BatchOf[d]].dates # None
        => batch[BatchOf[c]].dates = batch[BatchOf[d]].dates

\* A genuine verdict is true of the code row at the moment it commits: the row
\* lock taken five statements earlier has kept every suspension and recall out.
GenuineWhenCommitted ==
    [][\A s \in Scanners :
        Scanning(s) /\ scan'[s].verdict = "genuine" =>
            /\ code[scan[s].code].status = "market_active"
            /\ code'[scan[s].code].status = "market_active"]_vars

\* GVE-12 of docs/GVE16_TEST_PLAN.md: a code whose recall had committed before
\* the verification began gets no genuine verdict.
NoGenuineAfterRecall ==
    \A s \in Scanners : scan[s].verdict = "genuine" => ~scan[s].late

=============================================================================
