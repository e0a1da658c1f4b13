---------------------------- MODULE ManagedCodes ----------------------------
(***************************************************************************)
(* What the portals show of the batches and codes of CodeLifecycle: the    *)
(* platform's code management (src/platform/platform-manage-codes.service  *)
(* .ts) and the vendor's batch pages (src/codes/codes.service.ts).  These  *)
(* operations change nothing: each is an operator on the committed rows.   *)
(* Left out: names, dates, prices, scan counts, paging and search.         *)
(***************************************************************************)
EXTENDS CodeLifecycle

ExistingBatches == {b \in Batches : batch[b].status # "absent"}

CodesWith(b, status) == {c \in CodesOf(b) : code[c].status = status}

\* A batch is resolved by its identifier or its reference, or it is not found.
ResolveBatch(b) == b \in ExistingBatches

\* getMetrics: the codes of all batches, those on the market and those waiting.
Metrics ==
    LET count(s) == Cardinality({c \in Codes : code[c].status \in s}) IN
    [codesGenerated    |-> count(CodeStatus \ {"absent"}),
     activatedCodes    |-> count({"market_active"}),
     pendingActivation |-> count({"allocated"})]

\* The list and the page of a batch count the codes stored as "suspended", and
\* no code ever is: suspension stores "revoked" (VerificationCodeStatus).
StoredSuspended(b) == CodesWith(b, "suspended")

\* Mutant of ListStatus: the status of the batch row decides.
ListStatusOfRow(b) ==
    IF batch[b].status = "market_active" THEN "activated" ELSE "generated"

\* The status that listBatches and getBatch show, from the codes of the batch
\* and not from its row ("failed", shown as pending, is a status no code sets).
ListStatus(b) ==
    IF StoredSuspended(b) = CodesOf(b) THEN "suspended"
    ELSE IF CodesWith(b, "market_active") = CodesOf(b) THEN "activated"
    ELSE "generated"

\* A product that stands for "selected during activation" is not shown.
ShownProduct(b) ==
    IF batch[b].product \in InternalProducts THEN None ELSE batch[b].product

\* listBatches.
BatchList ==
    {[id |-> b, lifecycleStatus |-> batch[b].status,
      released |-> batch[b].released, product |-> ShownProduct(b),
      activeCodes |-> Cardinality(CodesWith(b, "market_active")),
      status |-> ListStatus(b)] : b \in ExistingBatches}

\* getBatch: a date of activation is shown only for an activated batch.
BatchPage(b) ==
    [found |-> ResolveBatch(b), lifecycleStatus |-> batch[b].status,
     product |-> ShownProduct(b), quantity |-> Cardinality(CodesOf(b)),
     activated |-> ListStatus(b) = "activated", status |-> ListStatus(b)]

\* listCodes shows one of three labels, and filters on the stored status.
CodeLabel(c) ==
    CASE code[c].status = "market_active" -> "active"
      [] code[c].status = "revoked"       -> "suspended"
      [] OTHER                            -> "inactive"

CodeList(b, statuses) ==
    {[code |-> c, status |-> CodeLabel(c)] :
        c \in {d \in CodesOf(b) : ResolveBatch(b) /\ code[d].status \in statuses}}

\* exportBatchCsv writes the stored status, except that market_active is active.
ExportRows(b) ==
    {[code |-> c, status |-> IF code[c].status = "market_active"
                             THEN "active" ELSE code[c].status] :
        c \in {d \in CodesOf(b) : ResolveBatch(b)}}

\* The vendor's filters of listBatches, and isActivated of the vendor's
\* getBatch, go by the row of the batch.
VendorFilter == [activated           |-> {"market_active"},
                 awaiting_activation |-> {"allocated", "released_for_activation"},
                 suspended           |-> {"recalled", "revoked"}]

VendorBatches(filter) == {b \in ExistingBatches : batch[b].status \in VendorFilter[filter]}

VendorShowsActivated(b) == ResolveBatch(b) /\ batch[b].status = "market_active"

-----------------------------------------------------------------------------
\* A batch that the platform lists as activated really is: one activation bound
\* every one of its codes to one lot, none of them is a placeholder's, and the
\* list, the labels and the export agree on all of them, although suspensions,
\* reactivations and stale saves switch rows and codes separately (listBatches
\* and getBatch count the codes; the row alone would not do, since a vendor's
\* reactivateBatch can set market_active on a batch that was never activated).
ListedActivatedIsActivated ==
    \A row \in {r \in BatchList : r.status = "activated"} :
        /\ activations[row.id] = 1
        /\ \E l \in lots : \A c \in CodesOf(row.id) : Bound(c) /\ code[c].lot = l
        /\ \A shown \in ExportRows(row.id) \cup CodeList(row.id, CodeStatus) :
                shown.status = "active"
=============================================================================
