------------------------- MODULE CodeLifecycleProofs --------------------------
(***************************************************************************)
(* Proofs about CodeLifecycle.  The inductive invariant IInv adds to the   *)
(* type invariant what the properties leave unsaid: that a batch row and   *)
(* its codes come into being together, that a code keeps no binding before *)
(* its activation, that a request in flight only names a code that was     *)
(* bound when it was read, and what the row lock of a scan preserves.      *)
(* The second part is about module Scans, and has an invariant of its own. *)
(***************************************************************************)
EXTENDS ManagedCodes, Scans, WellFoundedInduction, TLAPS

\* The codes of a batch are inserted in the transaction that creates it.
CodesFollowBatch ==
    \A c \in Codes :
        /\ batch[BatchOf[c]].status = "absent" => code[c].status = "absent"
        /\ code[c].status = "absent" => code[c].product = None

\* A code is bound to a lot by activation only, and to one that exists.
UnboundBeforeActivation ==
    \A c \in Codes :
        /\ code[c].status \in {"absent", "allocated"} => code[c].lot = None
        /\ code[c].lot # None => code[c].lot \in lots

\* setCodeStatus was admitted for a code that was live or revoked, hence bound.
WritersHoldBoundCodes ==
    \A w \in CodeWriters : codeReq[w].stage # "idle" =>
        /\ Bound(codeReq[w].code)
        /\ activations[BatchOf[codeReq[w].code]] = 1

\* Until a scan ends it has no verdict, and once it has seen its code live the
\* row lock keeps the code so.
ScansHoldLiveCodes ==
    \A s \in Scanners : Scanning(s) =>
        /\ scan[s].verdict = "none"
        /\ scan[s].stage # "locked" => code[scan[s].code].status = "market_active"

\* The dates of a lot are those of every batch bound to it that has any.
LotKeepsDates ==
    \A c \in Codes :
        code[c].lot # None /\ batch[BatchOf[c]].dates # None =>
            lotDates[code[c].lot] = batch[BatchOf[c]].dates

Binding ==
    /\ CodesFollowBatch
    /\ UnboundBeforeActivation
    /\ LiveCodesBound
    /\ UnitsBoundTogether
    /\ LotKeepsDates

IInv == TypeOK /\ Binding /\ WritersHoldBoundCodes /\ ScansHoldLiveCodes

-----------------------------------------------------------------------------
(* Types.                                                                  *)

\* A row without columns set, and the row that a save leaves, are rows.
LEMMA RowsAreTyped ==
    /\ NoBatch \in BatchRow
    /\ NoCode \in CodeRow
    /\ \A now, row \in BatchRow :
        \A diff \in SUBSET {"status", "released", "product", "lot"} :
            Overwritten(now, row, diff) \in BatchRow
<1>1. NoBatch \in BatchRow /\ NoCode \in CodeRow
  BY DEF NoBatch, NoCode, BatchRow, CodeRow, BatchStatus, CodeStatus
<1>2. ASSUME NEW now \in BatchRow, NEW row \in BatchRow,
             NEW diff \in SUBSET {"status", "released", "product", "lot"}
      PROVE  Overwritten(now, row, diff) \in BatchRow
  BY <1>2 DEF BatchRow, Overwritten
<1> QED
  BY <1>1, <1>2

\* A verdict about a batch row and a code row is one of the verdicts.
LEMMA VerdictsAreTyped ==
    ASSUME NEW c, NEW row
    PROVE  /\ BatchVerdict(c, row) \in Verdicts
           /\ BatchVerdict(c, row) # "genuine"
  BY DEF BatchVerdict, OffMarketVerdict, Verdicts


\* A change of status, of PIN or of binding leaves a row a row.
LEMMA UpdatesAreTyped ==
    /\ \A row \in BatchRow, status \in BatchStatus :
            [row EXCEPT !.status = status] \in BatchRow
    /\ \A row \in BatchRow : [row EXCEPT !.pin = TRUE] \in BatchRow
    /\ \A row \in CodeRow, status \in CodeStatus :
            [row EXCEPT !.status = status] \in CodeRow
    /\ \A row \in BatchRow, p \in Products, l \in Lots :
            [row EXCEPT !.status = "market_active", !.pin = FALSE,
                        !.product = p, !.lot = l] \in BatchRow
    /\ \A p \in Products, l \in Lots :
            [status |-> "market_active", product |-> p, lot |-> l] \in CodeRow
  BY DEF BatchRow, CodeRow, BatchStatus, CodeStatus

\* The statuses that the handlers write are among those of the columns.
LEMMA StatusesAreTyped ==
    /\ {"recalled", "revoked", "market_active"} \subseteq BatchStatus \cap CodeStatus
    /\ {"active", "recalled"} \subseteq ProductStatus
  BY DEF BatchStatus, CodeStatus, ProductStatus

\* A statement leaves the parts of the state it does not write well formed.
LEMMA PartsUntouched ==
    /\ RowsOK /\ UNCHANGED rows => RowsOK'
    /\ CodeReqsOK /\ UNCHANGED codeReq => CodeReqsOK'
    /\ BatchReqsOK /\ UNCHANGED batchReq => BatchReqsOK'
    /\ ScansOK /\ UNCHANGED scan => ScansOK'
    /\ HistoryOK /\ UNCHANGED history => HistoryOK'
  BY DEF RowsOK, CodeReqsOK, BatchReqsOK, ScansOK, HistoryOK, rows, history, Scanning

\* The handlers that hold their locks keep the rows well formed.
LEMMA RowStep == RowsOK /\ (BatchNext \/ ProductNext) => RowsOK'
<1> SUFFICES ASSUME RowsOK, BatchNext \/ ProductNext PROVE RowsOK'
  OBVIOUS
<1> USE ConstantsAssumption DEF RowsOK
<1>1. ASSUME NEW b \in Batches, NEW p \in Products, NEW d \in Dates \cup {None},
             Generate(b, p, d)
      PROVE  RowsOK'
  BY <1>1 DEF Generate, BatchRow, CodeRow, BatchStatus, CodeStatus, NoBatch, NoCode
<1>2. ASSUME NEW b \in Batches, Release(b) PROVE RowsOK'
  BY <1>2 DEF Release, BatchRow, BatchStatus
<1>3. ASSUME NEW b \in Batches, Reveal(b) PROVE RowsOK'
  BY <1>3, UpdatesAreTyped DEF Reveal
<1>4. ASSUME NEW b \in Batches, NEW p \in Products, NEW ref \in LotRefs,
             Activate(b, p, ref)
      PROVE  RowsOK'
<2> DEFINE l == <<p, ref>>
<2>1. l \in Lots
  BY DEF Lots
<2>2. lots' = lots \cup {l} /\ lotDates' = IF l \in lots THEN lotDates
                                ELSE [lotDates EXCEPT ![l] = batch[b].dates]
  BY <1>4 DEF Activate
<2>3. batch[b].dates \in Dates \cup {None}
  BY DEF BatchRow
<2>4. lots' \subseteq Lots /\ lotDates' \in [Lots -> Dates \cup {None}]
  BY <2>1, <2>2, <2>3
<2>5. code' \in [Codes -> CodeRow]
  BY <1>4, <2>1, UpdatesAreTyped DEF Activate
<2>6. batch' \in [Batches -> BatchRow]
  <3> DEFINE row == [batch[b] EXCEPT !.status = "market_active", !.pin = FALSE,
                                     !.product = p, !.lot = l]
  <3>1. row \in BatchRow
    BY <2>1, UpdatesAreTyped
  <3>2. batch' = [batch EXCEPT ![b] = row]
    BY <1>4 DEF Activate
  <3> QED
    BY <3>1, <3>2
<2> QED
  BY <1>4, <2>4, <2>5, <2>6 DEF Activate
<1>5. ASSUME NEW b \in Batches, PlatformSuspend(b) PROVE RowsOK'
  BY <1>5, UpdatesAreTyped, StatusesAreTyped DEF PlatformSuspend
<1>6. ASSUME NEW b \in Batches, RecallBatch(b) PROVE RowsOK'
  BY <1>6, UpdatesAreTyped, StatusesAreTyped DEF RecallBatch, RecallCodes
<1>7. ASSUME NEW p \in Products, RecallProduct(p) PROVE RowsOK'
  BY <1>7, UpdatesAreTyped, StatusesAreTyped DEF RecallProduct, RecallCodes
<1>8. ASSUME NEW p \in Products, NEW status \in ProductStatus,
             SetProductStatus(p, status)
      PROVE  RowsOK'
  BY <1>8 DEF SetProductStatus
<1> QED
  BY <1>1, <1>2, <1>3, <1>4, <1>5, <1>6, <1>7, <1>8 DEF BatchNext, ProductNext

\* The requests to switch one code keep codes and requests well formed.
LEMMA CodeWriterStep ==
    RowsOK /\ CodeReqsOK /\ CodeWriterNext => RowsOK' /\ CodeReqsOK'
<1> SUFFICES ASSUME RowsOK, CodeReqsOK, CodeWriterNext PROVE RowsOK' /\ CodeReqsOK'
  OBVIOUS
<1>1. ASSUME NEW w \in CodeWriters, NEW c \in Codes,
             NEW status \in {"market_active", "revoked"}, CodeRead(w, c, status)
      PROVE  RowsOK' /\ CodeReqsOK'
  BY <1>1, PartsUntouched, StatusesAreTyped DEF CodeRead, CodeReqsOK
<1>2. ASSUME NEW w \in CodeWriters, CodeDiff(w) PROVE RowsOK' /\ CodeReqsOK'
  <2>1. CodeReqsOK'
    BY <1>2 DEF CodeDiff, CodeReqsOK
  <2> QED
    BY <1>2, <2>1, PartsUntouched DEF CodeDiff
<1>3. ASSUME NEW w \in CodeWriters, CodeSave(w) PROVE RowsOK' /\ CodeReqsOK'
  <2>1. CodeReqsOK'
    BY <1>3, StatusesAreTyped DEF CodeSave, CodeReqsOK, NoCodeReq, CodeStatus
  <2>2. code' \in [Codes -> CodeRow]
    BY <1>3, UpdatesAreTyped, StatusesAreTyped DEF CodeSave, CodeReqsOK, RowsOK
  <2> QED
    BY <1>3, <2>1, <2>2 DEF CodeSave, RowsOK
<1> QED
  BY <1>1, <1>2, <1>3 DEF CodeWriterNext

\* So do the vendor's requests to switch a batch.
LEMMA BatchWriterStep ==
    RowsOK /\ BatchReqsOK /\ BatchWriterNext => RowsOK' /\ BatchReqsOK'
<1> SUFFICES ASSUME RowsOK, BatchReqsOK, BatchWriterNext
             PROVE  RowsOK' /\ BatchReqsOK'
  OBVIOUS
<1>1. ASSUME NEW w \in BatchWriters, NEW b \in Batches,
             NEW status \in {"market_active", "revoked"}, SwitchRead(w, b, status)
      PROVE  RowsOK' /\ BatchReqsOK'
  <2> DEFINE row == [batch[b] EXCEPT !.status = status]
  <2>1. row \in BatchRow /\ row.status = status
    <3>1. row \in BatchRow
      BY UpdatesAreTyped, StatusesAreTyped DEF RowsOK
    <3>2. row.status = status
      BY DEF RowsOK, BatchRow
    <3> QED
      BY <3>1, <3>2
  <2>2. batchReq' = [batchReq EXCEPT ![w] =
                        [stage |-> "read", batch |-> b, diff |-> {}, row |-> row]]
    BY <1>1 DEF SwitchRead
  <2> HIDE DEF row
  <2>3. BatchReqsOK'
    BY <2>1, <2>2 DEF BatchReqsOK
  <2> QED
    BY <1>1, <2>3, PartsUntouched DEF SwitchRead
<1>2. ASSUME NEW w \in BatchWriters, SwitchCodes(w) PROVE RowsOK' /\ BatchReqsOK'
  <2>1. batchReq' \in [BatchWriters ->
            [stage: {"idle", "read", "switched", "diffed"},
             batch: Batches \cup {None}, row: BatchRow,
             diff: SUBSET {"status", "released", "product", "lot"}]]
    BY <1>2 DEF SwitchCodes, BatchReqsOK
  <2>2. BatchReqsOK'
    BY <1>2, <2>1 DEF SwitchCodes, BatchReqsOK
  <2>3. batchReq[w].row.status \in {"market_active", "revoked"}
    BY <1>2 DEF SwitchCodes, BatchReqsOK
  <2>4. code' \in [Codes -> CodeRow]
    BY <1>2, <2>3, UpdatesAreTyped, StatusesAreTyped DEF SwitchCodes, RowsOK
  <2> QED
    BY <1>2, <2>2, <2>4 DEF SwitchCodes, RowsOK
<1>3. ASSUME NEW w \in BatchWriters, SwitchDiff(w) PROVE RowsOK' /\ BatchReqsOK'
  <2> DEFINE diff == {f \in {"status", "released", "product", "lot"} :
                  batchReq[w].row[f] # batch[batchReq[w].batch][f]}
  <2>1. batchReq' = [batchReq EXCEPT ![w].stage = "diffed", ![w].diff = diff]
    BY <1>3 DEF SwitchDiff
  <2>2. diff \in SUBSET {"status", "released", "product", "lot"}
    OBVIOUS
  <2> HIDE DEF diff
  <2>3. batchReq' \in [BatchWriters ->
            [stage: {"idle", "read", "switched", "diffed"},
             batch: Batches \cup {None}, row: BatchRow,
             diff: SUBSET {"status", "released", "product", "lot"}]]
    <3> DEFINE req == [batchReq[w] EXCEPT !.stage = "diffed", !.diff = diff]
    <3>1. req \in [stage: {"idle", "read", "switched", "diffed"},
                   batch: Batches \cup {None}, row: BatchRow,
                   diff: SUBSET {"status", "released", "product", "lot"}]
      BY <2>2 DEF BatchReqsOK
    <3>2. batchReq' = [batchReq EXCEPT ![w] = req]
      BY <2>1
    <3> QED
      BY <3>1, <3>2 DEF BatchReqsOK
  <2>4. \A v \in BatchWriters : /\ batchReq'[v].batch = batchReq[v].batch
                                /\ batchReq'[v].row = batchReq[v].row
                                /\ batchReq[v].stage = "idle" => batchReq'[v].stage = "idle"
    BY <1>3, <2>1 DEF SwitchDiff, BatchReqsOK
  <2>5. BatchReqsOK'
    BY <2>3, <2>4 DEF BatchReqsOK
  <2> QED
    BY <1>3, <2>5, PartsUntouched DEF SwitchDiff
<1>4. ASSUME NEW w \in BatchWriters, SwitchSave(w) PROVE RowsOK' /\ BatchReqsOK'
  <2>1. BatchReqsOK'
    BY <1>4, RowsAreTyped DEF SwitchSave, BatchReqsOK, NoBatchReq
  <2>2. batch' \in [Batches -> BatchRow]
    BY <1>4, RowsAreTyped DEF SwitchSave, BatchReqsOK, RowsOK
  <2> QED
    BY <1>4, <2>1, <2>2 DEF SwitchSave, RowsOK
<1> QED
  BY <1>1, <1>2, <1>3, <1>4 DEF BatchWriterNext

\* And so do the verifications.
LEMMA ScannerStep == RowsOK /\ ScansOK /\ ScannerNext => RowsOK' /\ ScansOK'
<1> SUFFICES ASSUME RowsOK, ScansOK, ScannerNext PROVE RowsOK' /\ ScansOK'
  OBVIOUS
<1>1. ASSUME NEW s \in Scanners, NEW c \in Codes, ScanLock(s, c)
      PROVE  RowsOK' /\ ScansOK'
  <2>1. ScansOK'
    BY <1>1 DEF ScanLock, ScansOK, Scanning, Verdicts
  <2> QED
    BY <1>1, <2>1, PartsUntouched DEF ScanLock
<1>2. ASSUME NEW s \in Scanners, NEW verdict \in Verdicts,
             NEW next \in {"batch_read", "product_read"},
             Scanning(s), Decide(s, verdict, next)
      PROVE  ScansOK'
  <2> DEFINE stage == IF verdict = "none" THEN next ELSE "idle"
             row == [scan[s] EXCEPT !.verdict = verdict, !.stage = stage]
  <2>1. stage \in {"idle", "batch_read", "product_read"}
    OBVIOUS
  <2>2. scan' = [scan EXCEPT ![s] = row]
    BY <1>2 DEF Decide, ScansOK
  <2> HIDE DEF stage
  <2>3. /\ row \in [stage: {"idle", "locked", "batch_read", "product_read", "diffed"},
                    code: Codes \cup {None}, late: BOOLEAN, write: BOOLEAN, verdict: Verdicts]
        /\ row.code \in Codes
    BY <1>2, <2>1 DEF ScansOK
  <2> HIDE DEF row
  <2> QED
    BY <2>2, <2>3 DEF ScansOK, Scanning
<1>3. ASSUME NEW s \in Scanners, ScanBatch(s) PROVE RowsOK' /\ ScansOK'
  BY <1>2, <1>3, VerdictsAreTyped, PartsUntouched DEF ScanBatch, Scanning
<1>4. ASSUME NEW s \in Scanners, ScanProduct(s) PROVE RowsOK' /\ ScansOK'
  BY <1>2, <1>4, PartsUntouched DEF ScanProduct, Scanning, Verdicts
<1>5. ASSUME NEW s \in Scanners, ScanDiff(s) PROVE RowsOK' /\ ScansOK'
  <2> DEFINE write == product[code[scan[s].code].product] # "active"
             row == [scan[s] EXCEPT !.stage = "diffed", !.write = write]
  <2>a. scan' = [scan EXCEPT ![s] = row] /\ Scanning(s)
    BY <1>5 DEF ScanDiff, ScansOK, Scanning
  <2>b. write \in BOOLEAN
    OBVIOUS
  <2> HIDE DEF write
  <2>c. /\ row \in [stage: {"idle", "locked", "batch_read", "product_read", "diffed"},
                    code: Codes \cup {None}, late: BOOLEAN, write: BOOLEAN, verdict: Verdicts]
        /\ row.code \in Codes
    BY <2>a, <2>b DEF ScansOK
  <2> HIDE DEF row
  <2>1. ScansOK'
    BY <2>a, <2>c DEF ScansOK, Scanning
  <2> QED
    BY <1>5, <2>1, PartsUntouched DEF ScanDiff
<1>6. ASSUME NEW s \in Scanners, ScanCommit(s) PROVE RowsOK' /\ ScansOK'
  <2>1. scan' = [scan EXCEPT ![s].stage = "idle", ![s].write = FALSE,
                            ![s].verdict = "genuine"]
    BY <1>6 DEF ScanCommit
  <2>2. scan' \in [Scanners ->
            [stage: {"idle", "locked", "batch_read", "product_read", "diffed"},
             code: Codes \cup {None}, late: BOOLEAN, write: BOOLEAN,
             verdict: Verdicts]]
    <3> DEFINE req == [scan[s] EXCEPT !.stage = "idle", !.write = FALSE,
                                      !.verdict = "genuine"]
    <3>1. req \in [stage: {"idle", "locked", "batch_read", "product_read", "diffed"},
                   code: Codes \cup {None}, late: BOOLEAN, write: BOOLEAN,
                   verdict: Verdicts]
      BY DEF ScansOK, Verdicts
    <3>2. scan' = [scan EXCEPT ![s] = req]
      BY <2>1
    <3> QED
      BY <3>1, <3>2 DEF ScansOK
  <2>3. \A r \in Scanners : /\ scan'[r].code = scan[r].code
                            /\ scan[r].stage = "idle" => scan'[r].stage = "idle"
    BY <2>1 DEF ScansOK
  <2>4. ScansOK'
    BY <2>2, <2>3 DEF ScansOK, Scanning
  <2> QED
    BY <1>6, <2>4, StatusesAreTyped DEF ScanCommit, RowsOK
<1>7. ASSUME NEW s \in Scanners, ScanAbort(s) PROVE RowsOK' /\ ScansOK'
  <2>1. ScansOK'
    BY <1>7 DEF ScanAbort, ScansOK, Scanning
  <2> QED
    BY <1>7, <2>1, PartsUntouched DEF ScanAbort
<1> QED
  BY <1>1, <1>3, <1>4, <1>5, <1>6, <1>7 DEF ScannerNext


\* Which requests each part of the next-state relation leaves alone.
LEMMA OthersUntouched ==
    /\ BatchNext \/ ProductNext => UNCHANGED <<codeReq, batchReq, scan>>
    /\ CodeWriterNext => UNCHANGED <<batchReq, scan, history>>
    /\ BatchWriterNext => UNCHANGED <<codeReq, scan, history>>
    /\ ScannerNext => UNCHANGED <<codeReq, batchReq, history>>
<1>1. BatchNext => UNCHANGED <<codeReq, batchReq, scan>>
  <2> SUFFICES ASSUME NEW b \in Batches,
                      \/ \E p \in Products, d \in Dates \cup {None} : Generate(b, p, d)
                      \/ Release(b)
                      \/ Reveal(b)
                      \/ \E p \in Products, ref \in LotRefs : Activate(b, p, ref)
                      \/ PlatformSuspend(b)
                      \/ RecallBatch(b)
               PROVE  UNCHANGED <<codeReq, batchReq, scan>>
    BY DEF BatchNext
  <2>1. CASE \E p \in Products, d \in Dates \cup {None} : Generate(b, p, d)
    BY <2>1 DEF Generate
  <2>2. CASE Release(b) \/ Reveal(b)
    BY <2>2 DEF Release, Reveal
  <2>3. CASE \E p \in Products, ref \in LotRefs : Activate(b, p, ref)
    BY <2>3 DEF Activate
  <2>4. CASE PlatformSuspend(b) \/ RecallBatch(b)
    BY <2>4 DEF PlatformSuspend, RecallBatch
  <2> QED
    BY <2>1, <2>2, <2>3, <2>4
<1>2. ProductNext => UNCHANGED <<codeReq, batchReq, scan>>
  BY DEF ProductNext, RecallProduct, SetProductStatus
<1>3. CodeWriterNext => UNCHANGED <<batchReq, scan, history>>
  BY DEF CodeWriterNext, CodeRead, CodeDiff, CodeSave
<1>4. BatchWriterNext => UNCHANGED <<codeReq, scan, history>>
  BY DEF BatchWriterNext, SwitchRead, SwitchCodes, SwitchDiff, SwitchSave
<1>5. ScannerNext => UNCHANGED <<codeReq, batchReq, history>>
  BY DEF ScannerNext, ScanLock, ScanBatch, ScanProduct, ScanDiff, ScanCommit, ScanAbort
<1> QED
  BY <1>1, <1>2, <1>3, <1>4, <1>5

\* Recalls cover codes, and activations are counted.
LEMMA HistoryStep == HistoryOK /\ (BatchNext \/ ProductNext) => HistoryOK'
<1> SUFFICES ASSUME HistoryOK, BatchNext \/ ProductNext PROVE HistoryOK'
  OBVIOUS
<1>1. ASSUME NEW b \in Batches, NEW p \in Products, NEW ref \in LotRefs,
             Activate(b, p, ref)
      PROVE  HistoryOK'
  BY <1>1 DEF Activate, HistoryOK
<1>2. ASSUME NEW covered \in SUBSET Codes, RecallCodes(covered), UNCHANGED activations
      PROVE  HistoryOK'
  BY <1>2 DEF RecallCodes, HistoryOK
<1>3. CASE UNCHANGED history
  BY <1>3, PartsUntouched
<1> QED
  BY <1>1, <1>2, <1>3 DEF BatchNext, ProductNext, CodesOf, Generate, Release, Reveal,
     PlatformSuspend, RecallBatch, RecallProduct, SetProductStatus

\* Every step keeps the shape of every row and request.
LEMMA TypeStep == TypeOK /\ [Next]_vars => TypeOK'
  BY RowStep, CodeWriterStep, BatchWriterStep, ScannerStep, HistoryStep,
     OthersUntouched, PartsUntouched DEF TypeOK, Next, vars

\* The initial rows and requests have their shape.
LEMMA TypeInit == Init => TypeOK
  BY RowsAreTyped, ConstantsAssumption
     DEF Init, TypeOK, RowsOK, CodeReqsOK, BatchReqsOK, ScansOK, HistoryOK, Scanning,
         NoCodeReq, NoBatchReq, ProductStatus, CodeStatus, Verdicts

\* Type correctness.
THEOREM TypeCorrect == Spec => []TypeOK
  BY TypeInit, TypeStep, PTL DEF Spec

-----------------------------------------------------------------------------
(* Binding.  Apart from Generate and Activate, every step only moves codes  *)
(* from one status to another, and StatusesMove says how far.               *)

StatusesMove ==
    /\ UNCHANGED <<lots, lotDates, activations>>
    /\ \A b \in Batches :
        /\ batch'[b].dates = batch[b].dates
        /\ batch'[b].status = "absent" => batch[b].status = "absent"
    /\ \A c \in Codes :
        /\ code'[c].product = code[c].product
        /\ code'[c].lot = code[c].lot
        /\ code'[c].status \in {"absent", "allocated"} => code'[c].status = code[c].status
        /\ batch[BatchOf[c]].status = "absent" /\ code[c].status = "absent" =>
                code'[c].status = "absent"
        /\ code'[c].status \in {"market_active", "revoked"} =>
                \/ code[c].status \in {"market_active", "revoked"}
                \/ Bound(c) /\ activations[BatchOf[c]] = 1

\* A move of statuses keeps every binding.
LEMMA MovesKeepBinding == TypeOK /\ Binding /\ StatusesMove => Binding'
<1> SUFFICES ASSUME TypeOK, Binding, StatusesMove PROVE Binding'
  OBVIOUS
<1> USE ConstantsAssumption
<1>1. \A c \in Codes : BatchOf[c] \in Batches
  OBVIOUS
<1>2. \A c \in Codes : Bound(c) => Bound(c)'
  BY DEF StatusesMove, Bound
<1>3. CodesFollowBatch'
  BY <1>1 DEF Binding, CodesFollowBatch, StatusesMove
<1>4. UnboundBeforeActivation'
  BY DEF Binding, UnboundBeforeActivation, StatusesMove
<1>5. LiveCodesBound'
  BY <1>2 DEF Binding, LiveCodesBound, StatusesMove
<1>6. UnitsBoundTogether'
  BY DEF Binding, UnitsBoundTogether, StatusesMove
<1>7. LotKeepsDates'
  BY <1>1 DEF Binding, LotKeepsDates, StatusesMove
<1> QED
  BY <1>3, <1>4, <1>5, <1>6, <1>7 DEF Binding

\* Releasing, revealing, suspending and recalling only move statuses.
LEMMA HandlersMoveStatuses ==
    ASSUME TypeOK, Binding, BatchNext \/ ProductNext,
           ~ \E b \in Batches, p \in Products, d \in Dates \cup {None} : Generate(b, p, d),
           ~ \E b \in Batches, p \in Products, ref \in LotRefs : Activate(b, p, ref)
    PROVE  StatusesMove
<1> USE ConstantsAssumption
<1>1. ASSUME NEW b \in Batches, Release(b) PROVE StatusesMove
  BY <1>1 DEF Release, StatusesMove, history, TypeOK, RowsOK, BatchRow
<1>2. ASSUME NEW b \in Batches, Reveal(b) PROVE StatusesMove
  BY <1>2 DEF Reveal, StatusesMove, history, TypeOK, RowsOK, BatchRow
<1>3. ASSUME NEW b \in Batches, PlatformSuspend(b) PROVE StatusesMove
  BY <1>3 DEF PlatformSuspend, StatusesMove, history, TypeOK, RowsOK, CodeRow
<1>4. ASSUME NEW b \in Batches, RecallBatch(b) PROVE StatusesMove
  BY <1>4 DEF RecallBatch, RecallCodes, CodesOf, StatusesMove, TypeOK, RowsOK,
              CodeRow, BatchRow
<1>5. ASSUME NEW p \in Products, RecallProduct(p) PROVE StatusesMove
  <2>1. \A b \in Batches : /\ batch'[b].dates = batch[b].dates
                           /\ batch'[b].status = "absent" => batch[b].status = "absent"
    BY <1>5 DEF RecallProduct, TypeOK, RowsOK, BatchRow
  <2>2. \A c \in Codes : code[c].product = p => code[c].status # "absent"
    BY DEF Binding, CodesFollowBatch
  <2> QED
    BY <1>5, <2>1, <2>2 DEF RecallProduct, RecallCodes, StatusesMove, TypeOK, RowsOK,
                            CodeRow
<1>6. ASSUME NEW p \in Products, NEW status \in ProductStatus,
             SetProductStatus(p, status)
      PROVE  StatusesMove
  BY <1>6 DEF SetProductStatus, StatusesMove, history
<1> QED
  BY <1>1, <1>2, <1>3, <1>4, <1>5, <1>6 DEF BatchNext, ProductNext

\* So do the requests that read without locks, and the verifications.
LEMMA RequestsMoveStatuses ==
    ASSUME TypeOK, Binding, WritersHoldBoundCodes,
           CodeWriterNext \/ BatchWriterNext \/ ScannerNext
    PROVE  StatusesMove
<1> USE ConstantsAssumption
<1>1. ASSUME UNCHANGED <<batch, code, lots, lotDates, activations>> PROVE StatusesMove
  BY <1>1 DEF StatusesMove
<1>2. CASE CodeWriterNext
  <2>1. ASSUME NEW w \in CodeWriters, CodeSave(w) PROVE StatusesMove
    <3> DEFINE c == codeReq[w].code
    <3>1. /\ c \in Codes
          /\ codeReq[w].status \in {"market_active", "revoked"}
      BY <2>1 DEF CodeSave, TypeOK, CodeReqsOK
    <3>2. Bound(c) /\ activations[BatchOf[c]] = 1
      BY <2>1 DEF CodeSave, WritersHoldBoundCodes
    <3>3. code[c].status # "absent"
      BY <3>1, <3>2 DEF Bound, Binding, UnboundBeforeActivation, TypeOK, RowsOK, Lots
    <3> HIDE DEF c
    <3>4. \/ code' = code
          \/ code' = [code EXCEPT ![c].status = codeReq[w].status]
      BY <2>1 DEF CodeSave, c
    <3>5. UNCHANGED <<batch, lots, lotDates, activations>>
      BY <2>1 DEF CodeSave, history
    <3> QED
      BY <3>1, <3>2, <3>3, <3>4, <3>5 DEF StatusesMove, TypeOK, RowsOK, CodeRow
  <2> QED
    BY <1>1, <1>2, <2>1 DEF CodeWriterNext, CodeRead, CodeDiff, rows, history
<1>3. CASE BatchWriterNext
  <2>1. ASSUME NEW w \in BatchWriters, SwitchCodes(w) PROVE StatusesMove
    <3>1. batchReq[w].row.status \in {"market_active", "revoked"}
      BY <2>1 DEF SwitchCodes, TypeOK, BatchReqsOK
    <3> QED
      BY <2>1, <3>1 DEF SwitchCodes, CodesOf, StatusesMove, history, TypeOK, RowsOK,
                        CodeRow
  <2>2. ASSUME NEW w \in BatchWriters, SwitchSave(w) PROVE StatusesMove
    <3> DEFINE b == batchReq[w].batch
               row == Overwritten(batch[b], batchReq[w].row, batchReq[w].diff)
    <3>1. /\ b \in Batches
          /\ batchReq[w].row.status \in {"market_active", "revoked"}
      BY <2>2 DEF SwitchSave, TypeOK, BatchReqsOK
    <3>2. /\ row.dates = batch[b].dates
          /\ row.status \in {batch[b].status, batchReq[w].row.status}
      BY <3>1 DEF Overwritten, TypeOK, RowsOK, BatchRow
    <3> HIDE DEF b, row
    <3>3. batch' = batch \/ batch' = [batch EXCEPT ![b] = row]
      BY <2>2 DEF SwitchSave, b, row
    <3>4. UNCHANGED <<code, lots, lotDates, activations>>
      BY <2>2 DEF SwitchSave, history
    <3> QED
      BY <3>1, <3>2, <3>3, <3>4 DEF StatusesMove, TypeOK, RowsOK
  <2> QED
    BY <1>1, <1>3, <2>1, <2>2 DEF BatchWriterNext, SwitchRead, SwitchDiff, rows, history
<1>4. CASE ScannerNext
  BY <1>1, <1>4 DEF ScannerNext, ScanLock, ScanBatch, ScanProduct, ScanDiff, ScanCommit,
                    ScanAbort, rows, history
<1> QED
  BY <1>2, <1>3, <1>4

\* A batch that is generated was absent, and so were its codes.
LEMMA GenerateKeepsBinding ==
    ASSUME TypeOK, Binding,
           NEW b \in Batches, NEW p \in Products, NEW d \in Dates \cup {None},
           Generate(b, p, d)
    PROVE  Binding'
<1> USE ConstantsAssumption
<1>1. \A c \in Codes : BatchOf[c] \in Batches
  OBVIOUS
<1>2. \A c \in CodesOf(b) :
        /\ code[c].status = "absent" /\ code[c].lot = None
        /\ activations[b] = 0
        /\ code'[c] = [status |-> "allocated", product |-> p, lot |-> None]
  <2> SUFFICES ASSUME NEW c \in CodesOf(b)
               PROVE  /\ code[c].status = "absent" /\ code[c].lot = None
                      /\ activations[b] = 0
                      /\ code'[c] = [status |-> "allocated", product |-> p, lot |-> None]
    OBVIOUS
  <2>1. c \in Codes /\ BatchOf[c] = b
    BY DEF CodesOf
  <2>2. code[c].status = "absent" /\ code[c].lot = None
    BY <2>1 DEF Generate, Binding, CodesFollowBatch, UnboundBeforeActivation
  <2>3. activations[b] = 0
    BY <2>1, <2>2 DEF Binding, UnitsBoundTogether
  <2>4. code'[c] = [NoCode EXCEPT !.status = "allocated", !.product = p]
    BY <2>1 DEF Generate
  <2> QED
    BY <2>2, <2>3, <2>4 DEF NoCode
<1>3. \A c \in Codes \ CodesOf(b) :
        /\ code'[c] = code[c]
        /\ batch'[BatchOf[c]] = batch[BatchOf[c]]
  BY <1>1 DEF Generate, CodesOf, TypeOK, RowsOK
<1>4. batch'[b].status = "allocated"
  BY DEF Generate, NoBatch, TypeOK, RowsOK
<1>5. UNCHANGED <<lots, lotDates, activations>>
  BY DEF Generate, history
<1>6. CodesFollowBatch'
  BY <1>1, <1>2, <1>3, <1>4 DEF Binding, CodesFollowBatch, CodesOf
<1>7. UnboundBeforeActivation'
  BY <1>2, <1>3, <1>5 DEF Binding, UnboundBeforeActivation
<1>8. LiveCodesBound'
  BY <1>2, <1>3, <1>5 DEF Binding, LiveCodesBound, Bound
<1>9. UnitsBoundTogether'
  BY <1>2, <1>3, <1>5 DEF Binding, UnitsBoundTogether, CodesOf
<1>10. LotKeepsDates'
  BY <1>2, <1>3, <1>5 DEF Binding, LotKeepsDates
<1> QED
  BY <1>6, <1>7, <1>8, <1>9, <1>10 DEF Binding

\* The units of an activated batch were all unbound, and are all bound at once.
LEMMA ActivateKeepsBinding ==
    ASSUME TypeOK, Binding,
           NEW b \in Batches, NEW p \in Products, NEW ref \in LotRefs,
           Activate(b, p, ref)
    PROVE  /\ Binding'
           /\ \A c \in Codes : Bound(c) /\ activations[BatchOf[c]] = 1 =>
                                    (Bound(c) /\ activations[BatchOf[c]] = 1)'
<1> DEFINE l == <<p, ref>>
<1> USE ConstantsAssumption
<1>1. \A c \in Codes : BatchOf[c] \in Batches
  OBVIOUS
<1>2. l \in Lots /\ l # None /\ l[1] = p
  BY DEF Lots
<1>3. \A c \in CodesOf(b) :
        /\ code[c].status = "allocated" /\ code[c].lot = None
        /\ activations[b] = 0
        /\ code'[c] = [status |-> "market_active", product |-> p, lot |-> l]
  BY DEF Activate, CodesOf, UnitsIntact, Binding, UnboundBeforeActivation,
         UnitsBoundTogether
<1>4. CodesOf(b) # {}
  BY DEF CodesOf
<1>5. activations' = [activations EXCEPT ![b] = 1]
  <2>1. activations[b] = 0
    BY <1>3, <1>4
  <2>2. activations' = [activations EXCEPT ![b] = activations[b] + 1]
    BY DEF Activate
  <2> QED
    BY <2>1, <2>2
<1>6. \A c \in Codes \ CodesOf(b) :
        /\ code'[c] = code[c]
        /\ batch'[BatchOf[c]] = batch[BatchOf[c]]
        /\ activations'[BatchOf[c]] = activations[BatchOf[c]]
  BY <1>1, <1>5 DEF Activate, CodesOf, TypeOK, RowsOK, HistoryOK
<1>7. /\ batch'[b].status = "market_active"
      /\ batch'[b].dates = batch[b].dates
      /\ activations'[b] = 1
  BY <1>5 DEF Activate, TypeOK, RowsOK, BatchRow, HistoryOK
<1>8. /\ lots' = lots \cup {l}
      /\ p \in Products \ InternalProducts
      /\ lotDates' = IF l \in lots THEN lotDates
                                   ELSE [lotDates EXCEPT ![l] = batch[b].dates]
      /\ l \in lots /\ batch[b].dates # None => lotDates[l] = batch[b].dates
  BY DEF Activate, ProductCanBind, LotAccepts
<1> HIDE DEF l
<1>9. \A c \in CodesOf(b) : Bound(c)' /\ activations'[BatchOf[c]] = 1
  BY <1>2, <1>3, <1>7, <1>8 DEF Bound, CodesOf
<1>10. \A c \in Codes \ CodesOf(b) : Bound(c) => Bound(c)'
  BY <1>6, <1>8 DEF Bound
<1>11. CodesFollowBatch'
  BY <1>1, <1>3, <1>6, <1>7 DEF Binding, CodesFollowBatch, CodesOf
<1>12. UnboundBeforeActivation'
  BY <1>3, <1>6, <1>8 DEF Binding, UnboundBeforeActivation
<1>13. LiveCodesBound'
  BY <1>6, <1>9, <1>10 DEF Binding, LiveCodesBound
<1>14. UnitsBoundTogether'
  BY <1>2, <1>3, <1>6, <1>7 DEF Binding, UnitsBoundTogether, CodesOf
<1>15. LotKeepsDates'
  <2>1. ASSUME NEW c \in CodesOf(b), batch[b].dates # None
        PROVE  lotDates'[l] = batch[b].dates
    BY <2>1, <1>2, <1>8 DEF TypeOK, RowsOK
  <2>2. ASSUME NEW c \in Codes \ CodesOf(b), code[c].lot # None
        PROVE  lotDates'[code[c].lot] = lotDates[code[c].lot]
    BY <2>2, <1>8 DEF Binding, UnboundBeforeActivation, TypeOK, RowsOK
  <2> QED
    BY <2>1, <2>2, <1>3, <1>6, <1>7 DEF Binding, LotKeepsDates, CodesOf
<1>16. \A c \in Codes : Bound(c) /\ activations[BatchOf[c]] = 1 =>
                            Bound(c)' /\ activations'[BatchOf[c]] = 1
  BY <1>6, <1>9, <1>10
<1> QED
  BY <1>11, <1>12, <1>13, <1>14, <1>15, <1>16 DEF Binding

\* Every step keeps the bindings, and no step unbinds a code.
LEMMA BindingStep ==
    ASSUME TypeOK, Binding, WritersHoldBoundCodes, [Next]_vars
    PROVE  /\ Binding'
           /\ \A c \in Codes : Bound(c) /\ activations[BatchOf[c]] = 1 =>
                                    (Bound(c) /\ activations[BatchOf[c]] = 1)'
<1> DEFINE Kept == \A c \in Codes : Bound(c) /\ activations[BatchOf[c]] = 1 =>
                                        (Bound(c) /\ activations[BatchOf[c]] = 1)'
<1>1. ASSUME NEW b \in Batches, NEW p \in Products, NEW d \in Dates \cup {None},
             Generate(b, p, d)
      PROVE  Binding' /\ Kept
  <2>1. \A c \in CodesOf(b) : code[c].status = "absent" /\ code[c].lot = None
    BY <1>1 DEF Generate, CodesOf, Binding, CodesFollowBatch, UnboundBeforeActivation
  <2>2. \A c \in CodesOf(b) : ~Bound(c)
    BY <2>1, ConstantsAssumption DEF Bound, TypeOK, RowsOK, Lots, CodesOf
  <2>3. \A c \in Codes \ CodesOf(b) : code'[c] = code[c]
    BY <1>1 DEF Generate, CodesOf
  <2>4. Kept
    <3>1. UNCHANGED <<lots, activations>>
      BY <1>1 DEF Generate, history
    <3> QED
      BY <2>2, <2>3, <3>1 DEF Bound
  <2> QED
    BY <1>1, <2>4, GenerateKeepsBinding
<1>2. ASSUME NEW b \in Batches, NEW p \in Products, NEW ref \in LotRefs,
             Activate(b, p, ref)
      PROVE  Binding' /\ Kept
  BY <1>2, ActivateKeepsBinding
<1>3. ASSUME StatusesMove PROVE Binding' /\ Kept
  <2>1. Kept
    BY <1>3 DEF StatusesMove, Bound
  <2> QED
    BY <1>3, <2>1, MovesKeepBinding
<1>4. CASE BatchNext \/ ProductNext
  BY <1>1, <1>2, <1>3, <1>4, HandlersMoveStatuses
<1>5. CASE CodeWriterNext \/ BatchWriterNext \/ ScannerNext
  BY <1>3, <1>5, RequestsMoveStatuses
<1>6. CASE UNCHANGED vars
  <2>1. StatusesMove
    BY <1>6 DEF vars, rows, history, StatusesMove
  <2> QED
    BY <1>3, <2>1
<1> QED
  BY <1>4, <1>5, <1>6 DEF Next

\* A request that is admitted finds its code live or revoked, hence bound.
LEMMA WritersStep ==
    ASSUME TypeOK, Binding, WritersHoldBoundCodes, [Next]_vars
    PROVE  WritersHoldBoundCodes'
<1>1. \A c \in Codes : Bound(c) /\ activations[BatchOf[c]] = 1 =>
                            (Bound(c) /\ activations[BatchOf[c]] = 1)'
  BY BindingStep
<1>2. ASSUME UNCHANGED codeReq PROVE WritersHoldBoundCodes'
  BY <1>1, <1>2 DEF WritersHoldBoundCodes, TypeOK, CodeReqsOK
<1>3. ASSUME NEW w \in CodeWriters, NEW c \in Codes,
             NEW status \in {"market_active", "revoked"}, CodeRead(w, c, status)
      PROVE  WritersHoldBoundCodes'
  <2>1. Bound(c) /\ activations[BatchOf[c]] = 1
    BY <1>3 DEF CodeRead, Binding, LiveCodesBound
  <2>2. codeReq' = [codeReq EXCEPT ![w] = [stage |-> "read", code |-> c,
                                           status |-> status, write |-> FALSE]]
    BY <1>3 DEF CodeRead
  <2> QED
    BY <1>1, <2>1, <2>2 DEF WritersHoldBoundCodes, TypeOK, CodeReqsOK
<1>4. ASSUME NEW w \in CodeWriters, CodeDiff(w) PROVE WritersHoldBoundCodes'
  BY <1>1, <1>4 DEF CodeDiff, WritersHoldBoundCodes, TypeOK, CodeReqsOK
<1>5. ASSUME NEW w \in CodeWriters, CodeSave(w) PROVE WritersHoldBoundCodes'
  BY <1>1, <1>5 DEF CodeSave, NoCodeReq, WritersHoldBoundCodes, TypeOK, CodeReqsOK
<1> QED
  BY <1>2, <1>3, <1>4, <1>5, OthersUntouched DEF Next, CodeWriterNext, vars

-----------------------------------------------------------------------------
(* Verification.                                                           *)

\* The row lock: nothing changes a live code while a scan holds it.
LEMMA LockedCodesStay ==
    ASSUME TypeOK, Binding, [Next]_vars,
           NEW s \in Scanners, Scanning(s), code[scan[s].code].status = "market_active"
    PROVE  code'[scan[s].code] = code[scan[s].code]
<1> DEFINE held == scan[s].code
<1> USE ConstantsAssumption
<1>1. held \in Codes /\ ~Unlocked(held) /\ code[held].status = "market_active"
  BY DEF TypeOK, ScansOK, Unlocked
<1>2. batch[BatchOf[held]].status # "absent"
  BY <1>1 DEF Binding, CodesFollowBatch
<1> HIDE DEF held
<1> SUFFICES code'[held] = code[held]
  BY DEF held
<1>3. ASSUME UNCHANGED code PROVE code'[held] = code[held]
  BY <1>3
<1>4. ASSUME BatchNext PROVE code'[held] = code[held]
  <2>1. ASSUME NEW b \in Batches, NEW p \in Products, NEW d \in Dates \cup {None},
               Generate(b, p, d)
        PROVE  code'[held] = code[held]
    BY <2>1, <1>1, <1>2 DEF Generate
  <2>2. ASSUME NEW b \in Batches, NEW p \in Products, NEW ref \in LotRefs,
               Activate(b, p, ref)
        PROVE  code'[held] = code[held]
    BY <2>2, <1>1 DEF Activate, CodesOf
  <2>3. ASSUME NEW b \in Batches, PlatformSuspend(b) PROVE code'[held] = code[held]
    BY <2>3, <1>1 DEF PlatformSuspend, CodesOf
  <2>4. ASSUME NEW b \in Batches, RecallBatch(b) PROVE code'[held] = code[held]
    BY <2>4, <1>1 DEF RecallBatch, RecallCodes
  <2> QED
    BY <1>3, <1>4, <2>1, <2>2, <2>3, <2>4 DEF BatchNext, Release, Reveal
<1>5. ASSUME ProductNext PROVE code'[held] = code[held]
  <2>1. ASSUME NEW p \in Products, RecallProduct(p) PROVE code'[held] = code[held]
    BY <2>1, <1>1 DEF RecallProduct, RecallCodes
  <2> QED
    BY <1>3, <1>5, <2>1 DEF ProductNext, SetProductStatus
<1>6. ASSUME CodeWriterNext PROVE code'[held] = code[held]
  <2>1. ASSUME NEW w \in CodeWriters, CodeSave(w) PROVE code'[held] = code[held]
    BY <2>1, <1>1 DEF CodeSave, TypeOK, RowsOK
  <2> QED
    BY <1>3, <1>6, <2>1 DEF CodeWriterNext, CodeRead, CodeDiff, rows
<1>7. ASSUME BatchWriterNext PROVE code'[held] = code[held]
  <2>1. ASSUME NEW w \in BatchWriters, SwitchCodes(w) PROVE code'[held] = code[held]
    BY <2>1, <1>1 DEF SwitchCodes
  <2> QED
    BY <1>3, <1>7, <2>1 DEF BatchWriterNext, SwitchRead, SwitchDiff, SwitchSave, rows
<1>8. ASSUME ScannerNext PROVE code'[held] = code[held]
  BY <1>3, <1>8 DEF ScannerNext, ScanLock, ScanBatch, ScanProduct, ScanDiff, ScanCommit,
                    ScanAbort, rows
<1> QED
  BY <1>3, <1>4, <1>5, <1>6, <1>7, <1>8 DEF Next, vars, rows

\* What a scan does to its own record; the others' records it leaves alone.
LEMMA ScanRecords ==
    ASSUME TypeOK, ScansHoldLiveCodes, ScannerNext
    PROVE  /\ UNCHANGED code
           /\ \A s \in Scanners :
                \/ scan'[s] = scan[s]
                \/ \E c \in Codes : ScanLock(s, c) /\ scan'[s].stage = "locked"
                      /\ scan'[s].code = c /\ scan'[s].verdict = "none"
                      /\ scan'[s].late = (c \in recalledCodes)
                \/ /\ Scanning(s)
                   /\ scan'[s].code = scan[s].code
                   /\ scan'[s].late = scan[s].late
                   /\ scan'[s].stage # "idle" => scan'[s].verdict = "none"
                   /\ scan'[s].stage # "idle" \/ scan'[s].verdict = "genuine" =>
                        code[scan[s].code].status = "market_active"
<1> DEFINE Own(s) ==
       \/ \E c \in Codes : ScanLock(s, c) /\ scan'[s].stage = "locked"
                      /\ scan'[s].code = c /\ scan'[s].verdict = "none"
                      /\ scan'[s].late = (c \in recalledCodes)
       \/ /\ Scanning(s)
          /\ scan'[s].code = scan[s].code
          /\ scan'[s].late = scan[s].late
          /\ scan'[s].stage # "idle" => scan'[s].verdict = "none"
          /\ scan'[s].stage # "idle" \/ scan'[s].verdict = "genuine" =>
                code[scan[s].code].status = "market_active"
<1> DEFINE Others(s) == \A r \in Scanners \ {s} : scan'[r] = scan[r]
<1>0. UNCHANGED code
  BY DEF ScannerNext, ScanLock, ScanBatch, ScanProduct, ScanDiff, ScanCommit, ScanAbort,
         rows
<1>1. ASSUME NEW s \in Scanners, NEW c \in Codes, ScanLock(s, c)
      PROVE  Own(s) /\ Others(s)
  BY <1>1 DEF ScanLock, TypeOK, ScansOK
<1>2. ASSUME NEW s \in Scanners, NEW verdict \in Verdicts \ {"genuine"},
             NEW next \in {"batch_read", "product_read"},
             Scanning(s), Decide(s, verdict, next),
             verdict = "none" => code[scan[s].code].status = "market_active"
      PROVE  Own(s) /\ Others(s)
  <2>1. Others(s)
    BY <1>2 DEF Decide, TypeOK, ScansOK
  <2>2. /\ scan'[s].code = scan[s].code
        /\ scan'[s].late = scan[s].late
        /\ scan'[s].verdict = verdict
        /\ scan'[s].stage = IF verdict = "none" THEN next ELSE "idle"
    BY <1>2 DEF Decide, TypeOK, ScansOK
  <2> QED
    BY <1>2, <2>1, <2>2
<1>3. ASSUME NEW s \in Scanners, ScanBatch(s) PROVE Own(s) /\ Others(s)
  <2> DEFINE verdict == BatchVerdict(scan[s].code, batch[BatchOf[scan[s].code]])
  <2>1. verdict \in Verdicts \ {"genuine"}
    BY VerdictsAreTyped
  <2>2. verdict = "none" => code[scan[s].code].status = "market_active"
    BY DEF BatchVerdict, OffMarketVerdict
  <2>3. Scanning(s) /\ Decide(s, verdict, "batch_read")
    BY <1>3 DEF ScanBatch, Scanning
  <2> HIDE DEF verdict, Own, Others
  <2> QED
    BY <1>2, <2>1, <2>2, <2>3
<1>4. ASSUME NEW s \in Scanners, ScanProduct(s) PROVE Own(s) /\ Others(s)
  <2> DEFINE verdict == IF product[code[scan[s].code].product] = "active"
                        THEN "none" ELSE "product_unavailable"
  <2>1. verdict \in Verdicts \ {"genuine"}
    BY DEF Verdicts
  <2>2. code[scan[s].code].status = "market_active"
    BY <1>4 DEF ScanProduct, ScansHoldLiveCodes, Scanning
  <2>3. Scanning(s) /\ Decide(s, verdict, "product_read")
    BY <1>4 DEF ScanProduct, Scanning
  <2> HIDE DEF verdict, Own, Others
  <2> QED
    BY <1>2, <2>1, <2>2, <2>3
<1>5. ASSUME NEW s \in Scanners, ScanDiff(s) \/ ScanCommit(s) \/ ScanAbort(s)
      PROVE  Own(s) /\ Others(s)
  <2>1. Scanning(s) /\ scan[s].verdict = "none"
    BY <1>5 DEF ScanDiff, ScanCommit, ScanAbort, ScansHoldLiveCodes, Scanning
  <2>2. CASE ScanDiff(s)
    BY <2>1, <2>2 DEF ScanDiff, ScansHoldLiveCodes, TypeOK, ScansOK
  <2>3. CASE ScanCommit(s)
    BY <2>1, <2>3 DEF ScanCommit, ScansHoldLiveCodes, TypeOK, ScansOK
  <2>4. CASE ScanAbort(s)
    BY <2>1, <2>4 DEF ScanAbort, ScansHoldLiveCodes, TypeOK, ScansOK
  <2> QED
    BY <1>5, <2>2, <2>3, <2>4
<1>6. \E s \in Scanners : Own(s) /\ Others(s)
  <2> HIDE DEF Own, Others
  <2> QED
    BY <1>1, <1>3, <1>4, <1>5 DEF ScannerNext
<1> QED
  BY <1>0, <1>6

\* The scans hold on to live codes.
LEMMA ScansStep ==
    ASSUME TypeOK, Binding, ScansHoldLiveCodes, [Next]_vars
    PROVE  ScansHoldLiveCodes'
<1>1. CASE UNCHANGED scan
  BY <1>1, LockedCodesStay DEF ScansHoldLiveCodes, Scanning
<1>2. CASE ScannerNext
  BY <1>2, ScanRecords DEF ScansHoldLiveCodes, Scanning
<1> QED
  BY <1>1, <1>2, OthersUntouched DEF Next, vars

-----------------------------------------------------------------------------
(* The theorems.                                                           *)

LEMMA Inductive == Spec => []IInv
<1>1. Init => IInv
  <2> SUFFICES ASSUME Init PROVE IInv
    OBVIOUS
  <2>1. TypeOK
    BY TypeInit
  <2>2. Binding
    BY ConstantsAssumption
       DEF Init, NoBatch, NoCode, Binding, CodesFollowBatch, UnboundBeforeActivation,
           LiveCodesBound, UnitsBoundTogether, LotKeepsDates
  <2>3. WritersHoldBoundCodes /\ ScansHoldLiveCodes
    BY DEF Init, NoCodeReq, WritersHoldBoundCodes, ScansHoldLiveCodes, Scanning
  <2> QED
    BY <2>1, <2>2, <2>3 DEF IInv
<1>2. IInv /\ [Next]_vars => IInv'
  BY TypeStep, BindingStep, WritersStep, ScansStep DEF IInv
<1> QED
  BY <1>1, <1>2, PTL DEF Spec

\* A live or revoked code is bound to a lot of its vendor's product by the one
\* activation of its batch, for any number of concurrent requests (activate).
THEOREM LiveCodesAreBound == Spec => []LiveCodesBound
<1>1. IInv => LiveCodesBound
  BY DEF IInv, Binding
<1> QED
  BY <1>1, Inductive, PTL

\* Activation binds all the units of a batch or none, and at most once (activate).
THEOREM UnitsAreBoundTogether == Spec => []UnitsBoundTogether
<1>1. IInv => UnitsBoundTogether
  BY DEF IInv, Binding
<1> QED
  BY <1>1, Inductive, PTL

\* The batches bound to one lot never disagree about its dates (activate).
THEOREM LotDatesAlwaysAgree == Spec => []LotDatesAgree
<1>1. IInv => LotDatesAgree
  BY DEF IInv, Binding, LotKeepsDates, LotDatesAgree
<1> QED
  BY <1>1, Inductive, PTL

\* When a genuine verdict commits its code is live, before and after (verify).
THEOREM GenuineVerdictsAreTrue == Spec => GenuineWhenCommitted
<1> DEFINE A == \A s \in Scanners :
        Scanning(s) /\ scan'[s].verdict = "genuine" =>
            /\ code[scan[s].code].status = "market_active"
            /\ code'[scan[s].code].status = "market_active"
<1>1. IInv /\ [Next]_vars => A
  <2> SUFFICES ASSUME IInv, [Next]_vars, NEW s \in Scanners,
                      Scanning(s), scan'[s].verdict = "genuine"
               PROVE  code[scan[s].code].status = "market_active"
    BY LockedCodesStay DEF IInv
  <2>1. scan[s].verdict # "genuine"
    BY DEF IInv, ScansHoldLiveCodes
  <2>2. ScannerNext
    BY <2>1, OthersUntouched DEF Next, vars
  <2>3. ~\E c \in Codes : ScanLock(s, c)
    BY DEF ScanLock
  <2> QED
    BY <2>1, <2>2, <2>3, ScanRecords DEF IInv
<1>2. IInv /\ [Next]_vars => [A]_vars
  BY <1>1
<1> QED
  BY <1>2, Inductive, PTL DEF Spec, GenuineWhenCommitted

\* Where no request switches single codes, a recall is final: what it covered
\* stays recalled, and no scan that starts later answers genuine (recallBatch,
\* recallProduct, verify).
RecallHolds ==
    /\ \A c \in recalledCodes : code[c].status = "recalled"
    /\ \A s \in Scanners : Scanning(s) /\ scan[s].late => scan[s].code \in recalledCodes
    /\ NoGenuineAfterRecall

THEOREM RecallIsFinal ==
    ASSUME CodeWriters = {} PROVE Spec => []NoGenuineAfterRecall
<1>1. Init => RecallHolds
  BY DEF Init, RecallHolds, NoGenuineAfterRecall, Scanning
<1>2. IInv /\ RecallHolds /\ [Next]_vars => RecallHolds'
  <2> SUFFICES ASSUME IInv, RecallHolds, [Next]_vars PROVE RecallHolds'
    OBVIOUS
  <2> USE ConstantsAssumption
  <2>1. /\ recalledCodes \subseteq recalledCodes'
        /\ \A c \in recalledCodes' : code'[c].status = "recalled"
    <3>1. ASSUME NEW covered \in SUBSET Codes, RecallCodes(covered)
          PROVE  /\ recalledCodes \subseteq recalledCodes'
                 /\ \A c \in recalledCodes' : code'[c].status = "recalled"
      BY <3>1 DEF RecallCodes, RecallHolds, IInv, TypeOK, RowsOK, CodeRow, HistoryOK
    <3>2. ASSUME UNCHANGED recalledCodes,
                 \A c \in Codes : code[c].status = "recalled" => code'[c].status = "recalled"
          PROVE  /\ recalledCodes \subseteq recalledCodes'
                 /\ \A c \in recalledCodes' : code'[c].status = "recalled"
      BY <3>2 DEF RecallHolds, IInv, TypeOK, HistoryOK
    <3>3. ASSUME NEW b \in Batches, NEW p \in Products, NEW d \in Dates \cup {None},
                 Generate(b, p, d)
          PROVE  /\ UNCHANGED recalledCodes
                 /\ \A c \in Codes : code[c].status = "recalled" => code'[c].status = "recalled"
      BY <3>3 DEF Generate, history, IInv, Binding, CodesFollowBatch
    <3>4. ASSUME NEW b \in Batches, NEW p \in Products, NEW ref \in LotRefs,
                 Activate(b, p, ref)
          PROVE  /\ UNCHANGED recalledCodes
                 /\ \A c \in Codes : code[c].status = "recalled" => code'[c].status = "recalled"
      BY <3>4 DEF Activate, UnitsIntact, CodesOf
    <3>5. ASSUME NEW b \in Batches, Release(b) \/ Reveal(b) \/ PlatformSuspend(b)
          PROVE  /\ UNCHANGED recalledCodes
                 /\ \A c \in Codes : code[c].status = "recalled" => code'[c].status = "recalled"
      BY <3>5 DEF Release, Reveal, PlatformSuspend, history
    <3>6. ASSUME NEW p \in Products, NEW status \in ProductStatus,
                 SetProductStatus(p, status)
          PROVE  UNCHANGED <<recalledCodes, code>>
      BY <3>6 DEF SetProductStatus, history
    <3>7. CASE BatchNext \/ ProductNext
      BY <3>1, <3>2, <3>3, <3>4, <3>5, <3>6, <3>7
         DEF BatchNext, ProductNext, RecallBatch, RecallProduct, CodesOf
    <3>8. CASE BatchWriterNext
      <4>1. ASSUME NEW w \in BatchWriters, SwitchCodes(w)
            PROVE  \A c \in Codes : code[c].status = "recalled" => code'[c].status = "recalled"
        BY <4>1 DEF SwitchCodes
      <4> QED
        BY <3>2, <3>8, <4>1, OthersUntouched
           DEF BatchWriterNext, SwitchRead, SwitchDiff, SwitchSave, rows, history
    <3>9. CASE ScannerNext \/ UNCHANGED vars
      BY <3>2, <3>9, OthersUntouched, ScanRecords DEF IInv, vars, rows, history
    <3> QED
      BY <3>7, <3>8, <3>9 DEF Next, CodeWriterNext
  <2>2. CASE UNCHANGED scan
    BY <2>1, <2>2 DEF RecallHolds, NoGenuineAfterRecall, Scanning
  <2>3. CASE ScannerNext
    <3>1. UNCHANGED recalledCodes
      BY <2>3, OthersUntouched DEF history
    <3>2. ASSUME NEW s \in Scanners
          PROVE  /\ Scanning(s)' /\ scan'[s].late => scan'[s].code \in recalledCodes
                 /\ scan'[s].verdict = "genuine" => ~scan'[s].late
      BY <2>3, ScanRecords DEF RecallHolds, NoGenuineAfterRecall, IInv, Scanning
    <3> QED
      BY <2>1, <3>1, <3>2 DEF RecallHolds, NoGenuineAfterRecall
  <2> QED
    BY <2>2, <2>3, OthersUntouched DEF Next, vars
<1>3. RecallHolds => NoGenuineAfterRecall
  BY DEF RecallHolds
<1> QED
  BY <1>1, <1>2, <1>3, Inductive, PTL DEF Spec

\* A batch that the platform lists as activated was activated, as a whole and to
\* one lot, and its page, labels and export say so (listBatches, listCodes,
\* exportBatchCsv).
THEOREM ListedAsActivated == Spec => []ListedActivatedIsActivated
<1>1. IInv => ListedActivatedIsActivated
  <2> SUFFICES ASSUME IInv, NEW row \in BatchList, row.status = "activated"
               PROVE  /\ activations[row.id] = 1
                      /\ \E l \in lots : \A c \in CodesOf(row.id) :
                                            Bound(c) /\ code[c].lot = l
                      /\ \A shown \in ExportRows(row.id) \cup CodeList(row.id, CodeStatus) :
                            shown.status = "active"
    BY DEF ListedActivatedIsActivated
  <2>1. PICK b \in Batches : row.id = b /\ row.status = ListStatus(b)
    BY DEF BatchList, ExistingBatches
  <2>2. \A c \in CodesOf(b) : c \in Codes /\ BatchOf[c] = b /\ code[c].status = "market_active"
    BY <2>1 DEF ListStatus, CodesWith, CodesOf
  <2>3. PICK d \in CodesOf(b) : TRUE
    BY ConstantsAssumption DEF CodesOf
  <2>4. activations[b] = 1 /\ \A c \in CodesOf(b) : Bound(c)
    BY <2>2, <2>3 DEF IInv, Binding, LiveCodesBound
  <2>5. \A c \in CodesOf(b) : code[c].lot = code[d].lot
    BY <2>2, <2>3 DEF IInv, Binding, UnitsBoundTogether
  <2>6. code[d].lot \in lots
    BY <2>3, <2>4 DEF Bound
  <2>7. \A shown \in ExportRows(b) : shown.status = "active"
    BY <2>2 DEF ExportRows
  <2>8. \A shown \in CodeList(b, CodeStatus) : shown.status = "active"
    BY <2>2 DEF CodeList, CodeLabel
  <2> QED
    BY <2>1, <2>4, <2>5, <2>6, <2>7, <2>8
<1> QED
  BY <1>1, Inductive, PTL

-----------------------------------------------------------------------------
(***************************************************************************)
(* Module Scans, for any codes, browsers, requests and thresholds, and     *)
(* without the bounds under which the module is checked: nonces, the       *)
(* suspicion of copies and the cases they are filed in.                    *)
(***************************************************************************)

\* A nonce is spent at most once, and the latest one not yet.
SessionHolds(s) ==
    /\ sessions[s].nonce = issued[s]
    /\ \A n \in Nonces : /\ spent[s][n] <= 1
                         /\ n >= issued[s] => spent[s][n] = 0

\* What a request read is still so, under its locks; cases it knows stay.
CallHolds(q) ==
    LET r == requests[q] IN
    /\ r.i <= opened
    /\ r.kind # "scan" => r.s = Null /\ r.c = Null
    /\ r.kind = "scan" =>
          /\ r.c \in MarketCodes
          /\ r.s # Null => r.n = sessions[r.s].nonce
          /\ ~r.result.suspicious => codes[r.c].count + 1 < RepeatAt
          /\ r.result.suspicious /\ r.i # 0 =>
                r.copy.category = r.result.category /\ r.copy.status = "open"
    /\ r.kind \in {"switch", "save"} => r.of \in MarketCodes /\ r.count <= scans[r.of]

CallsApart ==
    \A q, r \in Requests : q # r =>
        /\ requests[q].c # Null => requests[q].c # requests[r].c
        /\ requests[q].s # Null => requests[q].s # requests[r].s

\* A count that no switch has written back is that of the events.
Counted == \A c \in MarketCodes :
    codes[c].count <= scans[c] /\ (c \in rewound \/ codes[c].count = scans[c])

PassHolds == pass.i <= opened

ScansInv ==
    /\ ScansTypeOK
    /\ \A s \in Browsers : SessionHolds(s)
    /\ \A q \in Requests : CallHolds(q)
    /\ CallsApart /\ Counted /\ PassHolds

-----------------------------------------------------------------------------
LEMMA Bounds ==
    /\ RepeatAt \in Nat /\ MaxScans \in Nat \ {0} /\ MaxNonces \in Nat \ {0}
    /\ MaxCases \in Nat \ {0} /\ Null \notin MarketCodes /\ Null \notin Browsers
BY ScansAssumption

LEMMA ScansConstants ==
    /\ NoCase \in CaseRow /\ NoAlarm \in Assessment
    /\ Idle \in RequestRow /\ Idle.kind = "idle" /\ Idle.s = Null /\ Idle.c = Null /\ Idle.i = 0
    /\ NoPass \in PassRow /\ NoPass.i = 0
    /\ \A category \in Categories : OpenCase(category) \in CaseRow
                                    /\ OpenCase(category).category = category
                                    /\ OpenCase(category).status = "open"
<1>1. NoCase \in CaseRow /\ NoAlarm \in Assessment
  BY DEF NoCase, CaseRow, NoAlarm, Assessment, Categories, Statuses
<1>2. 0 \in Nonces
  BY Bounds DEF Nonces
<1>3. Idle \in RequestRow /\ Idle.kind = "idle" /\ Idle.s = Null /\ Idle.c = Null /\ Idle.i = 0
  BY <1>1, <1>2, Bounds DEF Idle, RequestRow
<1>4. NoPass \in PassRow /\ NoPass.i = 0
  BY <1>1 DEF NoPass, PassRow
<1> QED  BY <1>1, <1>3, <1>4 DEF OpenCase, CaseRow, Statuses

LEMMA ScansInvInit == ScansInit => ScansInv
<1> SUFFICES ASSUME ScansInit PROVE ScansInv
  OBVIOUS
<1>1. [nonce |-> 0, fresh |-> FALSE] \in SessionRow /\ [live |-> TRUE, count |-> 0, recent |-> 0, places |-> {}] \in SeenRow
  BY Bounds DEF SessionRow, SeenRow, Nonces
<1>2. ScansTypeOK
  BY <1>1, ScansConstants, Bounds DEF ScansInit, ScansTypeOK, Nonces
<1>3. \A s \in Browsers : SessionHolds(s)
  BY DEF ScansInit, SessionHolds
<1>4. \A q \in Requests : CallHolds(q)
  BY ScansConstants DEF ScansInit, CallHolds
<1>5. CallsApart /\ Counted /\ PassHolds
  BY ScansConstants DEF ScansInit, CallsApart, Counted, PassHolds
<1> QED  BY <1>2, <1>3, <1>4, <1>5 DEF ScansInv

-----------------------------------------------------------------------------
\* The judgement of a scan: from the threshold on it is suspicious.
LEMMA Judged ==
    ASSUME NEW row \in SeenRow, NEW place, NEW complaint, NEW elevated, NEW rapid
    PROVE  /\ Assess(row, place, complaint, elevated, rapid) \in Assessment
           /\ ~Assess(row, place, complaint, elevated, rapid).suspicious => row.count + 1 < RepeatAt
<1> DEFINE reasons == Reasons(row, place, complaint, elevated)
           score == Score(row, reasons)
           own == Points(CountsAsCopy(row.count), 70) + Points(rapid, 50)
           suspicious == \/ own >= 70 \/ score >= 70
                         \/ reasons \cap {"multi_region", "high_frequency"} # {}
<1>1. PrimaryCategory(reasons) \in Categories
  BY DEF PrimaryCategory, Categories
<1>2. CountsAsCopy(row.count) => own >= 70
  BY DEF Points
<1>3. ~CountsAsCopy(row.count) => row.count + 1 < RepeatAt
  BY Bounds DEF CountsAsCopy, SeenRow
<1>4. Assess(row, place, complaint, elevated, rapid) =
        IF suspicious THEN [suspicious |-> TRUE, category |-> PrimaryCategory(reasons)] ELSE NoAlarm
  BY DEF Assess
<1> HIDE DEF reasons, score, own
<1>5. [suspicious |-> TRUE, category |-> PrimaryCategory(reasons)] \in Assessment
  BY <1>1 DEF Assessment
<1> QED  BY <1>2, <1>3, <1>4, <1>5, ScansConstants

\* A set of numbers up to some n has a last one.
LEMMA LastOne ==
    ASSUME NEW n \in Nat, NEW S \in SUBSET (1..n), S # {}
    PROVE  \E i \in S : \A j \in S : j <= i
<1> DEFINE below == {p \in Nat \X Nat : p[1] < p[2]}
           gaps == {n - i : i \in S}
<1>1. IsWellFoundedOn(below, Nat)
  <2>1. below \cap (Nat \X Nat) \subseteq OpToRel(<, Nat)
    BY DEF OpToRel
  <2> QED  BY <2>1, NatLessThanWellFounded, IsWellFoundedOnSubrelation
<1>2. gaps \subseteq Nat /\ gaps # {}
  <2>1. \A i \in S : n - i \in Nat
    OBVIOUS
  <2>2. \A m \in gaps : \E i \in S : m = n - i
    OBVIOUS
  <2>3. PICK i \in S : TRUE
    OBVIOUS
  <2>4. n - i \in gaps
    BY <2>3
  <2> QED  BY <2>1, <2>2, <2>4
<1>3. PICK least \in gaps : \A m \in gaps : <<m, least>> \notin below
  BY <1>1, <1>2, WFMin
<1>4. ASSUME NEW m \in gaps PROVE least <= m
  <2>1. m \in Nat /\ least \in Nat
    BY <1>2
  <2>2. m < least => <<m, least>> \in below
    BY <2>1
  <2> HIDE DEF below, gaps
  <2>3. ~(m < least)
    BY <1>3, <2>2
  <2> QED  BY <2>1, <2>3
<1>5. PICK i \in S : least = n - i
  OBVIOUS
<1>6. ASSUME NEW j \in S PROVE j <= i
  <2>1. n - j \in gaps
    OBVIOUS
  <2>2. n - i <= n - j
    BY <1>4, <1>5, <2>1
  <2> QED  BY <2>2
<1> QED  BY <1>6

\* The case a suspicion is added to is open, and of its category.
LEMMA LiveCaseIsLive ==
    ASSUME opened \in Nat, NEW category
    PROVE  /\ LiveCase(category) \in 0..opened
           /\ LiveCase(category) # 0 => /\ cases[LiveCase(category)].category = category
                                        /\ cases[LiveCase(category)].status = "open"
<1> DEFINE live == LiveCases(category)
<1>1. CASE live = {}
  BY <1>1 DEF LiveCase
<1>2. CASE live # {}
  <2>1. live \subseteq 1..opened
    BY DEF LiveCases
  <2>2. \E i \in live : \A j \in live : j <= i
    BY <1>2, <2>1, LastOne
  <2>3. LiveCase(category) \in live
    BY <1>2, <2>2 DEF LiveCase
  <2> QED  BY <2>1, <2>3 DEF LiveCases
<1> QED  BY <1>1, <1>2

LEMMA CaseSaved ==
    ASSUME ScansTypeOK, NEW i \in {0} \cup Cases, i <= opened, NEW row \in CaseRow, SaveCase(i, row)
    PROVE  /\ cases' \in [Cases -> CaseRow] /\ opened' \in 0..MaxCases /\ opened <= opened'
           /\ \E j \in 1..opened' : cases'[j] = row
<1>1. opened \in 0..MaxCases /\ cases \in [Cases -> CaseRow]
  BY DEF ScansTypeOK
<1>2. CASE i # 0
  BY <1>1, <1>2, Bounds DEF SaveCase, Cases
<1>3. CASE i = 0
  <2>1. /\ opened < MaxCases /\ opened' = opened + 1 /\ cases' = [cases EXCEPT ![opened + 1] = row]
    BY <1>3 DEF SaveCase
  <2>2. opened + 1 \in Cases /\ opened + 1 \in 1..opened'
    BY <1>1, <2>1, Bounds DEF Cases
  <2>3. cases'[opened + 1] = row
    BY <1>1, <2>1, <2>2
  <2> QED  BY <1>1, <2>1, <2>2, <2>3, Bounds
<1> QED  BY <1>2, <1>3

\* A request that stays stays as it is, if its locks are respected.
LEMMA CallKept ==
    ASSUME ScansTypeOK, NEW q \in Requests, CallHolds(q), requests'[q] = requests[q],
           opened \in Nat, opened' \in Nat, opened <= opened',
           requests[q].s # Null => sessions'[requests[q].s].nonce = sessions[requests[q].s].nonce,
           requests[q].c # Null => codes'[requests[q].c].count = codes[requests[q].c].count,
           \A c \in MarketCodes : scans'[c] \in Nat /\ scans[c] <= scans'[c]
    PROVE  CallHolds(q)'
<1>1. requests[q] \in RequestRow /\ requests[q].i \in Nat
  BY Bounds DEF ScansTypeOK, RequestRow, Cases
<1>2. requests[q].kind = "scan" => requests[q].c # Null
  BY Bounds DEF CallHolds
<1>3. requests[q].kind \in {"switch", "save"} =>
         requests[q].of \in MarketCodes /\ requests[q].count <= scans'[requests[q].of]
  <2>1. CASE requests[q].kind \in {"switch", "save"}
    <3>1. /\ requests[q].of \in MarketCodes /\ requests[q].count <= scans[requests[q].of]
          /\ requests[q].count \in Nat /\ scans[requests[q].of] \in Nat
          /\ scans'[requests[q].of] \in Nat /\ scans[requests[q].of] <= scans'[requests[q].of]
      BY <2>1, Bounds DEF CallHolds, ScansTypeOK, RequestRow
    <3> QED  BY <3>1
  <2> QED  BY <2>1
<1> QED  BY <1>1, <1>2, <1>3 DEF CallHolds

\* No step without an answer adds an event.
LEMMA EventsStay ==
    ASSUME ScansTypeOK, scans' = scans
    PROVE  \A c \in MarketCodes : scans'[c] \in Nat /\ scans[c] <= scans'[c]
  BY DEF ScansTypeOK

LEMMA Renews ==
    ASSUME ScansInv, NEW s \in Browsers, Renewed(s)
    PROVE  /\ issued' \in [Browsers -> Nonces] /\ sessions' \in [Browsers -> SessionRow]
           /\ issued'[s] = issued[s] + 1 /\ sessions'[s].nonce = issued[s] + 1
           /\ \A t \in Browsers \ {s} : issued'[t] = issued[t] /\ sessions'[t] = sessions[t]
<1>1. issued \in [Browsers -> Nonces] /\ sessions \in [Browsers -> SessionRow]
  BY DEF ScansInv, ScansTypeOK
<1>2. issued[s] + 1 \in Nonces
  BY <1>1, Bounds DEF Renewed, Nonces
<1>3. [nonce |-> issued[s] + 1, fresh |-> TRUE] \in SessionRow
  BY <1>2 DEF SessionRow
<1>4. /\ issued' = [issued EXCEPT ![s] = issued[s] + 1]
      /\ sessions' = [sessions EXCEPT ![s] = [nonce |-> issued[s] + 1, fresh |-> TRUE]]
  BY <1>1 DEF Renewed
<1> QED  BY <1>1, <1>2, <1>3, <1>4

LEMMA Consumes ==
    ASSUME ScansInv, NEW s \in Browsers \cup {Null}, NEW n \in Nonces, Consume(s, n),
           s # Null => n = sessions[s].nonce
    PROVE  /\ issued' \in [Browsers -> Nonces] /\ sessions' \in [Browsers -> SessionRow]
           /\ spent' \in [Browsers -> [Nonces -> Nat]]
           /\ \A t \in Browsers : SessionHolds(t)'
           /\ \A t \in Browsers \ {s} : sessions'[t] = sessions[t]
<1>1. CASE s = Null
  BY <1>1 DEF Consume, ScansInv, ScansTypeOK, SessionHolds
<1>2. CASE s # Null
  <2>1. /\ issued' \in [Browsers -> Nonces] /\ sessions' \in [Browsers -> SessionRow]
        /\ issued'[s] = issued[s] + 1 /\ sessions'[s].nonce = issued[s] + 1
        /\ \A t \in Browsers \ {s} : issued'[t] = issued[t] /\ sessions'[t] = sessions[t]
    BY <1>2, Renews DEF Consume
  <2>2. spent' = [spent EXCEPT ![s][n] = spent[s][n] + 1]
    BY <1>2 DEF Consume, ScansInv, ScansTypeOK
  <2>3. /\ spent' \in [Browsers -> [Nonces -> Nat]]
        /\ spent'[s][n] = spent[s][n] + 1
        /\ \A k \in Nonces \ {n} : spent'[s][k] = spent[s][k]
        /\ \A t \in Browsers \ {s} : spent'[t] = spent[t]
    BY <1>2, <2>2 DEF ScansInv, ScansTypeOK
  <2>4. n = issued[s] /\ spent[s][n] = 0 /\ issued[s] \in Nat
    BY <1>2, Bounds DEF ScansInv, SessionHolds, Nonces, ScansTypeOK
  <2>5. SessionHolds(s)'
    <3>1. ASSUME NEW k \in Nonces \ {n}
          PROVE  spent'[s][k] <= 1 /\ (k >= issued[s] + 1 => spent'[s][k] = 0)
      BY <1>2, <2>3, <2>4 DEF ScansInv, SessionHolds, Nonces
    <3>2. spent'[s][n] = 1 /\ ~(n >= issued[s] + 1)
      BY <2>3, <2>4
    <3> QED  BY <2>1, <3>1, <3>2 DEF SessionHolds
  <2>6. ASSUME NEW t \in Browsers \ {s} PROVE SessionHolds(t)'
    BY <2>1, <2>3 DEF ScansInv, SessionHolds
  <2> QED  BY <2>1, <2>3, <2>5, <2>6
<1> QED  BY <1>1, <1>2

-----------------------------------------------------------------------------
(* Steps.                                                                  *)

LEMMA SessionSteps ==
    ASSUME ScansInv, NEW s \in Browsers, BeginSession(s) \/ NonceExpires(s)
    PROVE  ScansInv'
<1>1. UNCHANGED <<codes, cases, opened, requests, pass, scans, spent, rewound>>
  BY DEF BeginSession, NonceExpires
<1>2. /\ issued' \in [Browsers -> Nonces] /\ sessions' \in [Browsers -> SessionRow]
      /\ \A t \in Browsers : SessionHolds(t)'
      /\ \A t \in Browsers : t # s \/ NonceExpires(s) => sessions'[t].nonce = sessions[t].nonce
  <2>1. CASE BeginSession(s)
    <3>1. ~NonceExpires(s)
      BY <2>1, Bounds DEF BeginSession, NonceExpires, Renewed, ScansInv, ScansTypeOK, Nonces
    <3>2. /\ issued' \in [Browsers -> Nonces] /\ sessions' \in [Browsers -> SessionRow]
          /\ issued'[s] = issued[s] + 1 /\ sessions'[s].nonce = issued[s] + 1
          /\ \A t \in Browsers \ {s} : issued'[t] = issued[t] /\ sessions'[t] = sessions[t]
      BY <2>1, Renews DEF BeginSession
    <3>3. issued[s] \in Nat
      BY Bounds DEF ScansInv, ScansTypeOK, Nonces
    <3>4. SessionHolds(s)'
      BY <1>1, <3>2, <3>3, Bounds DEF ScansInv, SessionHolds, Nonces
    <3>5. \A t \in Browsers \ {s} : SessionHolds(t)'
      BY <1>1, <3>2 DEF ScansInv, SessionHolds
    <3> QED  BY <3>1, <3>2, <3>4, <3>5
  <2>2. CASE NonceExpires(s)
    <3> DEFINE new == [sessions[s] EXCEPT !.fresh = FALSE]
    <3>1. sessions \in [Browsers -> SessionRow] /\ issued \in [Browsers -> Nonces]
      BY DEF ScansInv, ScansTypeOK
    <3>2. new \in SessionRow /\ new.nonce = sessions[s].nonce
      BY <3>1 DEF SessionRow
    <3>3. sessions' = [sessions EXCEPT ![s] = new] /\ UNCHANGED <<issued, spent, rewound>>
      BY <2>2, <3>1 DEF NonceExpires
    <3> HIDE DEF new
    <3>4. \A t \in Browsers : sessions'[t].nonce = sessions[t].nonce
      BY <3>1, <3>2, <3>3
    <3>5. \A t \in Browsers : SessionHolds(t)'
      BY <3>3, <3>4 DEF ScansInv, SessionHolds
    <3> QED  BY <3>1, <3>2, <3>3, <3>4, <3>5
  <2> QED  BY <2>1, <2>2
<1>3. \A q \in Requests : requests[q].s # Null => requests[q].s \in Browsers
  BY DEF ScansInv, ScansTypeOK, RequestRow
<1>4. \A q \in Requests : requests[q].s # Null =>
            sessions'[requests[q].s].nonce = sessions[requests[q].s].nonce
  BY <1>2, <1>3 DEF BeginSession, SessionFree
<1>5. opened \in Nat /\ opened' = opened
  BY <1>1, Bounds DEF ScansInv, ScansTypeOK
<1>6. \A q \in Requests : CallHolds(q)'
  BY <1>1, <1>4, <1>5, CallKept, EventsStay DEF ScansInv
<1>7. ScansTypeOK'
  BY <1>1, <1>2 DEF ScansInv, ScansTypeOK
<1> QED  BY <1>1, <1>2, <1>6, <1>7 DEF ScansInv, CallsApart, Counted, PassHolds

LEMMA ScanOtherStep ==
    ASSUME ScansInv, NEW s \in Browsers \cup {Null}, NEW n \in Nonces, ScanOther(s, n)
    PROVE  ScansInv'
<1>1. UNCHANGED <<codes, cases, opened, requests, pass, scans, rewound>> /\ Consume(s, n)
      /\ (s # Null => n = sessions[s].nonce /\ SessionFree(s))
  BY DEF ScanOther, Admitted
<1>2. /\ issued' \in [Browsers -> Nonces] /\ sessions' \in [Browsers -> SessionRow]
      /\ spent' \in [Browsers -> [Nonces -> Nat]]
      /\ \A t \in Browsers : SessionHolds(t)'
      /\ \A t \in Browsers \ {s} : sessions'[t] = sessions[t]
  BY <1>1, Consumes
<1>3. \A q \in Requests : requests[q].s # Null => requests[q].s \in Browsers \ {s}
  BY <1>1 DEF ScansInv, ScansTypeOK, RequestRow, SessionFree
<1>4. opened \in Nat /\ opened' = opened
  BY <1>1, Bounds DEF ScansInv, ScansTypeOK
<1>5. \A q \in Requests : CallHolds(q)'
  BY <1>1, <1>2, <1>3, <1>4, CallKept, EventsStay DEF ScansInv
<1>6. ScansTypeOK'
  BY <1>1, <1>2 DEF ScansInv, ScansTypeOK
<1> QED  BY <1>1, <1>2, <1>5, <1>6 DEF ScansInv, CallsApart, Counted, PassHolds

\* A request begins or ends, and takes no lock that another has.
LEMMA OneCall ==
    ASSUME ScansInv, NEW q \in Requests, NEW new \in RequestRow,
           requests' = [requests EXCEPT ![q] = new],
           UNCHANGED <<codes, sessions, issued, cases, opened, pass, scans, spent, rewound>>,
           CallHolds(q)',
           \A r \in Requests \ {q} : /\ new.c # Null => requests[r].c # new.c
                                     /\ new.s # Null => requests[r].s # new.s
    PROVE  ScansInv'
<1>1. /\ requests' \in [Requests -> RequestRow] /\ requests'[q] = new
      /\ \A r \in Requests \ {q} : requests'[r] = requests[r]
  BY DEF ScansInv, ScansTypeOK
<1>2. opened \in Nat
  BY Bounds DEF ScansInv, ScansTypeOK
<1>3. \A r \in Requests \ {q} : CallHolds(r)'
  BY <1>1, <1>2, CallKept, EventsStay DEF ScansInv
<1>4. CallsApart'
  BY <1>1 DEF ScansInv, CallsApart
<1>5. ScansTypeOK'
  BY <1>1 DEF ScansInv, ScansTypeOK
<1>6. \A s \in Browsers : SessionHolds(s)'
  BY DEF ScansInv, SessionHolds
<1> QED  BY <1>3, <1>4, <1>5, <1>6 DEF ScansInv, Counted, PassHolds

LEMMA ScanStep ==
    ASSUME ScansInv, NEW q \in Requests, NEW s \in Browsers \cup {Null}, NEW n \in Nonces,
           NEW c \in MarketCodes, NEW place \in Places \cup {Null}, NEW complaint \in BOOLEAN,
           NEW elevated \in BOOLEAN, NEW rapid \in BOOLEAN,
           Scan(q, s, n, c, place, complaint, elevated, rapid)
    PROVE  ScansInv'
<1> DEFINE result == Assess(codes[c], place, complaint, elevated, rapid)
           live == LiveCase(result.category)
           i == IF result.suspicious THEN live ELSE 0
           copy == IF result.suspicious THEN CopyOf(live) ELSE NoCase
           new == [Idle EXCEPT !.kind = "scan", !.s = s, !.n = n, !.c = c, !.place = place,
                               !.result = result, !.i = i, !.copy = copy]
<1>1. /\ requests' = [requests EXCEPT ![q] = new] /\ Admitted(s, n) /\ CodeFree(c)
      /\ UNCHANGED <<codes, sessions, issued, cases, opened, pass, scans, spent, rewound>>
  BY DEF Scan
<1>2. /\ codes[c] \in SeenRow /\ opened \in Nat /\ opened <= MaxCases
      /\ cases \in [Cases -> CaseRow]
  BY Bounds DEF ScansInv, ScansTypeOK
<1>3. result \in Assessment /\ (~result.suspicious => codes[c].count + 1 < RepeatAt)
  BY <1>2, Judged
<1>4. /\ live \in 0..opened
      /\ live # 0 => cases[live].category = result.category /\ cases[live].status = "open"
  BY <1>2, LiveCaseIsLive
<1> HIDE DEF result, live
<1>5. i \in {0} \cup Cases /\ i <= opened
  BY <1>2, <1>4, Bounds DEF Cases
<1>6. copy \in CaseRow
  BY <1>2, <1>4, ScansConstants, Bounds DEF CopyOf, Cases
<1>7. result.suspicious /\ i # 0 => copy.category = result.category /\ copy.status = "open"
  BY <1>4 DEF CopyOf
<1> HIDE DEF i, copy
<1>8. /\ new \in RequestRow /\ new.kind = "scan" /\ new.s = s /\ new.n = n /\ new.c = c
      /\ new.result = result /\ new.i = i /\ new.copy = copy
  BY <1>3, <1>5, <1>6, ScansConstants DEF RequestRow
<1> HIDE DEF new
<1>9. requests'[q] = new
  BY <1>1 DEF ScansInv, ScansTypeOK
<1>10. s # Null => n = sessions[s].nonce
  BY <1>1 DEF Admitted
<1>11. CallHolds(q)'
  BY <1>1, <1>3, <1>5, <1>7, <1>8, <1>9, <1>10 DEF CallHolds
<1>12. \A r \in Requests \ {q} : requests[r].c # c /\ (s # Null => requests[r].s # s)
  BY <1>1 DEF CodeFree, Admitted, SessionFree
<1> QED  BY <1>1, <1>8, <1>11, <1>12, OneCall

LEMMA AbortStep ==
    ASSUME ScansInv, NEW q \in Requests, Abort(q) PROVE ScansInv'
<1>1. /\ requests' = [requests EXCEPT ![q] = Idle]
      /\ UNCHANGED <<codes, sessions, issued, cases, opened, pass, scans, spent, rewound>>
  BY DEF Abort, End
<1>2. requests'[q] = Idle /\ opened \in Nat /\ opened' = opened
  BY <1>1, Bounds DEF ScansInv, ScansTypeOK
<1>3. CallHolds(q)'
  BY <1>2, ScansConstants DEF CallHolds
<1> QED  BY <1>1, <1>3, ScansConstants, OneCall

LEMMA ReviewStep ==
    ASSUME ScansInv, NEW q \in Requests, NEW i \in Cases, Review(q, i) PROVE ScansInv'
<1> DEFINE new == [Idle EXCEPT !.kind = "review", !.i = i, !.copy = cases[i]]
<1>1. /\ requests' = [requests EXCEPT ![q] = new] /\ i <= opened
      /\ UNCHANGED <<codes, sessions, issued, cases, opened, pass, scans, spent, rewound>>
  BY DEF Review
<1>2. new \in RequestRow /\ new.kind = "review" /\ new.s = Null /\ new.c = Null /\ new.i = i
  BY ScansConstants DEF ScansInv, ScansTypeOK, RequestRow
<1> HIDE DEF new
<1>3. requests'[q] = new
  BY <1>1 DEF ScansInv, ScansTypeOK
<1>4. CallHolds(q)'
  BY <1>1, <1>2, <1>3 DEF CallHolds
<1> QED  BY <1>1, <1>2, <1>4, OneCall

\* A request ends, and with it the row of a case is saved.
LEMMA EndsSaving ==
    ASSUME ScansInv, NEW q \in Requests, End(q),
           cases' \in [Cases -> CaseRow], opened' \in 0..MaxCases, opened <= opened',
           UNCHANGED pass
    PROVE  /\ requests' \in [Requests -> RequestRow] /\ requests'[q] = Idle
           /\ \A r \in Requests \ {q} : requests'[r] = requests[r]
           /\ CallHolds(q)' /\ CallsApart' /\ PassHolds'
           /\ opened \in Nat /\ opened' \in Nat
<1>1. /\ requests' \in [Requests -> RequestRow] /\ requests'[q] = Idle
      /\ \A r \in Requests \ {q} : requests'[r] = requests[r]
  BY ScansConstants DEF ScansInv, ScansTypeOK, End
<1>2. opened \in Nat /\ opened' \in Nat
  BY Bounds DEF ScansInv, ScansTypeOK
<1>3. CallHolds(q)'
  BY <1>1, <1>2, ScansConstants DEF CallHolds
<1>4. CallsApart'
  BY <1>1, ScansConstants DEF ScansInv, CallsApart
<1>5. pass.i \in Nat
  BY Bounds DEF ScansInv, ScansTypeOK, PassRow, Cases
<1>6. PassHolds'
  BY <1>2, <1>5 DEF ScansInv, PassHolds
<1> QED  BY <1>1, <1>2, <1>3, <1>4, <1>6

LEMMA ReviewedStep ==
    ASSUME ScansInv, NEW q \in Requests, NEW status \in Statuses, Reviewed(q, status) PROVE ScansInv'
<1> DEFINE row == [requests[q].copy EXCEPT !.status = status]
<1>1. /\ SaveCase(requests[q].i, row) /\ End(q)
      /\ UNCHANGED <<codes, sessions, issued, pass, scans, spent, rewound>>
  BY DEF Reviewed
<1>2. requests[q] \in RequestRow /\ requests[q].i \in {0} \cup Cases /\ requests[q].i <= opened
  BY DEF ScansInv, ScansTypeOK, RequestRow, CallHolds
<1>3. row \in CaseRow
  BY <1>2 DEF RequestRow, CaseRow
<1> HIDE DEF row
<1>4. cases' \in [Cases -> CaseRow] /\ opened' \in 0..MaxCases /\ opened <= opened'
  BY <1>1, <1>2, <1>3, CaseSaved DEF ScansInv
<1>5. /\ requests' \in [Requests -> RequestRow] /\ requests'[q] = Idle
      /\ \A r \in Requests \ {q} : requests'[r] = requests[r]
      /\ CallHolds(q)' /\ CallsApart' /\ PassHolds'
      /\ opened \in Nat /\ opened' \in Nat
  BY <1>1, <1>4, EndsSaving
<1>6. \A r \in Requests \ {q} : CallHolds(r)'
  BY <1>1, <1>4, <1>5, CallKept, EventsStay DEF ScansInv
<1>7. ScansTypeOK'
  BY <1>1, <1>4, <1>5 DEF ScansInv, ScansTypeOK
<1>8. \A s \in Browsers : SessionHolds(s)'
  BY <1>1 DEF ScansInv, SessionHolds
<1> QED  BY <1>1, <1>5, <1>6, <1>7, <1>8 DEF ScansInv, Counted

LEMMA ForgetStep ==
    ASSUME ScansInv, NEW c \in MarketCodes, Forget(c) PROVE ScansInv'
<1>1. /\ UNCHANGED <<sessions, issued, cases, opened, requests, pass, scans, spent, rewound>> /\ CodeFree(c)
      /\ codes \in [MarketCodes -> SeenRow] /\ codes[c].recent <= scans[c] /\ scans[c] \in Nat
  BY DEF Forget, ScansInv, ScansTypeOK
<1>2. \E row \in SeenRow : /\ codes' = [codes EXCEPT ![c] = row]
                           /\ row.count = codes[c].count /\ row.recent <= scans[c]
  <2>1. CASE codes[c].recent > 0 /\ codes' = [codes EXCEPT ![c].recent = @ - 1]
    <3> DEFINE row == [codes[c] EXCEPT !.recent = codes[c].recent - 1]
    <3>1. codes[c].recent - 1 \in 0..MaxScans /\ codes[c].recent - 1 <= scans[c]
      BY <1>1, <2>1, Bounds DEF SeenRow
    <3>2. row \in SeenRow /\ row.count = codes[c].count /\ row.recent = codes[c].recent - 1
      BY <1>1, <3>1 DEF SeenRow
    <3>3. codes' = [codes EXCEPT ![c] = row]
      BY <1>1, <2>1
    <3> QED  BY <3>1, <3>2, <3>3
  <2>2. ASSUME NEW place \in codes[c].places,
               codes' = [codes EXCEPT ![c].places = @ \ {place}]
        PROVE  \E row \in SeenRow : /\ codes' = [codes EXCEPT ![c] = row]
                                    /\ row.count = codes[c].count /\ row.recent <= scans[c]
    <3> DEFINE row == [codes[c] EXCEPT !.places = codes[c].places \ {place}]
    <3>1. row \in SeenRow /\ row.count = codes[c].count /\ row.recent = codes[c].recent
      BY <1>1 DEF SeenRow
    <3>2. codes' = [codes EXCEPT ![c] = row]
      BY <1>1, <2>2
    <3> QED  BY <1>1, <3>1, <3>2
  <2> QED  BY <2>1, <2>2 DEF Forget
<1>3. PICK row \in SeenRow : /\ codes' = [codes EXCEPT ![c] = row]
                             /\ row.count = codes[c].count /\ row.recent <= scans[c]
  BY <1>2
<1>4. /\ codes' \in [MarketCodes -> SeenRow]
      /\ \A k \in MarketCodes : codes'[k].count = codes[k].count /\ codes'[k].recent <= scans[k]
  BY <1>1, <1>3 DEF ScansInv, ScansTypeOK
<1>5. \A q \in Requests : requests[q].c # Null => requests[q].c \in MarketCodes
  BY DEF ScansInv, ScansTypeOK, RequestRow
<1>6. opened \in Nat /\ opened' = opened
  BY <1>1, Bounds DEF ScansInv, ScansTypeOK
<1>7. \A q \in Requests : CallHolds(q)'
  BY <1>1, <1>4, <1>5, <1>6, CallKept, EventsStay DEF ScansInv
<1>8. ScansTypeOK' /\ Counted'
  BY <1>1, <1>4 DEF ScansInv, ScansTypeOK, Counted
<1> QED  BY <1>1, <1>7, <1>8 DEF ScansInv, SessionHolds, CallsApart, PassHolds

\* What the answer to a scan commits: the count of its code and the case it is filed in.
LEMMA VerifiedSaves ==
    ASSUME ScansInv, NEW q \in Requests, Verified(q)
    PROVE  LET c == requests[q].c IN
           /\ c \in MarketCodes /\ End(q) /\ UNCHANGED <<pass, rewound>>
           /\ codes' \in [MarketCodes -> SeenRow] /\ codes'[c].count = codes[c].count + 1
           /\ \A k \in MarketCodes : codes'[k].recent <= scans'[k]
           /\ \A k \in MarketCodes \ {c} : codes'[k] = codes[k]
           /\ scans' \in [MarketCodes -> Nat] /\ scans'[c] = scans[c] + 1
           /\ \A k \in MarketCodes \ {c} : scans'[k] = scans[k]
           /\ cases' \in [Cases -> CaseRow] /\ opened' \in 0..MaxCases /\ opened <= opened'
           /\ requests[q].result.suspicious =>
                 \E i \in 1..opened' : /\ cases'[i].category = requests[q].result.category
                                       /\ cases'[i].status = "open"
<1> DEFINE r == requests[q]  c == r.c
           counted == [codes[c] EXCEPT !.count = @ + 1, !.recent = @ + 1,
                                       !.places = @ \cup ({r.place} \ {Null})]
<1>1. /\ r \in RequestRow /\ r.kind = "scan" /\ c \in MarketCodes /\ codes[c] \in SeenRow
      /\ r.i \in {0} \cup Cases /\ r.i <= opened /\ codes[c].recent <= scans[c]
      /\ scans[c] < MaxScans /\ scans[c] \in Nat /\ codes[c].count <= scans[c]
  BY DEF Verified, ScansInv, ScansTypeOK, RequestRow, CallHolds, Counted
<1>2. r.place \in Places \cup {Null} /\ r.result \in Assessment /\ r.copy \in CaseRow
  BY <1>1 DEF RequestRow
<1>3. counted \in SeenRow /\ counted.count = codes[c].count + 1 /\ counted.recent <= scans[c] + 1
  <2>1. codes[c].count + 1 \in 0..MaxScans /\ codes[c].recent + 1 \in 0..MaxScans
        /\ codes[c].recent + 1 <= scans[c] + 1
    BY <1>1, Bounds DEF SeenRow
  <2>2. codes[c].places \cup ({r.place} \ {Null}) \in SUBSET Places
    BY <1>1, <1>2 DEF SeenRow
  <2> QED  BY <1>1, <2>1, <2>2 DEF SeenRow
<1>4. codes' = [codes EXCEPT ![c] = counted]
  BY DEF Verified
<1> HIDE DEF counted
<1>5. /\ codes' \in [MarketCodes -> SeenRow] /\ codes'[c].count = codes[c].count + 1
      /\ \A k \in MarketCodes \ {c} : codes'[k] = codes[k]
      /\ codes'[c].recent <= scans[c] + 1
  BY <1>1, <1>3, <1>4 DEF ScansInv, ScansTypeOK
<1>6. /\ scans' \in [MarketCodes -> Nat] /\ scans'[c] = scans[c] + 1
      /\ \A k \in MarketCodes \ {c} : scans'[k] = scans[k]
  BY <1>1 DEF Verified, ScansInv, ScansTypeOK
<1>8. \A k \in MarketCodes : codes'[k].recent <= scans'[k]
  BY <1>5, <1>6 DEF ScansInv, ScansTypeOK
<1>7. /\ cases' \in [Cases -> CaseRow] /\ opened' \in 0..MaxCases /\ opened <= opened'
      /\ r.result.suspicious =>
            \E i \in 1..opened' : /\ cases'[i].category = r.result.category
                                  /\ cases'[i].status = "open"
  <2>1. CASE r.result.suspicious
    <3> DEFINE row == Alert(r.i, r.copy, r.result.category)
    <3>1. row \in CaseRow /\ row.category = r.result.category /\ row.status = "open"
      BY <1>1, <1>2, <2>1, ScansConstants DEF Alert, Assessment, ScansInv, CallHolds
    <3>2. SaveCase(r.i, row)
      BY <2>1 DEF Verified
    <3> HIDE DEF row
    <3> QED  BY <1>1, <3>1, <3>2, CaseSaved DEF ScansInv
  <2>2. CASE ~r.result.suspicious
    <3>1. UNCHANGED <<cases, opened>>
      BY <2>2 DEF Verified
    <3> QED  BY <2>2, <3>1, Bounds DEF ScansInv, ScansTypeOK
  <2> QED  BY <2>1, <2>2
<1> QED  BY <1>1, <1>5, <1>6, <1>7, <1>8 DEF Verified

LEMMA VerifiedStep ==
    ASSUME ScansInv, NEW q \in Requests, Verified(q) PROVE ScansInv'
<1> DEFINE r == requests[q]
<1>1. /\ r \in RequestRow /\ r.kind = "scan" /\ CallHolds(q) /\ Consume(r.s, r.n)
  BY DEF Verified, ScansInv, ScansTypeOK
<1>2. /\ r.c \in MarketCodes /\ r.c # Null /\ r.s \in Browsers \cup {Null} /\ r.n \in Nonces
      /\ (r.s # Null => r.n = sessions[r.s].nonce)
  BY <1>1, Bounds DEF RequestRow, CallHolds
<1>3. /\ End(q) /\ UNCHANGED <<pass, rewound>>
      /\ codes' \in [MarketCodes -> SeenRow] /\ codes'[r.c].count = codes[r.c].count + 1
      /\ \A k \in MarketCodes : codes'[k].recent <= scans'[k]
      /\ \A k \in MarketCodes \ {r.c} : codes'[k] = codes[k]
      /\ scans' \in [MarketCodes -> Nat] /\ scans'[r.c] = scans[r.c] + 1
      /\ \A k \in MarketCodes \ {r.c} : scans'[k] = scans[k]
      /\ cases' \in [Cases -> CaseRow] /\ opened' \in 0..MaxCases /\ opened <= opened'
  BY VerifiedSaves
<1>4. /\ issued' \in [Browsers -> Nonces] /\ sessions' \in [Browsers -> SessionRow]
      /\ spent' \in [Browsers -> [Nonces -> Nat]]
      /\ \A t \in Browsers : SessionHolds(t)'
      /\ \A t \in Browsers \ {r.s} : sessions'[t] = sessions[t]
  BY <1>1, <1>2, Consumes
<1>5. /\ requests' \in [Requests -> RequestRow] /\ requests'[q] = Idle
      /\ \A o \in Requests \ {q} : requests'[o] = requests[o]
      /\ CallHolds(q)' /\ CallsApart' /\ PassHolds'
      /\ opened \in Nat /\ opened' \in Nat
  BY <1>3, EndsSaving
<1>6. ASSUME NEW o \in Requests \ {q} PROVE CallHolds(o)'
  <2>1. requests[o].c # r.c /\ (requests[o].s # Null => requests[o].s # r.s)
    BY <1>2 DEF ScansInv, CallsApart
  <2>2. /\ requests[o].s # Null => requests[o].s \in Browsers
        /\ requests[o].c # Null => requests[o].c \in MarketCodes
    BY DEF ScansInv, ScansTypeOK, RequestRow
  <2>3. \A k \in MarketCodes : scans'[k] \in Nat /\ scans[k] <= scans'[k]
    BY <1>3 DEF ScansInv, ScansTypeOK
  <2> QED  BY <1>3, <1>4, <1>5, <2>1, <2>2, <2>3, CallKept DEF ScansInv
<1>7. ScansTypeOK'
  BY <1>3, <1>4, <1>5 DEF ScansInv, ScansTypeOK
<1>8. Counted'
  <2>1. codes[r.c].count \in Nat /\ scans[r.c] \in Nat
    BY <1>2, Bounds DEF ScansInv, ScansTypeOK, SeenRow
  <2>2. /\ codes[r.c].count <= scans[r.c]
        /\ r.c \in rewound \/ codes[r.c].count = scans[r.c]
    BY <1>2 DEF ScansInv, Counted
  <2> QED  BY <1>2, <1>3, <2>1, <2>2 DEF ScansInv, Counted
<1> QED  BY <1>4, <1>5, <1>6, <1>7, <1>8 DEF ScansInv

\* A switch of a code, up to its save.
LEMMA SwitchSteps ==
    ASSUME ScansInv, NEW q \in Requests,
           CompareCode(q) \/ \E c \in MarketCodes : SwitchCode(q, c)
    PROVE  ScansInv'
<1>t. requests[q] \in RequestRow /\ CallHolds(q) /\ opened \in Nat
  BY Bounds DEF ScansInv, ScansTypeOK
<1>1. ASSUME NEW c \in MarketCodes, SwitchCode(q, c) PROVE ScansInv'
  <2> DEFINE new == [Idle EXCEPT !.kind = "switch", !.of = c, !.count = codes[c].count,
                                 !.live = ~codes[c].live]
  <2>1. /\ requests' = [requests EXCEPT ![q] = new]
        /\ UNCHANGED <<codes, sessions, issued, cases, opened, pass, scans, spent, rewound>>
    BY <1>1 DEF SwitchCode
  <2>2. codes[c] \in SeenRow /\ codes[c].count <= scans[c]
    BY DEF ScansInv, ScansTypeOK, Counted
  <2>3. /\ new \in RequestRow /\ new.kind = "switch" /\ new.s = Null /\ new.c = Null
        /\ new.i = 0 /\ new.of = c /\ new.count = codes[c].count
    BY <2>2, ScansConstants DEF RequestRow, SeenRow
  <2> HIDE DEF new
  <2>4. requests'[q] = new
    BY <2>1 DEF ScansInv, ScansTypeOK
  <2>5. CallHolds(q)'
    BY <1>t, <2>1, <2>2, <2>3, <2>4 DEF CallHolds
  <2> QED  BY <2>1, <2>3, <2>5, OneCall
<1>2. CASE CompareCode(q)
  <2> DEFINE columns == {column \in {"count", "live"} :
                            requests[q][column] # codes[requests[q].of][column]}
             new == [requests[q] EXCEPT !.kind = "save", !.columns = columns]
  <2>1. /\ requests' = [requests EXCEPT ![q] = new] /\ requests[q].kind = "switch"
        /\ UNCHANGED <<codes, sessions, issued, cases, opened, pass, scans, spent, rewound>>
    BY <1>2, <1>t DEF CompareCode, ScansInv, ScansTypeOK
  <2> HIDE DEF columns
  <2>2. columns \subseteq {"count", "live"}
    BY DEF columns
  <2>3. /\ new \in RequestRow /\ new.kind = "save" /\ new.s = Null /\ new.c = Null
        /\ new.i = requests[q].i /\ new.of = requests[q].of /\ new.count = requests[q].count
    BY <1>t, <2>1, <2>2 DEF RequestRow, CallHolds
  <2> HIDE DEF new
  <2>4. requests'[q] = new
    BY <2>1 DEF ScansInv, ScansTypeOK
  <2>5. CallHolds(q)'
    BY <1>t, <2>1, <2>3, <2>4 DEF CallHolds
  <2> QED  BY <2>1, <2>3, <2>5, OneCall
<1> QED  BY <1>1, <1>2

\* The row of a code nobody has locked changes, and no event is added.
LEMMA CodeChanges ==
    ASSUME ScansInv, NEW c \in MarketCodes, NEW row \in SeenRow,
           codes' = [codes EXCEPT ![c] = row], row.recent = codes[c].recent,
           row.count <= scans[c], row.count = scans[c] \/ c \in rewound',
           row.count = codes[c].count \/ CodeFree(c), rewound \subseteq rewound',
           rewound' \subseteq MarketCodes,
           \A q \in Requests : requests'[q] = requests[q] \/ requests'[q] = Idle,
           requests' \in [Requests -> RequestRow],
           UNCHANGED <<sessions, issued, cases, opened, pass, scans, spent>>
    PROVE  ScansInv'
<1>1. /\ codes' \in [MarketCodes -> SeenRow]
      /\ \A k \in MarketCodes : codes'[k] = IF k = c THEN row ELSE codes[k]
  BY DEF ScansInv, ScansTypeOK
<1>2. opened \in Nat /\ opened' = opened
  BY Bounds DEF ScansInv, ScansTypeOK
<1>3. ASSUME NEW q \in Requests PROVE CallHolds(q)'
  <2>1. CASE requests'[q] = Idle
    BY <2>1, <1>2, ScansConstants DEF CallHolds
  <2>2. CASE requests'[q] = requests[q]
    <3>1. requests[q].c # Null =>
             requests[q].c \in MarketCodes /\ codes'[requests[q].c].count = codes[requests[q].c].count
      BY <1>1 DEF CodeFree, ScansInv, ScansTypeOK, RequestRow
    <3> QED  BY <2>2, <3>1, <1>2, CallKept, EventsStay DEF ScansInv
  <2> QED  BY <2>1, <2>2
<1>4. ScansTypeOK' /\ Counted'
  BY <1>1 DEF ScansInv, ScansTypeOK, Counted
<1>5. CallsApart'
  BY ScansConstants DEF ScansInv, CallsApart
<1> QED  BY <1>3, <1>4, <1>5 DEF ScansInv, SessionHolds, PassHolds

LEMMA SaveCodeStep ==
    ASSUME ScansInv, NEW q \in Requests, SaveCode(q) PROVE ScansInv'
<1> DEFINE call == requests[q]  c == call.of
           row == [codes[c] EXCEPT !.count = IF "count" \in call.columns THEN call.count ELSE @,
                                   !.live = IF "live" \in call.columns THEN call.live ELSE @]
<1>1. /\ call \in RequestRow /\ c \in MarketCodes /\ codes[c] \in SeenRow
      /\ call.count <= scans[c] /\ codes[c].count <= scans[c]
      /\ c \in rewound \/ codes[c].count = scans[c]
      /\ scans[c] \in Nat /\ rewound \subseteq MarketCodes
  BY DEF SaveCode, ScansInv, ScansTypeOK, CallHolds, Counted
<1>2. /\ codes' = [codes EXCEPT ![c] = row] /\ End(q)
      /\ call.columns # {} => CodeFree(c)
      /\ rewound' = IF row.count < codes[c].count THEN rewound \cup {c} ELSE rewound
      /\ UNCHANGED <<sessions, issued, cases, opened, pass, scans, spent>>
  BY DEF SaveCode
<1>3. /\ row \in SeenRow /\ row.recent = codes[c].recent
      /\ row.count = IF "count" \in call.columns THEN call.count ELSE codes[c].count
  BY <1>1 DEF SeenRow, RequestRow
<1> HIDE DEF row
<1>4. row.count <= scans[c] /\ row.count \in Nat /\ codes[c].count \in Nat
  BY <1>1, <1>3, Bounds DEF SeenRow
<1>5. row.count = scans[c] \/ c \in rewound'
  BY <1>1, <1>2, <1>4
<1>6. row.count = codes[c].count \/ CodeFree(c)
  BY <1>2, <1>3
<1>7. /\ requests' \in [Requests -> RequestRow]
      /\ \A o \in Requests : requests'[o] = requests[o] \/ requests'[o] = Idle
  BY <1>2, ScansConstants DEF End, ScansInv, ScansTypeOK
<1>8. rewound \subseteq rewound' /\ rewound' \subseteq MarketCodes
  BY <1>1, <1>2
<1> HIDE DEF c
<1> QED  BY <1>1, <1>2, <1>3, <1>4, <1>5, <1>6, <1>7, <1>8, CodeChanges

LEMMA SwitchBatchStep ==
    ASSUME ScansInv, NEW c \in MarketCodes, SwitchBatch(c) PROVE ScansInv'
<1> DEFINE row == [codes[c] EXCEPT !.live = ~codes[c].live]
<1>1. /\ codes[c] \in SeenRow /\ codes[c].count <= scans[c]
      /\ c \in rewound \/ codes[c].count = scans[c]
      /\ rewound \subseteq MarketCodes /\ requests \in [Requests -> RequestRow]
  BY DEF ScansInv, ScansTypeOK, Counted
<1>2. codes' = [codes EXCEPT ![c] = row]
      /\ UNCHANGED <<sessions, issued, cases, opened, requests, pass, scans, spent, rewound>>
  BY DEF SwitchBatch
<1>3. row \in SeenRow /\ row.recent = codes[c].recent /\ row.count = codes[c].count
  BY <1>1 DEF SeenRow
<1> HIDE DEF row
<1> QED  BY <1>1, <1>2, <1>3, CodeChanges

LEMMA PassSteps ==
    ASSUME ScansInv,
           \/ \E findings \in SUBSET Reported : StartPass(findings)
           \/ FindCase \/ Upsert \/ EndPass
    PROVE  ScansInv'
<1>1. UNCHANGED <<codes, sessions, issued, requests, scans, spent, rewound>>
  BY DEF StartPass, FindCase, Upsert, EndPass
<1>2. /\ opened \in Nat /\ opened \in 0..MaxCases /\ cases \in [Cases -> CaseRow]
      /\ pass \in PassRow /\ pass.i <= opened
  BY Bounds DEF ScansInv, ScansTypeOK, PassHolds
<1>3. /\ cases' \in [Cases -> CaseRow] /\ opened' \in 0..MaxCases /\ opened <= opened'
      /\ pass' \in PassRow /\ pass'.i <= opened'
  <2>1. ASSUME NEW findings \in SUBSET Reported, StartPass(findings)
        PROVE  pass' \in PassRow /\ pass'.i = 0 /\ UNCHANGED <<cases, opened>>
    <3>1. findings \subseteq Categories
      BY DEF Reported, Categories
    <3> QED  BY <2>1, <3>1, ScansConstants DEF StartPass, PassRow
  <2>2. ASSUME FindCase
        PROVE  pass' \in PassRow /\ pass'.i <= opened /\ UNCHANGED <<cases, opened>>
    <3>1. PICK category \in pass.findings :
             pass' = [pass EXCEPT !.findings = {category}, !.holds = TRUE,
                         !.i = LiveCase(category), !.copy = CopyOf(LiveCase(category))]
      BY <2>2 DEF FindCase
    <3>2. category \in Categories
      BY <1>2 DEF PassRow
    <3> DEFINE live == LiveCase(category)  copy == CopyOf(LiveCase(category))
    <3>3. live \in {0} \cup Cases /\ live <= opened
      BY <1>2, LiveCaseIsLive, Bounds DEF Cases
    <3>4. copy \in CaseRow
      BY <1>2, <3>3, ScansConstants DEF CopyOf
    <3>5. pass' = [pass EXCEPT !.findings = {category}, !.holds = TRUE, !.i = live, !.copy = copy]
      BY <3>1
    <3> HIDE DEF live, copy
    <3>6. pass' \in PassRow /\ pass'.i = live
      BY <1>2, <3>2, <3>3, <3>4, <3>5 DEF PassRow
    <3> QED  BY <2>2, <3>3, <3>6 DEF FindCase
  <2>3. ASSUME Upsert
        PROVE  /\ pass' = NoPass
               /\ cases' \in [Cases -> CaseRow] /\ opened' \in 0..MaxCases /\ opened <= opened'
    <3>1. PICK category \in pass.findings : SaveCase(pass.i, Alert(pass.i, pass.copy, category))
      BY <2>3 DEF Upsert
    <3>2. category \in Categories /\ pass.copy \in CaseRow /\ pass.i \in {0} \cup Cases
      BY <1>2 DEF PassRow
    <3>3. Alert(pass.i, pass.copy, category) \in CaseRow
      BY <3>2, ScansConstants DEF Alert
    <3> QED  BY <1>2, <2>3, <3>1, <3>2, <3>3, CaseSaved DEF Upsert, ScansInv
  <2>4. ASSUME EndPass PROVE pass' = NoPass /\ UNCHANGED <<cases, opened>>
    BY <2>4 DEF EndPass
  <2> QED  BY <1>2, <2>1, <2>2, <2>3, <2>4, ScansConstants, Bounds
<1>4. opened' \in Nat
  BY <1>3, Bounds
<1>5. \A q \in Requests : CallHolds(q)'
  BY <1>1, <1>2, <1>3, <1>4, CallKept, EventsStay DEF ScansInv
<1>6. ScansTypeOK'
  BY <1>1, <1>3 DEF ScansInv, ScansTypeOK
<1> QED  BY <1>1, <1>3, <1>5, <1>6 DEF ScansInv, SessionHolds, CallsApart, Counted, PassHolds

LEMMA ScansInvStep == ScansInv /\ [ScansNext]_scansVars => ScansInv'
<1> SUFFICES ASSUME ScansInv, [ScansNext]_scansVars PROVE ScansInv'
  OBVIOUS
<1>1. ASSUME NEW s \in Browsers, BeginSession(s) \/ NonceExpires(s) PROVE ScansInv'
  BY <1>1, SessionSteps
<1>2. ASSUME NEW s \in Browsers \cup {Null}, NEW n \in Nonces,
             \/ ScanOther(s, n)
             \/ \E q \in Requests, c \in MarketCodes, place \in Places \cup {Null},
                   complaint, elevated, rapid \in BOOLEAN :
                   Scan(q, s, n, c, place, complaint, elevated, rapid)
      PROVE  ScansInv'
  BY <1>2, ScanOtherStep, ScanStep
<1>3. ASSUME NEW q \in Requests,
             \/ Verified(q) \/ Abort(q) \/ CompareCode(q) \/ SaveCode(q)
             \/ \E i \in Cases : Review(q, i)
             \/ \E status \in Statuses : Reviewed(q, status)
             \/ \E c \in MarketCodes : SwitchCode(q, c)
      PROVE  ScansInv'
  BY <1>3, VerifiedStep, AbortStep, ReviewStep, ReviewedStep, SwitchSteps, SaveCodeStep
<1>4. ASSUME NEW c \in MarketCodes, Forget(c) \/ SwitchBatch(c) PROVE ScansInv'
  BY <1>4, ForgetStep, SwitchBatchStep
<1>5. CASE UNCHANGED scansVars
  BY <1>5 DEF scansVars, ScansInv, ScansTypeOK, SessionHolds, CallHolds, CallsApart, Counted, PassHolds
<1> QED  BY <1>1, <1>2, <1>3, <1>4, <1>5, PassSteps DEF ScansNext

LEMMA ScansInvAlways == ScansSpec => []ScansInv
<1> QED  BY ScansInvInit, ScansInvStep, PTL DEF ScansSpec

-----------------------------------------------------------------------------
\* Every variable of Scans stays in its type.
THEOREM ScansTypeCorrect == ScansSpec => []ScansTypeOK
<1>1. ScansInv => ScansTypeOK
  BY DEF ScansInv
<1> QED  BY <1>1, ScansInvAlways, PTL

\* No nonce is accepted twice, by any number of requests and whatever begin does in
\* between.
THEOREM NoncesCannotBeReplayed == ScansSpec => []NoncesAreSpentOnce
<1>1. ScansInv => NoncesAreSpentOnce
  BY DEF ScansInv, SessionHolds, NoncesAreSpentOnce
<1> QED  BY <1>1, ScansInvAlways, PTL

\* Only an answer changes the number of answered scans.
LEMMA AnswersVerify ==
    ASSUME ScansInv, [ScansNext]_scansVars, NEW q \in Requests, Answers(q)
    PROVE  Verified(q)
<1>1. ASSUME ~\E p \in Requests : Verified(p) PROVE UNCHANGED scans
  <2>1. ASSUME NEW s \in Browsers, BeginSession(s) \/ NonceExpires(s) PROVE UNCHANGED scans
    BY <2>1 DEF BeginSession, NonceExpires
  <2>2. ASSUME NEW s \in Browsers \cup {Null}, NEW n \in Nonces, ScanOther(s, n)
        PROVE  UNCHANGED scans
    BY <2>2 DEF ScanOther
  <2>3. ASSUME NEW s, NEW n, NEW p, NEW c, NEW place, NEW complaint, NEW elevated, NEW rapid,
               Scan(p, s, n, c, place, complaint, elevated, rapid)
        PROVE  UNCHANGED scans
    BY <2>3 DEF Scan
  <2>4. ASSUME NEW p \in Requests,
               \/ Abort(p) \/ CompareCode(p) \/ SaveCode(p)
               \/ \E i \in Cases : Review(p, i)
               \/ \E status \in Statuses : Reviewed(p, status)
               \/ \E c \in MarketCodes : SwitchCode(p, c)
        PROVE  UNCHANGED scans
    BY <2>4 DEF Abort, Review, Reviewed, SwitchCode, CompareCode, SaveCode
  <2>5. ASSUME NEW c \in MarketCodes, Forget(c) \/ SwitchBatch(c) PROVE UNCHANGED scans
    BY <2>5 DEF Forget, SwitchBatch
  <2>6. ASSUME \/ \E findings \in SUBSET Reported : StartPass(findings)
               \/ FindCase \/ Upsert \/ EndPass
        PROVE  UNCHANGED scans
    BY <2>6 DEF StartPass, FindCase, Upsert, EndPass
  <2>7. CASE UNCHANGED scansVars
    BY <2>7 DEF scansVars
  <2> QED  BY <1>1, <2>1, <2>2, <2>3, <2>4, <2>5, <2>6, <2>7 DEF ScansNext
<1>2. PICK p \in Requests : Verified(p)
  BY <1>1 DEF Answers
<1>3. requests[q] # requests'[q]
  BY ScansConstants DEF Answers
<1>4. requests' = [requests EXCEPT ![p] = Idle]
  BY <1>2 DEF Verified, End
<1>5. p = q
  BY <1>3, <1>4 DEF ScansInv, ScansTypeOK
<1> QED  BY <1>2, <1>5

\* From the threshold on every answer is a suspicion, unless setCodeStatus wrote the count
\* of the code back: the count under which a scan was judged is the count it adds to,
\* however many scans of the copies there are at once.
THEOREM CopiesAreNotCalledSafe == ScansSpec => CopiesAreSuspected
<1>1. ASSUME ScansInv, [ScansNext]_scansVars, NEW q \in Requests, Answers(q), ~requests[q].result.suspicious
      PROVE  scans'[requests[q].c] < RepeatAt \/ requests[q].c \in rewound
  <2>1. Verified(q)
    BY <1>1, AnswersVerify
  <2>2. requests[q].c \in MarketCodes /\ scans'[requests[q].c] = scans[requests[q].c] + 1
    BY <1>1, <2>1, VerifiedSaves
  <2>3. codes[requests[q].c].count + 1 < RepeatAt
    BY <1>1 DEF Answers, ScansInv, CallHolds
  <2>4. requests[q].c \in rewound \/ codes[requests[q].c].count = scans[requests[q].c]
    BY <1>1, <2>2 DEF ScansInv, Counted
  <2> QED  BY <2>2, <2>3, <2>4
<1>2. ScansInv /\ [ScansNext]_scansVars =>
         [\A q \in Requests :
             Answers(q) /\ ~requests[q].result.suspicious =>
                scans'[requests[q].c] < RepeatAt \/ requests[q].c \in rewound]_scansVars
  BY <1>1
<1> QED  BY <1>2, ScansInvAlways, PTL DEF ScansSpec, CopiesAreSuspected

\* Whenever a suspicion is answered, somebody still has to close a case of its category,
\* although nobody locks cases and reviewers close and reopen them meanwhile.
THEOREM SuspicionsHaveCases == ScansSpec => SuspicionsAreFiled
<1>1. ASSUME ScansInv, [ScansNext]_scansVars, NEW q \in Requests, Answers(q), requests[q].result.suspicious
      PROVE  \E i \in 1..opened' :
                /\ cases'[i].category = requests[q].result.category
                /\ cases'[i].status = "open"
  <2>1. Verified(q)
    BY <1>1, AnswersVerify
  <2> QED  BY <1>1, <2>1, VerifiedSaves
<1>2. ScansInv /\ [ScansNext]_scansVars =>
         [\A q \in Requests :
             Answers(q) /\ requests[q].result.suspicious =>
                \E i \in 1..opened' :
                   /\ cases'[i].category = requests[q].result.category
                   /\ cases'[i].status = "open"]_scansVars
  BY <1>1
<1> QED  BY <1>2, ScansInvAlways, PTL DEF ScansSpec, SuspicionsAreFiled
=============================================================================
