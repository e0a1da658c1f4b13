---------------------------- MODULE VendorsProofs ----------------------------
(***************************************************************************)
(* The theorems of modules VendorDocuments and Vendors, for any documents, *)
(* names, requests, decisions and administrators.                          *)
(***************************************************************************)
EXTENDS Vendors, TLAPS

FileKinds == {"none", "save", "deleteRow", "deleteVendor", "inviteVendor"}
FileRow == [kind: FileKinds, docs: SUBSET Docs, row: DocRow, name: Names \cup {None}]
WriterKinds == {"none", "company", "address", "logo", "lifecycle"}
WriterRow == [kind: WriterKinds, row: OrgRow]
Outcomes == {"approved", "rejected", "changes_requested", "deactivated"}

DocsTyped ==
    /\ docs \in [Docs -> DocRow] /\ stored \subseteq Object /\ torn \subseteq Docs
    /\ fileReq \in [FileRequests -> FileRow]
    /\ \A g \in FileRequests : fileReq[g].kind = "inviteVendor" => fileReq[g].name \in Names

OrgTyped ==
    /\ org \in OrgRow
    /\ user \in {"none", "inactive", "active", "deleted"}
    /\ writer \in [Writers -> WriterRow]
    /\ change \in [ChangeIds -> ChangeRow]
    /\ decisions \in Seq([by: {"review", "lifecycle"}, outcome: Outcomes])
    /\ Len(decisions) <= MaxDecisions
    /\ lastName \in Names \cup {None}
    /\ crossed \in BOOLEAN

\* A row that claims a file whose upload was signed for it has that file.
Filed(d, row) == row.status = "verified" /\ row.key = "first" => <<d, "first">> \in stored

\* A document that is not torn is in the hands of one request at most.  Its row has its
\* file, unless a request is deleting it, and so has the row a request is about to save;
\* one that a vendor is invited with is uploaded and has no row yet.
Whole(d) ==
    /\ \A g, h \in FileRequests : d \in fileReq[g].docs \cap fileReq[h].docs => g = h
    /\ Filed(d, docs[d])
          \/ \E g \in FileRequests : d \in fileReq[g].docs
                                     /\ fileReq[g].kind \in {"deleteRow", "deleteVendor"}
    /\ \A g \in FileRequests : d \in fileReq[g].docs =>
          /\ fileReq[g].kind = "save" => Filed(d, fileReq[g].row)
          /\ fileReq[g].kind = "inviteVendor" =>
                <<d, "first">> \in stored /\ docs[d].status # "verified"

\* An administrator who is not there has no organisation, and nothing works on one.
Nobody ==
    /\ user = "none" => ~Created /\ InFlight = {}
    /\ user = "deleted" /\ ~crossed => ~Created

\* What an unlocked request saves: as long as nothing is crossed, the row as it is, but
\* for what the request changes.
Copies(copy) ==
    /\ copy.kind = "none" => copy = NoWriter
    /\ copy.kind = "company" => copy.row.companyName \in Names
    /\ copy.kind \in {"company", "address"} => copy.row.status = "draft"
    /\ copy.kind = "lifecycle" => copy.row.status \in {"deactivated", "approved"}
    /\ ~crossed /\ copy.kind \in {"address", "logo", "lifecycle"} =>
          Created /\ copy.row.companyName = org.companyName
    /\ ~crossed /\ copy.kind = "logo" => copy.row = org

\* The name is the one accepted last.
NameKept == ~crossed /\ Created => org.companyName = lastName

\* The event of an outcome is the decision it is about.
OutcomeEvents == \A m \in mails : m.topic \in {"approved", "rejected"} => m.event = m.about

\* The parts of AccessFollowsDecisions and of EveryReviewIsMailed.
ActiveWasLetIn == user = "active" => LetIn
ApprovedLast == org.status = "approved" /\ ~crossed => LastApproved /\ user = "active"
OutcomesMailed ==
    \A i \in DOMAIN decisions :
       decisions[i].by = "review" /\ decisions[i].outcome # "changes_requested"
       => \E m \in mails : m.topic = decisions[i].outcome /\ m.about = i
SubmissionMailed ==
    org.status = "submitted" /\ ~crossed /\ user = "active" => \A a \in SuperAdmins :
       \E m \in mails : m.topic = "platform-onboarding-submitted" /\ m.event = a

DocInv == DocsTyped /\ \A d \in Docs \ torn : Whole(d)
OrgInv ==
    /\ OrgTyped /\ Nobody /\ (\A w \in Writers : Copies(writer[w])) /\ NameKept
    /\ ActiveWasLetIn /\ ApprovedLast /\ OutcomeEvents /\ OutcomesMailed /\ SubmissionMailed
IInv == DocInv /\ OrgInv

-----------------------------------------------------------------------------
(* Documents and their objects.                                            *)

LEMMA Unused ==
    /\ NoFileRequest \in FileRow /\ NoFileRequest.docs = {} /\ NoFileRequest.kind = "none"
    /\ NoDoc \in DocRow /\ NoDoc.status = "absent" /\ NoDoc.key = "first"
  BY DEF NoFileRequest, FileRow, FileKinds, NoDoc, DocRow, Keys

\* A tuple names its document.
LEMMA ObjectsApart ==
    ASSUME NEW d, NEW e, NEW k, NEW l, d # e
    PROVE  <<d, k>> # <<e, l>>
  OBVIOUS

\* A request begins.  The documents that are not torn by it were in nobody's hands.
LEMMA Begun ==
    ASSUME DocsTyped, NEW g \in FileRequests, NEW request \in FileRow, Begin(g, request)
    PROVE  /\ fileReq' \in [FileRequests -> FileRow] /\ torn' \subseteq Docs
           /\ fileReq'[g] = request /\ fileReq[g].docs = {}
           /\ \A h \in FileRequests \ {g} : fileReq'[h] = fileReq[h]
           /\ \A d \in Docs \ torn' :
                 d \notin torn /\ (d \in request.docs => ~Busy(d))
<1>1. request.docs \subseteq Docs
  BY DEF FileRow
<1> QED  BY <1>1, Unused DEF Begin, DocsTyped

LEMMA BeginWhole ==
    ASSUME DocInv, NEW g \in FileRequests, NEW request \in FileRow, Begin(g, request),
           docs' = docs, NEW d \in Docs \ torn',
           d \notin request.docs => (<<d, "first">> \in stored => <<d, "first">> \in stored'),
           d \in request.docs =>
              \/ request.kind \in {"deleteRow", "deleteVendor"}
              \/ request.kind = "save" /\ stored' = stored /\ Filed(d, request.row)
              \/ request.kind = "inviteVendor" /\ <<d, "first">> \in stored'
                    /\ docs[d].status # "verified"
    PROVE  Whole(d)'
<1>1. /\ fileReq'[g] = request /\ fileReq[g].docs = {}
      /\ \A h \in FileRequests \ {g} : fileReq'[h] = fileReq[h]
      /\ d \notin torn /\ (d \in request.docs => ~Busy(d))
  BY Begun DEF DocInv
<1>2. Whole(d)
  BY <1>1 DEF DocInv
<1>3. CASE d \notin request.docs
  <2>1. \A h \in FileRequests : d \in fileReq'[h].docs => h # g /\ fileReq'[h] = fileReq[h]
    BY <1>1, <1>3
  <2>2. \A h \in FileRequests : d \in fileReq[h].docs => fileReq'[h] = fileReq[h]
    BY <1>1
  <2>4. Filed(d, docs[d]) => Filed(d, docs[d])'
    BY <1>3 DEF Filed
  <2>5. ASSUME NEW h \in FileRequests, d \in fileReq'[h].docs
        PROVE  /\ fileReq'[h].kind = "save" => Filed(d, fileReq[h].row)'
               /\ fileReq'[h].kind = "inviteVendor" =>
                     <<d, "first">> \in stored' /\ docs'[d].status # "verified"
    BY <1>2, <1>3, <2>1, <2>5 DEF Whole, Filed
  <2> QED  BY <1>2, <2>1, <2>2, <2>4, <2>5 DEF Whole
<1>4. CASE d \in request.docs
  <2>1. \A h \in FileRequests : d \notin fileReq[h].docs
    BY <1>1, <1>4 DEF Busy
  <2>2. \A h \in FileRequests : d \in fileReq'[h].docs => h = g
    BY <1>1, <2>1
  <2>3. Filed(d, docs[d])
    BY <1>2, <2>1 DEF Whole
  <2>4. request.kind \in {"save", "inviteVendor"} => Filed(d, docs[d])'
    BY <1>4, <2>3 DEF Filed
  <2>5. request.kind = "save" => Filed(d, request.row)'
    BY <1>4 DEF Filed
  <2> QED  BY <1>1, <1>4, <2>2, <2>4, <2>5 DEF Whole
<1> QED  BY <1>3, <1>4

\* A request ends.
LEMMA EndedFile ==
    ASSUME DocsTyped, NEW g \in FileRequests, End(g)
    PROVE  /\ fileReq' \in [FileRequests -> FileRow] /\ fileReq'[g] = NoFileRequest
           /\ \A h \in FileRequests \ {g} : fileReq'[h] = fileReq[h]
  BY Unused DEF DocsTyped, End

LEMMA EndWhole ==
    ASSUME DocInv, NEW g \in FileRequests, End(g), NEW d \in Docs \ torn,
           \/ d \notin fileReq[g].docs /\ docs'[d] = docs[d]
                 /\ (<<d, "first">> \in stored => <<d, "first">> \in stored')
           \/ d \in fileReq[g].docs /\ Filed(d, docs[d])'
           \/ (\A h \in FileRequests \ {g} : d \notin fileReq[h].docs) /\ Filed(d, docs[d])'
    PROVE  Whole(d)'
<1>1. fileReq'[g].docs = {} /\ \A h \in FileRequests \ {g} : fileReq'[h] = fileReq[h]
  BY EndedFile, Unused DEF DocInv
<1>2. Whole(d)
  BY DEF DocInv
<1>3. CASE \A h \in FileRequests : d \notin fileReq'[h].docs
  <2>1. Filed(d, docs[d])'
    <3>1. CASE d \notin fileReq[g].docs /\ docs'[d] = docs[d]
               /\ (<<d, "first">> \in stored => <<d, "first">> \in stored')
      <4>1. \A h \in FileRequests : d \notin fileReq[h].docs
        BY <1>1, <1>3, <3>1
      <4>2. Filed(d, docs[d])
        BY <1>2, <4>1 DEF Whole
      <4> QED  BY <3>1, <4>2 DEF Filed
    <3> QED  BY <3>1
  <2> QED  BY <1>3, <2>1 DEF Whole
<1>4. CASE \E h \in FileRequests : d \in fileReq'[h].docs
  <2>1. PICK h \in FileRequests : d \in fileReq'[h].docs
    BY <1>4
  <2>2. h # g /\ d \in fileReq[h].docs /\ d \notin fileReq[g].docs
    BY <1>1, <1>2, <2>1 DEF Whole
  <2>3. docs'[d] = docs[d] /\ (<<d, "first">> \in stored => <<d, "first">> \in stored')
    BY <2>2
  <2>4. \A i \in FileRequests : d \in fileReq'[i].docs => i # g /\ fileReq'[i] = fileReq[i]
    BY <1>1
  <2>5. \A i \in FileRequests : d \in fileReq[i].docs => fileReq'[i] = fileReq[i]
    BY <1>1, <2>2
  <2>6. Filed(d, docs[d]) => Filed(d, docs[d])'
    BY <2>3 DEF Filed
  <2>7. ASSUME NEW i \in FileRequests, d \in fileReq'[i].docs
        PROVE  /\ fileReq'[i].kind = "save" => Filed(d, fileReq[i].row)'
               /\ fileReq'[i].kind = "inviteVendor" =>
                     <<d, "first">> \in stored' /\ docs'[d].status # "verified"
    BY <1>2, <2>3, <2>4, <2>7 DEF Whole, Filed
  <2> QED  BY <1>2, <2>4, <2>5, <2>6, <2>7 DEF Whole
<1> QED  BY <1>3, <1>4

\* A request that a vendor is invited or deleted with, which has a name to compare.
LEMMA NamedRequest ==
    ASSUME NEW kind \in FileKinds, NEW ds \in SUBSET Docs, NEW row \in DocRow, NEW n \in Names
    PROVE  LET request == [FileRequest(kind, ds, row) EXCEPT !.name = n] IN
           /\ request \in FileRow
           /\ request.kind = kind /\ request.docs = ds /\ request.name = n
  BY DEF FileRequest, FileRow

LEMMA DocsBegin ==
    ASSUME DocInv, NEW g \in FileRequests, NEW d \in Docs,
           \/ CompleteDocument(g, d) \/ DeleteObject(g, d)
           \/ \E renamed \in BOOLEAN : UpdateDocument(g, d, renamed)
    PROVE  DocInv'
<1>t. DocsTyped /\ docs[d] \in DocRow /\ ObjectOf(d) \in Object
  BY DEF DocInv, DocsTyped, DocRow, ObjectOf, Object
<1>k. {"save", "deleteRow"} \subseteq FileKinds /\ {d} \in SUBSET Docs
  BY DEF FileKinds
<1>1. ASSUME NEW row \in DocRow, Begin(g, FileRequest("save", {d}, row)),
             UNCHANGED <<docs, stored>>, ~Busy(d) /\ d \notin torn => Filed(d, row)
      PROVE  DocInv'
  <2> DEFINE request == FileRequest("save", {d}, row)
  <2>1. request \in FileRow /\ request.kind = "save" /\ request.docs = {d} /\ request.row = row
    BY <1>k DEF FileRequest, FileRow
  <2> HIDE DEF request
  <2>2. Begin(g, request)
    BY <1>1 DEF request
  <2>3. /\ fileReq' \in [FileRequests -> FileRow] /\ torn' \subseteq Docs
        /\ \A h \in FileRequests : fileReq'[h] = IF h = g THEN request ELSE fileReq[h]
        /\ \A e \in Docs \ torn' : e \notin torn /\ (e \in request.docs => ~Busy(e))
    BY <1>t, <2>1, <2>2, Begun
  <2>4. DocsTyped'
    BY <1>1, <1>t, <2>1, <2>3 DEF DocsTyped
  <2>5. ASSUME NEW e \in Docs \ torn' PROVE Whole(e)'
    <3>1. e \in request.docs => Filed(e, request.row)
      BY <1>1, <2>1, <2>3
    <3> QED  BY <1>1, <2>1, <2>2, <3>1, BeginWhole
  <2> QED  BY <2>4, <2>5 DEF DocInv
<1>2. CASE CompleteDocument(g, d)
  <2>1. [docs[d] EXCEPT !.status = "verified"] \in DocRow
        /\ [docs[d] EXCEPT !.status = "verified"].key = docs[d].key
    BY <1>t DEF DocRow
  <2>2. Filed(d, [docs[d] EXCEPT !.status = "verified"])
    BY <1>2, <2>1 DEF CompleteDocument, Downloaded, ObjectOf, Filed
  <2> QED  BY <1>1, <1>2, <2>1, <2>2 DEF CompleteDocument
<1>3. ASSUME NEW renamed \in BOOLEAN, UpdateDocument(g, d, renamed) PROVE DocInv'
  <2>1. ~Busy(d) /\ d \notin torn => Filed(d, docs[d])
    BY DEF DocInv, Whole, Busy
  <2>2. CASE ~renamed
    BY <1>1, <1>3, <1>t, <2>1, <2>2 DEF UpdateDocument
  <2>3. CASE renamed
    <3>1. [docs[d] EXCEPT !.key = "renamed"] \in DocRow
          /\ Filed(d, [docs[d] EXCEPT !.key = "renamed"])
      BY <1>t DEF DocRow, Keys, Filed
    <3> QED  BY <1>1, <1>3, <2>3, <3>1 DEF UpdateDocument
  <2> QED  BY <2>2, <2>3
<1>4. CASE DeleteObject(g, d)
  <2> DEFINE request == FileRequest("deleteRow", {d}, docs[d])
  <2>1. request \in FileRow /\ request.kind = "deleteRow" /\ request.docs = {d}
    BY <1>k, <1>t DEF FileRequest, FileRow
  <2> HIDE DEF request
  <2>2. Begin(g, request) /\ docs' = docs /\ stored' = stored \ {ObjectOf(d)}
    BY <1>4 DEF DeleteObject, request
  <2>3. /\ fileReq' \in [FileRequests -> FileRow] /\ torn' \subseteq Docs
        /\ \A h \in FileRequests : fileReq'[h] = IF h = g THEN request ELSE fileReq[h]
    BY <1>t, <2>1, <2>2, Begun
  <2>4. DocsTyped'
    BY <1>t, <2>1, <2>2, <2>3 DEF DocsTyped
  <2>5. ASSUME NEW e \in Docs \ torn' PROVE Whole(e)'
    <3>1. e \notin request.docs => <<e, "first">> # ObjectOf(d)
      BY <2>1, ObjectsApart DEF ObjectOf
    <3> QED  BY <2>1, <2>2, <3>1, BeginWhole
  <2> QED  BY <2>4, <2>5 DEF DocInv
<1> QED  BY <1>2, <1>3, <1>4

LEMMA DocsEnd ==
    ASSUME DocInv, NEW g \in FileRequests, SaveDocument(g) \/ DeleteRow(g) \/ EndEarly(g)
    PROVE  DocInv'
<1>t. DocsTyped /\ fileReq[g] \in FileRow
  BY DEF DocInv, DocsTyped
<1>1. End(g) /\ stored' = stored /\ torn \subseteq torn' /\ torn' \subseteq Docs
  BY <1>t DEF SaveDocument, DeleteRow, EndEarly, DocsTyped, FileRow
<1>2. /\ fileReq' \in [FileRequests -> FileRow] /\ fileReq'[g] = NoFileRequest
      /\ \A h \in FileRequests \ {g} : fileReq'[h] = fileReq[h]
  BY <1>1, <1>t, EndedFile
<1>3. docs' \in [Docs -> DocRow] /\ \A d \in Docs \ fileReq[g].docs : docs'[d] = docs[d]
  BY <1>t, Unused DEF SaveDocument, DeleteRow, EndEarly, DocsTyped, FileRow
<1>4. DocsTyped'
  BY <1>1, <1>2, <1>3, <1>t, Unused DEF DocsTyped
<1>5. ASSUME NEW d \in Docs \ torn', d \in fileReq[g].docs PROVE Filed(d, docs[d])'
  <2>1. d \notin torn /\ Whole(d)
    BY <1>1 DEF DocInv
  <2>2. CASE SaveDocument(g)
    <3>1. docs'[d] = fileReq[g].row /\ fileReq[g].kind = "save"
      BY <1>5, <2>2 DEF SaveDocument
    <3> QED  BY <1>1, <1>5, <2>1, <3>1 DEF Whole, Filed
  <2>3. CASE DeleteRow(g)
    BY <1>5, <2>3, Unused DEF DeleteRow, Filed
  <2>4. CASE EndEarly(g)
    <3>1. docs' = docs /\ fileReq[g].kind \in {"save", "inviteVendor"}
      BY <1>5, <2>4 DEF EndEarly
    <3>2. \A h \in FileRequests : d \in fileReq[h].docs => h = g
      BY <1>5, <2>1 DEF Whole
    <3>3. Filed(d, docs[d])
      BY <2>1, <3>1, <3>2 DEF Whole
    <3> QED  BY <1>1, <3>1, <3>3 DEF Filed
  <2> QED  BY <2>2, <2>3, <2>4
<1>6. ASSUME NEW d \in Docs \ torn' PROVE Whole(d)'
  BY <1>1, <1>3, <1>5, EndWhole
<1> QED  BY <1>4, <1>6 DEF DocInv

LEMMA DocsGrow ==
    ASSUME DocInv, NEW d \in Docs, AddDocument(d) \/ Upload(d)
    PROVE  DocInv'
<1>t. DocsTyped
  BY DEF DocInv
<1>1. /\ UNCHANGED <<fileReq, torn>> /\ stored \subseteq stored'
      /\ docs' \in [Docs -> DocRow] /\ stored' \subseteq Object
      /\ \A e \in Docs : docs'[e].status = "verified" => docs'[e] = docs[e]
  <2>1. CASE AddDocument(d)
    <3>1. [docs[d] EXCEPT !.status = "pending_upload"] \in DocRow
          /\ [docs[d] EXCEPT !.status = "pending_upload"].status = "pending_upload"
      BY <1>t DEF DocsTyped, DocRow
    <3>2. docs' = [docs EXCEPT ![d] = [docs[d] EXCEPT !.status = "pending_upload"]]
      BY <2>1 DEF AddDocument
    <3> QED  BY <2>1, <3>1, <3>2, <1>t DEF AddDocument, DocsTyped
  <2>2. CASE Upload(d)
    BY <2>2, <1>t DEF Upload, DocsTyped, Object, Keys
  <2> QED  BY <2>1, <2>2
<1>2. DocsTyped'
  BY <1>1, <1>t DEF DocsTyped
<1>3. ASSUME NEW e \in Docs \ torn' PROVE Whole(e)'
  <2>1. Whole(e) /\ (Filed(e, docs[e]) => Filed(e, docs[e])')
    BY <1>1 DEF DocInv, Filed
  <2>2. ASSUME NEW g \in FileRequests, e \in fileReq[g].docs
        PROVE  /\ fileReq[g].kind = "save" => Filed(e, fileReq[g].row)'
               /\ fileReq[g].kind = "inviteVendor" =>
                     <<e, "first">> \in stored' /\ docs'[e].status # "verified"
    <3>1. fileReq[g].kind = "save" => Filed(e, fileReq[g].row)
      BY <2>1, <2>2 DEF Whole
    <3>2. fileReq[g].kind = "inviteVendor" =>
             <<e, "first">> \in stored /\ docs[e].status # "verified"
      BY <2>1, <2>2 DEF Whole
    <3> QED  BY <1>1, <3>1, <3>2 DEF Filed
  <2> QED  BY <1>1, <2>1, <2>2 DEF Whole
<1> QED  BY <1>2, <1>3 DEF DocInv

LEMMA InviteVendorDocs ==
    ASSUME DocInv, NEW g \in FileRequests, NEW ds \in SUBSET Docs, NEW n \in Names,
           InviteVendor(g, ds, n)
    PROVE  DocInv'
<1>t. DocsTyped /\ "inviteVendor" \in FileKinds
  BY DEF DocInv, FileKinds
<1> DEFINE request == [FileRequest("inviteVendor", ds, NoDoc) EXCEPT !.name = n]
<1>1. /\ request \in FileRow /\ request.kind = "inviteVendor" /\ request.docs = ds
      /\ request.name = n
  BY <1>t, Unused, NamedRequest
<1> HIDE DEF request
<1>2. /\ Begin(g, request) /\ docs' = docs
      /\ stored' = stored \cup {<<d, "first">> : d \in ds}
      /\ \A d \in ds : docs[d] = NoDoc
  BY DEF InviteVendor, request
<1>3. /\ fileReq' \in [FileRequests -> FileRow] /\ torn' \subseteq Docs
      /\ \A h \in FileRequests : fileReq'[h] = IF h = g THEN request ELSE fileReq[h]
  BY <1>t, <1>1, <1>2, Begun
<1>4. stored' \subseteq Object
  BY <1>2, <1>t DEF DocsTyped, Object, Keys
<1>5. DocsTyped'
  BY <1>1, <1>2, <1>3, <1>4, <1>t DEF DocsTyped
<1>6. ASSUME NEW d \in Docs \ torn' PROVE Whole(d)'
  BY <1>1, <1>2, Unused, BeginWhole
<1> QED  BY <1>5, <1>6 DEF DocInv

LEMMA DeleteVendorFilesDocs ==
    ASSUME DocInv, NEW g \in FileRequests, NEW n \in Names, DeleteVendorFiles(g, n)
    PROVE  DocInv'
<1>t. DocsTyped /\ "deleteVendor" \in FileKinds
  BY DEF DocInv, FileKinds
<1> DEFINE ds == {d \in Docs : Exists(d)}
           request == [FileRequest("deleteVendor", ds, NoDoc) EXCEPT !.name = n]
<1>1. /\ request \in FileRow /\ request.kind = "deleteVendor" /\ request.docs = ds
  <2>1. ds \in SUBSET Docs
    OBVIOUS
  <2> HIDE DEF ds
  <2> QED  BY <1>t, <2>1, Unused, NamedRequest
<1>2. Begin(g, request) /\ docs' = docs /\ stored' = stored \ {ObjectOf(d) : d \in ds}
  BY DEF DeleteVendorFiles
<1> HIDE DEF request
<1>3. /\ fileReq' \in [FileRequests -> FileRow] /\ torn' \subseteq Docs
      /\ \A h \in FileRequests : fileReq'[h] = IF h = g THEN request ELSE fileReq[h]
  BY <1>t, <1>1, <1>2, Begun
<1>4. DocsTyped'
  BY <1>1, <1>2, <1>3, <1>t DEF DocsTyped
<1>5. ASSUME NEW d \in Docs \ torn' PROVE Whole(d)'
  <2>1. d \notin ds => \A e \in ds : ObjectOf(e) # <<d, "first">>
    BY ObjectsApart DEF ObjectOf
  <2> QED  BY <1>1, <1>2, <2>1, BeginWhole
<1> QED  BY <1>4, <1>5 DEF DocInv

LEMMA InviteCommitDocs ==
    ASSUME DocInv, NEW g \in FileRequests, InviteCommit(g)
    PROVE  DocInv'
<1>t. DocsTyped /\ fileReq[g] \in FileRow
  BY DEF DocInv, DocsTyped
<1> DEFINE row == [status |-> "verified", key |-> "first"]
<1>1. End(g) /\ torn' = torn /\ fileReq[g].kind = "inviteVendor"
  BY DEF InviteCommit
<1>2. \/ /\ docs' = [d \in Docs |-> IF d \in fileReq[g].docs THEN row ELSE docs[d]]
         /\ stored' = stored
      \/ docs' = docs /\ stored' = stored \ {<<d, "first">> : d \in fileReq[g].docs}
  BY DEF InviteCommit
<1>r. row \in DocRow
  BY DEF DocRow, Keys
<1>3. /\ fileReq' \in [FileRequests -> FileRow] /\ fileReq'[g] = NoFileRequest
      /\ \A h \in FileRequests \ {g} : fileReq'[h] = fileReq[h]
  BY <1>1, <1>t, EndedFile
<1>4. DocsTyped'
  BY <1>1, <1>2, <1>3, <1>t, <1>r, Unused DEF DocsTyped
<1>5. ASSUME NEW d \in Docs \ torn PROVE Whole(d)'
  <2>1. Whole(d)
    BY DEF DocInv
  <2>2. CASE d \in fileReq[g].docs
    <3>1. <<d, "first">> \in stored /\ docs[d].status # "verified"
      BY <1>1, <2>1, <2>2 DEF Whole
    <3>2. Filed(d, docs[d])'
      BY <1>2, <2>2, <3>1 DEF Filed
    <3> QED  BY <1>1, <2>2, <3>2, EndWhole
  <2>3. CASE d \notin fileReq[g].docs
    <3>1. docs'[d] = docs[d]
      BY <1>2, <2>3
    <3>2. \A e \in fileReq[g].docs : <<e, "first">> # <<d, "first">>
      BY <2>3, ObjectsApart
    <3>3. <<d, "first">> \in stored => <<d, "first">> \in stored'
      BY <1>2, <3>2
    <3> QED  BY <1>1, <2>3, <3>1, <3>3, EndWhole
  <2> QED  BY <2>2, <2>3
<1> QED  BY <1>1, <1>4, <1>5 DEF DocInv

LEMMA DeleteVendorDocs ==
    ASSUME DocInv, NEW g \in FileRequests, DeleteVendor(g)
    PROVE  DocInv'
<1>t. DocsTyped /\ fileReq[g] \in FileRow
  BY DEF DocInv, DocsTyped
<1>1. End(g) /\ stored' = stored /\ fileReq[g].kind = "deleteVendor"
  BY DEF DeleteVendor
<1>2. \/ /\ docs' = [d \in Docs |-> NoDoc]
         /\ torn' = torn \cup {d \in Docs : \E h \in FileRequests \ {g} : d \in fileReq[h].docs}
      \/ docs' = docs /\ torn' = torn \cup fileReq[g].docs
  BY DEF DeleteVendor
<1>3. /\ fileReq' \in [FileRequests -> FileRow] /\ fileReq'[g] = NoFileRequest
      /\ \A h \in FileRequests \ {g} : fileReq'[h] = fileReq[h]
  BY <1>1, <1>t, EndedFile
<1>4. DocsTyped'
  BY <1>1, <1>2, <1>3, <1>t, Unused DEF DocsTyped, FileRow
<1>5. ASSUME NEW d \in Docs \ torn' PROVE Whole(d)'
  <2>1. d \in Docs \ torn
    BY <1>2
  <2>2. CASE docs' = [e \in Docs |-> NoDoc] /\ \A h \in FileRequests \ {g} : d \notin fileReq[h].docs
    <3>1. Filed(d, docs[d])'
      BY <2>2, Unused DEF Filed
    <3> QED  BY <1>1, <2>1, <2>2, <3>1, EndWhole
  <2>3. CASE docs' = docs /\ d \notin fileReq[g].docs
    BY <1>1, <2>1, <2>3, EndWhole
  <2> QED  BY <1>2, <2>2, <2>3
<1> QED  BY <1>4, <1>5 DEF DocInv

-----------------------------------------------------------------------------
(* The row, its copies and the decisions.                                  *)

LEMMA Nothing ==
    /\ NoWriter \in WriterRow /\ NoWriter.kind = "none"
    /\ NoOrg \in OrgRow /\ NoOrg.status = "absent" /\ NoOrg.companyName = None
    /\ NoChange \in ChangeRow
  BY DEF NoWriter, WriterRow, WriterKinds, NoOrg, OrgRow, Status, NoChange, ChangeRow

LEMMA InitIInv == Init => IInv
<1> SUFFICES ASSUME Init PROVE IInv
  OBVIOUS
<1>1. DocsTyped
  BY Unused DEF Init, DocInit, DocsTyped
<1>2. ASSUME NEW d \in Docs PROVE Whole(d)
  BY Unused DEF Init, DocInit, Whole, Filed
<1>3. OrgTyped
  <2>1. decisions \in Seq([by: {"review", "lifecycle"}, outcome: Outcomes]) /\ Len(decisions) = 0
    BY DEF Init
  <2>2. MaxDecisions \in Nat
    BY VendorsAssumption
  <2>3. Len(decisions) <= MaxDecisions
    BY <2>1, <2>2
  <2>4. /\ org \in OrgRow /\ user \in {"none", "inactive", "active", "deleted"}
        /\ writer \in [Writers -> WriterRow] /\ change \in [ChangeIds -> ChangeRow]
        /\ lastName \in Names \cup {None} /\ crossed \in BOOLEAN
    BY Nothing DEF Init
  <2> QED  BY <2>1, <2>3, <2>4 DEF OrgTyped
<1>4. Nobody /\ NameKept /\ \A w \in Writers : Copies(writer[w])
  BY Nothing DEF Init, Nobody, NameKept, Copies, Created, InFlight
<1>5. ActiveWasLetIn /\ ApprovedLast /\ OutcomeEvents /\ OutcomesMailed /\ SubmissionMailed
  BY Nothing DEF Init, ActiveWasLetIn, ApprovedLast, OutcomeEvents, OutcomesMailed, SubmissionMailed
<1> QED  BY <1>1, <1>2, <1>3, <1>4, <1>5 DEF IInv, DocInv, OrgInv

\* A request takes a copy of the row or drops it.
LEMMA CopyMoves ==
    ASSUME OrgInv, NEW w \in Writers, NEW copy \in WriterRow, Copies(copy),
           writer' = [writer EXCEPT ![w] = copy], user = "none" => copy = NoWriter,
           UNCHANGED <<org, user, change, decisions, mails, lastName, crossed>>
    PROVE  OrgInv'
<1> USE DEF OrgInv
<1>1. OrgTyped'
  BY DEF OrgTyped
<1>2. \A v \in Writers : writer'[v] = IF v = w THEN copy ELSE writer[v]
  BY DEF OrgTyped
<1>3. \A v \in Writers : Copies(writer[v])'
  BY <1>2 DEF Copies, Created
<1>4. Nobody'
  BY <1>2 DEF Nobody, InFlight, Created
<1>5. NameKept' /\ ActiveWasLetIn' /\ ApprovedLast'
  BY DEF NameKept, Created, ActiveWasLetIn, LetIn, ApprovedLast, LastApproved
<1>6. OutcomeEvents' /\ OutcomesMailed' /\ SubmissionMailed'
  BY DEF OutcomeEvents, OutcomesMailed, SubmissionMailed
<1> QED  BY <1>1, <1>3, <1>4, <1>5, <1>6

LEMMA CopiesKeep ==
    ASSUME OrgInv, NEW w \in Writers,
           \/ \E n \in Names : Company(w, n)
           \/ \E status \in {"deactivated", "approved"} : VendorLifecycle(w, status)
           \/ Address(w) \/ VendorLogo(w) \/ SaveAbort(w)
    PROVE  OrgInv'
<1>t. org \in OrgRow /\ (user = "none" => ~Created)
  BY DEF OrgInv, OrgTyped, Nobody
<1>k. {"company", "address", "logo", "lifecycle"} \subseteq WriterKinds
      /\ {"draft", "deactivated", "approved"} \subseteq Status
  BY DEF WriterKinds, Status
<1>1. ASSUME NEW n \in Names, Company(w, n) PROVE OrgInv'
  <2> DEFINE row == [org EXCEPT !.companyName = n, !.status = "draft"]
             copy == [kind |-> "company", row |-> row]
  <2>1. row \in OrgRow /\ row.companyName = n /\ row.status = "draft"
    BY <1>t, <1>k DEF OrgRow
  <2> HIDE DEF row
  <2>2. copy \in WriterRow /\ Copies(copy)
    BY <2>1, <1>k DEF WriterRow, Copies
  <2> QED  BY <1>1, <2>2, CopyMoves DEF Company, Start, MayOnboard, row
<1>2. CASE Address(w)
  <2> DEFINE row == [org EXCEPT !.address = TRUE, !.status = "draft"]
             copy == [kind |-> "address", row |-> row]
  <2>1. row \in OrgRow /\ row.companyName = org.companyName /\ row.status = "draft"
    BY <1>t, <1>k DEF OrgRow
  <2> HIDE DEF row
  <2>2. copy \in WriterRow /\ Copies(copy)
    BY <1>2, <2>1, <1>k DEF WriterRow, Copies, Address
  <2> QED  BY <1>2, <2>2, CopyMoves DEF Address, Start, MayOnboard, row
<1>3. CASE VendorLogo(w)
  <2> DEFINE copy == [kind |-> "logo", row |-> org]
  <2>1. copy \in WriterRow /\ Copies(copy)
    BY <1>3, <1>t, <1>k DEF WriterRow, Copies, VendorLogo
  <2> QED  BY <1>3, <1>t, <2>1, CopyMoves DEF VendorLogo, Start
<1>4. ASSUME NEW status \in {"deactivated", "approved"}, VendorLifecycle(w, status) PROVE OrgInv'
  <2> DEFINE row == [org EXCEPT !.status = status]
             copy == [kind |-> "lifecycle", row |-> row]
  <2>1. row \in OrgRow /\ row.companyName = org.companyName /\ row.status = status
    BY <1>t, <1>k DEF OrgRow
  <2> HIDE DEF row
  <2>2. copy \in WriterRow /\ Copies(copy)
    BY <1>4, <2>1, <1>k DEF WriterRow, Copies, VendorLifecycle
  <2> QED  BY <1>4, <1>t, <2>2, CopyMoves DEF VendorLifecycle, Start, row
<1>5. CASE SaveAbort(w)
  BY <1>5, Nothing, CopyMoves DEF SaveAbort, Copies
<1> QED  BY <1>1, <1>2, <1>3, <1>4, <1>5

\* A handler that locks the row crosses every copy there is.
LEMMA LockedCopies ==
    ASSUME OrgInv, writer' = writer, crossed' = (crossed \/ InFlight # {})
    PROVE  /\ crossed' \in BOOLEAN /\ (~crossed' => ~crossed /\ InFlight = {})
           /\ \A w \in Writers : Copies(writer[w])'
<1>1. crossed \in BOOLEAN
  BY DEF OrgInv, OrgTyped
<1>2. crossed' \in BOOLEAN /\ (~crossed' => ~crossed /\ InFlight = {})
  BY <1>1
<1>3. ASSUME NEW w \in Writers PROVE Copies(writer[w])'
  <2>1. Copies(writer[w])
    BY DEF OrgInv
  <2>2. CASE crossed'
    BY <2>1, <2>2 DEF Copies
  <2>3. CASE ~crossed'
    <3>1. writer[w] = NoWriter
      BY <1>2, <2>3 DEF InFlight
    <3> QED  BY <2>1, <3>1, Nothing DEF Copies
  <2> QED  BY <2>2, <2>3
<1> QED  BY <1>2, <1>3

\* A decision is recorded after the others.
LEMMA Recorded ==
    ASSUME OrgTyped, NEW by \in {"review", "lifecycle"}, NEW outcome \in Outcomes,
           Len(decisions) < MaxDecisions, decisions' = Decided(by, outcome)
    PROVE  /\ decisions' \in Seq([by: {"review", "lifecycle"}, outcome: Outcomes])
           /\ Len(decisions') <= MaxDecisions /\ LastApproved' = (outcome = "approved")
           /\ outcome = "approved" => LetIn'
           /\ outcome # "deactivated" /\ LetIn => LetIn'
           /\ Len(decisions') = Len(decisions) + 1
           /\ decisions'[Len(decisions')] = [by |-> by, outcome |-> outcome]
           /\ \A i \in DOMAIN decisions' :
                 i # Len(decisions') => i \in DOMAIN decisions /\ decisions'[i] = decisions[i]
<1> DEFINE d == [by |-> by, outcome |-> outcome]
           Decision == [by: {"review", "lifecycle"}, outcome: Outcomes]
<1>1. d \in Decision /\ d.outcome = outcome /\ decisions \in Seq(Decision)
  BY DEF OrgTyped
<1>2. decisions' = Append(decisions, d)
  BY DEF Decided
<1> HIDE DEF d, Decision
<1>3. /\ decisions' \in Seq(Decision) /\ Len(decisions') = Len(decisions) + 1
      /\ DOMAIN decisions' = 1..(Len(decisions) + 1) /\ DOMAIN decisions = 1..Len(decisions)
      /\ Len(decisions) \in Nat /\ decisions'[Len(decisions) + 1] = d
      /\ \A i \in 1..Len(decisions) : decisions'[i] = decisions[i]
  BY <1>1, <1>2
<1>4. Len(decisions') <= MaxDecisions
  BY <1>3, VendorsAssumption
<1>5. LastApproved' = (outcome = "approved")
  BY <1>1, <1>3 DEF LastApproved
<1>6. outcome = "approved" => LetIn'
  <2> SUFFICES ASSUME outcome = "approved" PROVE LetIn'
    OBVIOUS
  <2>1. \A j \in DOMAIN decisions' : decisions'[j].outcome = "deactivated" => j < Len(decisions) + 1
    BY <1>1, <1>3
  <2> QED  BY <1>1, <1>3, <2>1 DEF LetIn
<1>7. outcome # "deactivated" /\ LetIn => LetIn'
  <2> SUFFICES ASSUME outcome # "deactivated", LetIn PROVE LetIn'
    OBVIOUS
  <2>1. PICK i \in DOMAIN decisions :
           /\ decisions[i].outcome = "approved"
           /\ \A j \in DOMAIN decisions : decisions[j].outcome = "deactivated" => j < i
    BY DEF LetIn
  <2>2. \A j \in DOMAIN decisions' : decisions'[j].outcome = "deactivated" => j < i
    BY <1>1, <1>3, <2>1
  <2> QED  BY <1>3, <2>1, <2>2 DEF LetIn
<1>8. \A i \in DOMAIN decisions' :
         i # Len(decisions') => i \in DOMAIN decisions /\ decisions'[i] = decisions[i]
  BY <1>3
<1> QED  BY <1>3, <1>4, <1>5, <1>6, <1>7, <1>8 DEF d, Decision

LEMMA SubmissionsEnqueued ==
    ASSUME OutcomeEvents, mails' = EnqueueSubmissionOnce(mails)
    PROVE  /\ mails \subseteq mails' /\ OutcomeEvents'
           /\ \A a \in SuperAdmins :
                 \E m \in mails' : m.topic = "platform-onboarding-submitted" /\ m.event = a
<1> DEFINE first == [topic |-> "onboarding-submitted", event |-> 0, about |-> 0]
           each(a) == [topic |-> "platform-onboarding-submitted", event |-> a, about |-> 0]
<1>1. /\ mails' \subseteq mails \cup {first} \cup {each(a) : a \in SuperAdmins}
      /\ mails \subseteq mails' /\ {each(a) : a \in SuperAdmins} \subseteq mails'
  BY DEF EnqueueSubmissionOnce, Enqueue
<1>2. \A a \in SuperAdmins : each(a) \in mails' /\ each(a).event = a
         /\ each(a).topic = "platform-onboarding-submitted"
  BY <1>1
<1>3. ASSUME NEW m \in mails', m.topic \in {"approved", "rejected"} PROVE m \in mails
  BY <1>1, <1>3
<1> QED  BY <1>1, <1>2, <1>3 DEF OutcomeEvents

LEMMA OutcomeEnqueued ==
    ASSUME OutcomeEvents, NEW outcome, NEW i, mails' = EnqueueDecisionOutcomeOnce(mails, outcome, i)
    PROVE  /\ mails \subseteq mails' /\ OutcomeEvents'
           /\ outcome \in {"approved", "rejected"} =>
                 \E m \in mails' : m.topic = outcome /\ m.about = i
<1> DEFINE told == [topic |-> outcome, event |-> i, about |-> i]
           each(a) == [topic |-> "platform-vendor", event |-> <<EventOf(i), a>>, about |-> i]
           vendor == Enqueue(mails, outcome, EventOf(i), i)
<1>1. CASE outcome \notin {"approved", "rejected"}
  <2>1. mails' = mails
    BY <1>1 DEF EnqueueDecisionOutcomeOnce
  <2> QED  BY <1>1, <2>1 DEF OutcomeEvents
<1>2. CASE outcome \in {"approved", "rejected"}
  <2>1. \/ vendor = mails /\ \E m \in mails : m.topic = outcome /\ m.event = i
        \/ vendor = mails \cup {told}
    BY DEF Enqueue, EventOf
  <2>2. \E m \in vendor : m.topic = outcome /\ m.about = i
    <3>1. told.topic = outcome /\ told.about = i
      OBVIOUS
    <3>2. CASE vendor = mails
      BY <1>2, <2>1, <3>1, <3>2 DEF OutcomeEvents
    <3>3. CASE vendor = mails \cup {told}
      BY <3>1, <3>3
    <3> QED  BY <2>1, <3>2, <3>3
  <2>3. mails' = vendor \/ mails' = vendor \cup {each(a) : a \in SuperAdmins}
    BY <1>2 DEF EnqueueDecisionOutcomeOnce
  <2>4. told.event = told.about /\ \A a \in SuperAdmins : each(a).topic = "platform-vendor"
    OBVIOUS
  <2>5. mails \subseteq vendor /\ vendor \subseteq mails \cup {told}
    BY <2>1
  <2> HIDE DEF told, each, vendor
  <2>6. ASSUME NEW m \in mails', m.topic \in {"approved", "rejected"} PROVE m.event = m.about
    <3>1. m \in mails \/ m = told \/ \E a \in SuperAdmins : m = each(a)
      BY <2>3, <2>5
    <3> QED  BY <2>4, <2>6, <3>1 DEF OutcomeEvents
  <2> QED  BY <2>2, <2>3, <2>5, <2>6 DEF OutcomeEvents
<1> QED  BY <1>1, <1>2

\* The handlers of the vendor that lock the row and decide nothing.
LEMMA OnboardingKeeps ==
    ASSUME OrgInv, NEW row \in OrgRow, org' = row, row.status \in {"draft", "submitted"},
           MayOnboard, UNCHANGED <<user, writer, change, decisions>>, Crosses,
           lastName' \in Names \cup {None}, ~crossed => row.companyName = lastName',
           \/ mails' = EnqueueSubmissionOnce(mails)
           \/ mails' = mails /\ row.status = "draft"
    PROVE  OrgInv'
<1> USE DEF OrgInv
<1>1. /\ crossed' \in BOOLEAN /\ (~crossed' => ~crossed /\ InFlight = {})
      /\ \A w \in Writers : Copies(writer[w])'
  BY LockedCopies DEF Crosses
<1>2. OrgTyped'
  BY <1>1 DEF OrgTyped
<1>3. Nobody' /\ NameKept'
  BY <1>1 DEF Nobody, NameKept, MayOnboard
<1>4. ActiveWasLetIn' /\ ApprovedLast'
  BY DEF ActiveWasLetIn, LetIn, ApprovedLast
<1>5. /\ mails \subseteq mails' /\ OutcomeEvents'
      /\ row.status = "submitted" => \A a \in SuperAdmins :
            \E m \in mails' : m.topic = "platform-onboarding-submitted" /\ m.event = a
  <2>1. CASE mails' = EnqueueSubmissionOnce(mails)
    BY <2>1, SubmissionsEnqueued
  <2>2. CASE mails' = mails /\ row.status = "draft"
    BY <2>2 DEF OutcomeEvents
  <2> QED  BY <2>1, <2>2
<1>6. OutcomesMailed' /\ SubmissionMailed'
  BY <1>5 DEF OutcomesMailed, SubmissionMailed
<1> QED  BY <1>1, <1>2, <1>3, <1>4, <1>5, <1>6

LEMMA VendorKeeps ==
    ASSUME OrgInv, Administrator \/ Submit \/ \E n \in Names : Complete(n)
    PROVE  OrgInv'
<1>t. org \in OrgRow /\ lastName \in Names \cup {None} /\ (~crossed /\ Created => org.companyName = lastName)
      /\ {"draft", "submitted"} \subseteq Status
  BY DEF OrgInv, OrgTyped, NameKept, Status
<1>1. CASE Administrator
  <2> DEFINE row == [org EXCEPT !.administrator = TRUE, !.status = "draft"]
  <2>1. row \in OrgRow /\ row.status = "draft" /\ row.companyName = org.companyName
    BY <1>t DEF OrgRow
  <2>2. /\ org' = row /\ MayOnboard /\ Created /\ Crosses
        /\ UNCHANGED <<user, writer, change, decisions, mails, lastName>>
    BY <1>1 DEF Administrator
  <2> HIDE DEF row
  <2> QED  BY <1>t, <2>1, <2>2, OnboardingKeeps
<1>2. CASE Submit
  <2> DEFINE row == [org EXCEPT !.status = "submitted"]
  <2>1. row \in OrgRow /\ row.status = "submitted" /\ row.companyName = org.companyName
    BY <1>t DEF OrgRow
  <2>2. /\ org' = row /\ MayOnboard /\ Created /\ Crosses /\ mails' = EnqueueSubmissionOnce(mails)
        /\ UNCHANGED <<user, writer, change, decisions, lastName>>
    BY <1>2 DEF Submit
  <2> HIDE DEF row
  <2> QED  BY <1>t, <2>1, <2>2, OnboardingKeeps
<1>3. ASSUME NEW n \in Names, Complete(n) PROVE OrgInv'
  <2> DEFINE row == [status |-> "submitted", companyName |-> n, administrator |-> TRUE, address |-> TRUE]
  <2>1. row \in OrgRow /\ row.status = "submitted" /\ row.companyName = n
    BY <1>t DEF OrgRow
  <2>2. /\ org' = row /\ MayOnboard /\ Crosses /\ mails' = EnqueueSubmissionOnce(mails) /\ lastName' = n
        /\ UNCHANGED <<user, writer, change, decisions>>
    BY <1>3 DEF Complete
  <2> HIDE DEF row
  <2> QED  BY <2>1, <2>2, OnboardingKeeps
<1> QED  BY <1>1, <1>2, <1>3

LEMMA RegisterKeeps ==
    ASSUME OrgInv, Register
    PROVE  OrgInv'
<1> USE DEF OrgInv
<1>1. /\ user = "none" /\ ~Created /\ user' = "inactive"
      /\ UNCHANGED <<org, writer, change, decisions, mails, lastName, crossed>>
  BY DEF Register
<1>2. OrgTyped' /\ Nobody' /\ NameKept'
  BY <1>1 DEF OrgTyped, Nobody, NameKept, Created
<1>3. \A w \in Writers : Copies(writer[w])'
  BY <1>1 DEF Copies, Created
<1>4. ActiveWasLetIn' /\ ApprovedLast' /\ OutcomeEvents' /\ OutcomesMailed' /\ SubmissionMailed'
  BY <1>1 DEF ActiveWasLetIn, ApprovedLast, OutcomeEvents, OutcomesMailed, SubmissionMailed, Created
<1> QED  BY <1>2, <1>3, <1>4

-----------------------------------------------------------------------------
(* The platform.                                                           *)

LEMMA DecisionType ==
    /\ {"approved", "rejected", "changes_requested", "deactivated"} = Outcomes
    /\ Outcomes \subseteq Status
  BY DEF Outcomes, Status

LEMMA DecideKeeps ==
    ASSUME OrgInv, NEW outcome \in {"approved", "rejected", "changes_requested"},
           DecideOnboarding(outcome)
    PROVE  OrgInv'
<1> USE DEF OrgInv
<1>0. /\ org.status = "submitted" /\ Len(decisions) < MaxDecisions
      /\ org' = [org EXCEPT !.status = outcome]
      /\ user' = IF outcome = "approved" THEN Access(outcome) ELSE user
      /\ decisions' = Decided("review", outcome)
      /\ mails' = EnqueueDecisionOutcomeOnce(mails, outcome, Len(decisions'))
      /\ UNCHANGED <<writer, change, lastName>>
  BY DEF DecideOnboarding
<1>1. /\ crossed' \in BOOLEAN /\ (~crossed' => ~crossed /\ InFlight = {})
      /\ \A w \in Writers : Copies(writer[w])'
  BY LockedCopies DEF DecideOnboarding, Crosses
<1>2. /\ org' \in OrgRow /\ org'.status = outcome /\ org'.companyName = org.companyName
      /\ outcome \in Outcomes
  BY <1>0, DecisionType DEF OrgTyped, OrgRow
<1>3. /\ decisions' \in Seq([by: {"review", "lifecycle"}, outcome: Outcomes])
      /\ Len(decisions') <= MaxDecisions /\ LastApproved' = (outcome = "approved")
      /\ outcome = "approved" => LetIn'
      /\ LetIn => LetIn'
      /\ decisions'[Len(decisions')] = [by |-> "review", outcome |-> outcome]
      /\ \A i \in DOMAIN decisions' :
            i # Len(decisions') => i \in DOMAIN decisions /\ decisions'[i] = decisions[i]
  BY <1>0, <1>2, Recorded
<1>4. user' \in {"none", "inactive", "active", "deleted"}
      /\ (outcome = "approved" => user' = IF user = "deleted" THEN user ELSE "active")
      /\ (outcome # "approved" => user' = user)
  BY <1>0 DEF OrgTyped, Access
<1>5. OrgTyped'
  BY <1>0, <1>1, <1>2, <1>3, <1>4 DEF OrgTyped
<1>6. user # "none" /\ (~crossed => user # "deleted")
  BY <1>0 DEF Nobody, Created
<1>7. Nobody' /\ NameKept'
  BY <1>0, <1>1, <1>2, <1>4, <1>6 DEF Nobody, NameKept, Created
<1>8. ActiveWasLetIn'
  BY <1>3, <1>4 DEF ActiveWasLetIn
<1>9. ApprovedLast' /\ SubmissionMailed'
  BY <1>1, <1>2, <1>3, <1>4, <1>6 DEF ApprovedLast, SubmissionMailed
<1>10. /\ mails \subseteq mails' /\ OutcomeEvents'
       /\ outcome \in {"approved", "rejected"} =>
             \E m \in mails' : m.topic = outcome /\ m.about = Len(decisions')
  BY <1>0, OutcomeEnqueued
<1>11. OutcomesMailed'
  <2> SUFFICES ASSUME NEW i \in DOMAIN decisions', decisions'[i].by = "review",
                      decisions'[i].outcome # "changes_requested"
               PROVE  \E m \in mails' : m.topic = decisions'[i].outcome /\ m.about = i
    BY DEF OutcomesMailed
  <2>1. CASE i = Len(decisions')
    BY <2>1, <1>3, <1>10
  <2>2. CASE i # Len(decisions')
    BY <2>2, <1>3, <1>10 DEF OutcomesMailed
  <2> QED  BY <2>1, <2>2
<1> QED  BY <1>1, <1>5, <1>7, <1>8, <1>9, <1>10, <1>11

\* The save of an unlocked request: nothing is crossed only if it was the only one, and
\* then it writes the row as it is, but for what it changes.
LEMMA SaveKeeps ==
    ASSUME OrgInv, NEW w \in Writers, Save(w)
    PROVE  OrgInv'
<1> USE DEF OrgInv
<1> DEFINE kind == writer[w].kind
           row == writer[w].row
<1>0. /\ kind # "none" /\ (kind = "lifecycle" => Len(decisions) < MaxDecisions)
      /\ org' = row
      /\ user' = IF kind = "lifecycle" THEN Access(row.status) ELSE user
      /\ decisions' = IF kind = "lifecycle" THEN Decided("lifecycle", row.status) ELSE decisions
      /\ lastName' = IF kind = "company" THEN row.companyName ELSE lastName
      /\ crossed' = (crossed \/ InFlight # {w} \/ user = "deleted")
      /\ writer' = [writer EXCEPT ![w] = NoWriter]
      /\ UNCHANGED <<change, mails>>
  BY DEF Save
<1>1. Copies(writer[w]) /\ writer[w] \in WriterRow /\ crossed \in BOOLEAN
  BY DEF OrgTyped
<1>2. row \in OrgRow /\ kind \in {"company", "address", "logo", "lifecycle"}
  BY <1>0, <1>1 DEF WriterRow, WriterKinds
<1>3. crossed' \in BOOLEAN
      /\ (~crossed' => ~crossed /\ InFlight = {w} /\ user # "deleted")
  BY <1>0, <1>1
<1>4. user # "none"
  <2>1. w \in InFlight
    BY <1>0, Nothing DEF InFlight
  <2> QED  BY <2>1 DEF Nobody
<1>5. \A v \in Writers : writer'[v] = IF v = w THEN NoWriter ELSE writer[v]
  BY <1>0 DEF OrgTyped
<1>6. ASSUME NEW v \in Writers PROVE Copies(writer[v])'
  <2>1. CASE v = w
    BY <2>1, <1>5, Nothing DEF Copies
  <2>2. CASE v # w /\ crossed'
    BY <2>2, <1>5 DEF Copies
  <2>3. CASE v # w /\ ~crossed'
    <3>1. writer[v] = NoWriter
      BY <2>3, <1>3 DEF InFlight
    <3> QED  BY <2>3, <3>1, <1>5, Nothing DEF Copies
  <2> QED  BY <2>1, <2>2, <2>3
<1>7. kind = "lifecycle" =>
         /\ row.status \in {"approved", "deactivated"}
         /\ user' = IF user = "deleted" THEN user ELSE IF row.status = "approved" THEN "active" ELSE "inactive"
  BY <1>0, <1>1 DEF Copies, Access
<1>8. kind # "lifecycle" => user' = user /\ decisions' = decisions
  BY <1>0
<1>9. kind \in {"company", "address"} => row.status = "draft"
  BY <1>1 DEF Copies
<1>10. ~crossed' /\ kind = "logo" => row = org
  BY <1>1, <1>3 DEF Copies
<1>11. ~crossed' => row.companyName = lastName'
  <2>1. CASE kind = "company"
    BY <2>1, <1>0
  <2>2. CASE kind # "company"
    <3> SUFFICES ASSUME ~crossed' PROVE row.companyName = lastName
      BY <2>2, <1>0
    <3>1. ~crossed /\ kind \in {"address", "logo", "lifecycle"}
      BY <2>2, <1>2, <1>3
    <3> QED  BY <3>1, <1>1 DEF Copies, NameKept
  <2> QED  BY <2>1, <2>2
<1>12. kind = "lifecycle" =>
         /\ decisions' \in Seq([by: {"review", "lifecycle"}, outcome: Outcomes])
         /\ Len(decisions') <= MaxDecisions /\ LastApproved' = (row.status = "approved")
         /\ row.status = "approved" => LetIn'
         /\ decisions'[Len(decisions')] = [by |-> "lifecycle", outcome |-> row.status]
         /\ \A i \in DOMAIN decisions' :
               i # Len(decisions') => i \in DOMAIN decisions /\ decisions'[i] = decisions[i]
  <2> SUFFICES ASSUME kind = "lifecycle"
               PROVE  /\ decisions' \in Seq([by: {"review", "lifecycle"}, outcome: Outcomes])
                      /\ Len(decisions') <= MaxDecisions /\ LastApproved' = (row.status = "approved")
                      /\ row.status = "approved" => LetIn'
                      /\ decisions'[Len(decisions')] = [by |-> "lifecycle", outcome |-> row.status]
                      /\ \A i \in DOMAIN decisions' :
                            i # Len(decisions') => i \in DOMAIN decisions /\ decisions'[i] = decisions[i]
    OBVIOUS
  <2>1. row.status \in Outcomes
    BY <1>7, DecisionType
  <2>2. decisions' = Decided("lifecycle", row.status) /\ Len(decisions) < MaxDecisions
    BY <1>0
  <2> HIDE DEF row, kind
  <2> QED  BY <2>1, <2>2, Recorded
<1> HIDE DEF row, kind
<1>13. OrgTyped'
  <2>1. user' \in {"none", "inactive", "active", "deleted"}
    BY <1>7, <1>8 DEF OrgTyped
  <2>2. decisions' \in Seq([by: {"review", "lifecycle"}, outcome: Outcomes])
        /\ Len(decisions') <= MaxDecisions
    BY <1>8, <1>12 DEF OrgTyped
  <2>3. lastName' \in Names \cup {None}
    BY <1>0, <1>2 DEF OrgTyped, OrgRow
  <2>4. writer' \in [Writers -> WriterRow]
    BY <1>0, Nothing DEF OrgTyped
  <2> QED  BY <1>0, <1>2, <1>3, <2>1, <2>2, <2>3, <2>4 DEF OrgTyped
<1>14. Nobody'
  BY <1>3, <1>4, <1>7, <1>8 DEF Nobody
<1>15. NameKept'
  BY <1>0, <1>11 DEF NameKept
<1>16. ActiveWasLetIn'
  <2>1. CASE kind = "lifecycle"
    BY <2>1, <1>7, <1>12 DEF ActiveWasLetIn
  <2>2. CASE kind # "lifecycle"
    BY <2>2, <1>8 DEF ActiveWasLetIn, LetIn
  <2> QED  BY <2>1, <2>2
<1>17. ApprovedLast'
  <2> SUFFICES ASSUME row.status = "approved", ~crossed' PROVE LastApproved' /\ user' = "active"
    BY <1>0 DEF ApprovedLast
  <2>1. CASE kind = "lifecycle"
    BY <2>1, <1>3, <1>7, <1>12
  <2>2. CASE kind = "logo"
    <3>1. org.status = "approved" /\ ~crossed /\ user' = user /\ decisions' = decisions
      BY <2>2, <1>3, <1>8, <1>10
    <3> QED  BY <3>1 DEF ApprovedLast, LastApproved
  <2> QED  BY <2>1, <2>2, <1>2, <1>9
<1>18. OutcomeEvents'
  BY <1>0 DEF OutcomeEvents
<1>19. OutcomesMailed'
  <2> SUFFICES ASSUME NEW i \in DOMAIN decisions', decisions'[i].by = "review",
                      decisions'[i].outcome # "changes_requested"
               PROVE  \E m \in mails' : m.topic = decisions'[i].outcome /\ m.about = i
    BY DEF OutcomesMailed
  <2>1. i \in DOMAIN decisions /\ decisions'[i] = decisions[i]
    BY <1>8, <1>12
  <2> QED  BY <2>1, <1>0 DEF OutcomesMailed
<1>20. SubmissionMailed'
  <2> SUFFICES ASSUME row.status = "submitted", ~crossed', user' = "active", NEW a \in SuperAdmins
               PROVE  \E m \in mails' : m.topic = "platform-onboarding-submitted" /\ m.event = a
    BY <1>0 DEF SubmissionMailed
  <2>1. kind = "logo"
    BY <1>2, <1>7, <1>9
  <2> QED  BY <2>1, <1>0, <1>3, <1>8, <1>10 DEF SubmissionMailed
<1> QED  BY <1>6, <1>13, <1>14, <1>15, <1>16, <1>17, <1>18, <1>19, <1>20

\* A step that changes the requests about the name, and at most crosses.
LEMMA ChangesMove ==
    ASSUME OrgInv, change' \in [ChangeIds -> ChangeRow], crossed' \in BOOLEAN,
           crossed => crossed', UNCHANGED <<org, user, writer, decisions, mails, lastName>>
    PROVE  OrgInv'
<1> USE DEF OrgInv
<1>1. OrgTyped'
  BY DEF OrgTyped
<1>2. Nobody' /\ NameKept' /\ ActiveWasLetIn' /\ ApprovedLast'
  BY DEF Nobody, NameKept, Created, InFlight, ActiveWasLetIn, LetIn, ApprovedLast, LastApproved
<1>3. \A w \in Writers : Copies(writer[w])'
  BY DEF Copies, Created
<1>4. OutcomeEvents' /\ OutcomesMailed' /\ SubmissionMailed'
  BY DEF OutcomeEvents, OutcomesMailed, SubmissionMailed
<1> QED  BY <1>1, <1>2, <1>3, <1>4

LEMMA ChangesKeep ==
    ASSUME OrgInv, NEW c \in ChangeIds,
           \/ \E n \in Names : CreateChangeRequest(c, n)
           \/ \E committed \in BOOLEAN : CommitChangeRequest(c, committed)
           \/ \E outcome \in {"approved", "rejected"} : ReviewChangeRequest(c, outcome)
    PROVE  OrgInv'
<1>t. /\ org \in OrgRow /\ change \in [ChangeIds -> ChangeRow] /\ change[c] \in ChangeRow
      /\ org.companyName \in Names \cup {None} /\ crossed \in BOOLEAN
  BY DEF OrgInv, OrgTyped, OrgRow
<1>1. ASSUME NEW n \in Names, CreateChangeRequest(c, n) PROVE OrgInv'
  <2>1. [status |-> "checked", from |-> org.companyName, to |-> n] \in ChangeRow
    BY <1>t DEF ChangeRow
  <2>2. change' \in [ChangeIds -> ChangeRow]
    BY <1>1, <2>1, <1>t DEF CreateChangeRequest
  <2>3. crossed' = (crossed \/ ~Writable)
        /\ UNCHANGED <<org, user, writer, decisions, mails, lastName>>
    BY <1>1 DEF CreateChangeRequest
  <2>4. crossed' \in BOOLEAN /\ (crossed => crossed')
    BY <2>3
  <2> QED  BY <2>2, <2>3, <2>4, ChangesMove
<1>2. ASSUME NEW committed \in BOOLEAN, CommitChangeRequest(c, committed) PROVE OrgInv'
  <2>1. [change[c] EXCEPT !.status = "pending"] \in ChangeRow
    BY <1>t DEF ChangeRow
  <2>2. change' \in [ChangeIds -> ChangeRow]
    BY <1>2, <2>1, <1>t, Nothing DEF CommitChangeRequest
  <2> QED  BY <1>2, <2>2, <1>t, ChangesMove DEF CommitChangeRequest
<1>3. ASSUME NEW outcome \in {"approved", "rejected"}, ReviewChangeRequest(c, outcome) PROVE OrgInv'
  <2>1. [change[c] EXCEPT !.status = outcome] \in ChangeRow
    BY <1>t DEF ChangeRow
  <2>2. change' \in [ChangeIds -> ChangeRow]
    <3>1. change' = [change EXCEPT ![c] = [change[c] EXCEPT !.status = outcome]]
      BY <1>3 DEF ReviewChangeRequest
    <3> QED  BY <3>1, <2>1, <1>t
  <2>3. CASE outcome = "rejected"
    BY <1>3, <2>2, <2>3, <1>t, ChangesMove DEF ReviewChangeRequest
  <2>4. CASE outcome = "approved"
    <3> USE DEF OrgInv
    <3>0. /\ org' = [org EXCEPT !.companyName = change[c].to] /\ lastName' = change[c].to
          /\ Crosses /\ UNCHANGED <<user, writer, decisions, mails>>
      BY <1>3, <2>4 DEF ReviewChangeRequest
    <3>1. /\ crossed' \in BOOLEAN /\ (~crossed' => ~crossed /\ InFlight = {})
          /\ \A w \in Writers : Copies(writer[w])'
      BY <3>0, LockedCopies DEF Crosses
    <3>2. change[c].to \in Names \cup {None}
      BY <1>t DEF ChangeRow
    <3>3. org' \in OrgRow /\ org'.status = org.status /\ org'.companyName = lastName'
      BY <3>0, <3>2, <1>t DEF OrgRow
    <3>4. OrgTyped'
      BY <3>0, <3>1, <3>2, <3>3, <2>2 DEF OrgTyped
    <3>5. Nobody' /\ NameKept' /\ ActiveWasLetIn' /\ ApprovedLast'
      BY <3>0, <3>1, <3>3 DEF Nobody, NameKept, Created, InFlight, ActiveWasLetIn, LetIn,
                               ApprovedLast, LastApproved
    <3>6. OutcomeEvents' /\ OutcomesMailed' /\ SubmissionMailed'
      BY <3>0, <3>1, <3>3 DEF OutcomeEvents, OutcomesMailed, SubmissionMailed
    <3> QED  BY <3>1, <3>4, <3>5, <3>6
  <2> QED  BY <2>3, <2>4
<1> QED  BY <1>1, <1>2, <1>3

LEMMA InviteCommitKeeps ==
    ASSUME OrgInv, DocInv, NEW g \in FileRequests, InviteCommit(g)
    PROVE  OrgInv'
<1> USE DEF OrgInv
<1>1. UNCHANGED <<writer, change, decisions, mails, crossed>>
  BY DEF InviteCommit
<1>2. CASE UNCHANGED <<org, user, lastName>>
  BY <1>1, <1>2, ChangesMove DEF OrgTyped
<1>3. CASE ~UNCHANGED <<org, user, lastName>>
  <2> DEFINE n == fileReq[g].name
             row == [status |-> "submitted", companyName |-> n, administrator |-> TRUE, address |-> TRUE]
  <2>1. user = "none" /\ ~Created /\ org' = row /\ user' = "inactive" /\ lastName' = n
    BY <1>3 DEF InviteCommit
  <2>2. n \in Names
    BY DEF InviteCommit, DocInv, DocsTyped
  <2>3. row \in OrgRow /\ row.status = "submitted" /\ row.companyName = n
    BY <2>2 DEF OrgRow, Status
  <2> HIDE DEF row, n
  <2>4. InFlight = {}
    BY <2>1 DEF Nobody
  <2>5. \A w \in Writers : Copies(writer[w])'
    BY <1>1, <2>4, Nothing DEF InFlight, Copies
  <2>6. OrgTyped'
    BY <1>1, <2>1, <2>2, <2>3 DEF OrgTyped
  <2>7. Nobody' /\ NameKept' /\ ActiveWasLetIn' /\ ApprovedLast'
    BY <2>1, <2>3 DEF Nobody, NameKept, ActiveWasLetIn, ApprovedLast
  <2>8. OutcomeEvents' /\ OutcomesMailed' /\ SubmissionMailed'
    BY <1>1, <2>1 DEF OutcomeEvents, OutcomesMailed, SubmissionMailed
  <2> QED  BY <2>5, <2>6, <2>7, <2>8
<1> QED  BY <1>2, <1>3

LEMMA DeleteVendorKeeps ==
    ASSUME OrgInv, NEW g \in FileRequests, DeleteVendor(g)
    PROVE  OrgInv'
<1> USE DEF OrgInv
<1>1. writer' = writer
  BY DEF DeleteVendor
<1>2. CASE UNCHANGED <<org, user, change, decisions, mails, lastName, crossed>>
  BY <1>1, <1>2, ChangesMove DEF OrgTyped
<1>3. CASE ~UNCHANGED <<org, user, change, decisions, mails, lastName, crossed>>
  <2>1. /\ org' = NoOrg /\ user' = "deleted" /\ change' = [c \in ChangeIds |-> NoChange]
        /\ decisions' = <<>> /\ mails' = {} /\ lastName' = None
        /\ crossed' = (crossed \/ InFlight # {})
    BY <1>3 DEF DeleteVendor
  <2>2. /\ crossed' \in BOOLEAN /\ \A w \in Writers : Copies(writer[w])'
    BY <1>1, <2>1, LockedCopies
  <2>3. OrgTyped'
    <3>1. decisions' \in Seq([by: {"review", "lifecycle"}, outcome: Outcomes]) /\ Len(decisions') = 0
      BY <2>1
    <3>2. MaxDecisions \in Nat
      BY VendorsAssumption
    <3>3. Len(decisions') <= MaxDecisions
      BY <3>1, <3>2
    <3> QED  BY <1>1, <2>1, <2>2, <3>1, <3>3, Nothing DEF OrgTyped
  <2>4. Nobody' /\ NameKept' /\ ActiveWasLetIn' /\ ApprovedLast'
    BY <2>1, Nothing DEF Nobody, NameKept, Created, ActiveWasLetIn, ApprovedLast
  <2>5. OutcomeEvents' /\ OutcomesMailed' /\ SubmissionMailed'
    BY <2>1, Nothing DEF OutcomeEvents, OutcomesMailed, SubmissionMailed
  <2> QED  BY <2>2, <2>3, <2>4, <2>5
<1> QED  BY <1>2, <1>3

-----------------------------------------------------------------------------
LEMMA DocsUntouched == ASSUME DocInv, UNCHANGED docVars PROVE DocInv'
<1>1. DocsTyped'
  BY DEF DocInv, DocsTyped, docVars
<1>2. ASSUME NEW d \in Docs \ torn' PROVE Whole(d)'
  BY DEF DocInv, Whole, Filed, docVars
<1> QED  BY <1>1, <1>2 DEF DocInv

LEMMA OrgUntouched == ASSUME OrgInv, UNCHANGED orgVars PROVE OrgInv'
  BY ChangesMove DEF OrgInv, OrgTyped, orgVars

LEMMA StepIInv == IInv /\ [Next]_vars => IInv'
<1> SUFFICES ASSUME DocInv, OrgInv, [Next]_vars PROVE DocInv' /\ OrgInv'
  BY DEF IInv
<1>1. CASE Register
  BY <1>1, RegisterKeeps, DocsUntouched DEF Register
<1>2. CASE Administrator \/ Submit \/ \E n \in Names : Complete(n)
  BY <1>2, VendorKeeps, DocsUntouched DEF Administrator, Submit, Complete
<1>3. CASE Files
  <2>1. UNCHANGED orgVars
    BY <1>3 DEF Files
  <2>2. \/ \E d \in Docs : AddDocument(d) \/ Upload(d)
        \/ \E d \in Docs, g \in FileRequests :
              \/ CompleteDocument(g, d) \/ DeleteObject(g, d)
              \/ \E renamed \in BOOLEAN : UpdateDocument(g, d, renamed)
        \/ \E g \in FileRequests : SaveDocument(g) \/ DeleteRow(g) \/ EndEarly(g)
    BY <1>3 DEF Files, CreateVendorDocument, CompleteVendorDocument, DeleteVendorDocument
  <2> QED  BY <2>1, <2>2, OrgUntouched, DocsGrow, DocsBegin, DocsEnd
<1>4. ASSUME NEW w \in Writers,
             \/ \E n \in Names : Company(w, n)
             \/ \E status \in {"deactivated", "approved"} : VendorLifecycle(w, status)
             \/ Address(w) \/ VendorLogo(w) \/ SaveAbort(w)
      PROVE  DocInv' /\ OrgInv'
  <2>1. UNCHANGED docVars
    BY <1>4 DEF Company, VendorLifecycle, Address, VendorLogo, SaveAbort, Start
  <2> QED  BY <1>4, <2>1, CopiesKeep, DocsUntouched
<1>5. ASSUME NEW w \in Writers, Save(w) PROVE DocInv' /\ OrgInv'
  BY <1>5, SaveKeeps, DocsUntouched DEF Save
<1>6. ASSUME NEW outcome \in {"approved", "rejected", "changes_requested"}, DecideOnboarding(outcome)
      PROVE  DocInv' /\ OrgInv'
  BY <1>6, DecideKeeps, DocsUntouched DEF DecideOnboarding
<1>7. ASSUME NEW c \in ChangeIds,
             \/ \E n \in Names : CreateChangeRequest(c, n)
             \/ \E committed \in BOOLEAN : CommitChangeRequest(c, committed)
             \/ \E outcome \in {"approved", "rejected"} : ReviewChangeRequest(c, outcome)
      PROVE  DocInv' /\ OrgInv'
  <2>1. UNCHANGED docVars
    BY <1>7 DEF CreateChangeRequest, CommitChangeRequest, ReviewChangeRequest
  <2> QED  BY <1>7, <2>1, ChangesKeep, DocsUntouched
<1>8. ASSUME NEW g \in FileRequests, NEW ds \in SUBSET Docs, NEW n \in Names, InviteVendor(g, ds, n)
      PROVE  DocInv' /\ OrgInv'
  BY <1>8, InviteVendorDocs, OrgUntouched DEF InviteVendor
<1>9. ASSUME NEW g \in FileRequests, NEW n \in Names, DeleteVendorFiles(g, n)
      PROVE  DocInv' /\ OrgInv'
  BY <1>9, DeleteVendorFilesDocs, OrgUntouched DEF DeleteVendorFiles
<1>10. ASSUME NEW g \in FileRequests, InviteCommit(g) PROVE DocInv' /\ OrgInv'
  BY <1>10, InviteCommitDocs, InviteCommitKeeps
<1>11. ASSUME NEW g \in FileRequests, DeleteVendor(g) PROVE DocInv' /\ OrgInv'
  BY <1>11, DeleteVendorDocs, DeleteVendorKeeps
<1>12. CASE UNCHANGED vars
  BY <1>12, DocsUntouched, OrgUntouched DEF vars
<1> QED
  BY <1>1, <1>2, <1>3, <1>4, <1>5, <1>6, <1>7, <1>8, <1>9, <1>10, <1>11, <1>12 DEF Next

LEMMA Always == Spec => []IInv
  BY InitIInv, StepIInv, PTL DEF Spec

-----------------------------------------------------------------------------
\* The rows, the objects in the bucket and the requests in flight are well formed, for any
\* documents, names and requests.
THEOREM TypeCorrect == Spec => []TypeOK
<1>1. IInv => TypeOK
  BY DEF IInv, DocInv, DocsTyped, OrgInv, OrgTyped, TypeOK, DocTypeOK, FileRow, FileKinds,
         WriterRow, WriterKinds
<1> QED  BY <1>1, Always, PTL

\* A verified document that a reviewer or the vendor downloads has its file, however
\* uploads, completions, renames, deletions, invitations and failures are interleaved.
THEOREM DocumentsHaveTheirFiles == Spec => []VerifiedDocumentsHaveFiles
<1>1. IInv => VerifiedDocumentsHaveFiles
  <2> SUFFICES ASSUME IInv, NEW d \in Docs, docs[d].status = "verified",
                      ~Busy(d), d \notin torn, docs[d].key # "renamed"
               PROVE  ObjectOf(d) \in stored
    BY DEF VerifiedDocumentsHaveFiles, DownloadableByReviewer, DownloadableByVendor,
           ListedDocuments, IInv, DocInv, DocsTyped, DocRow
  <2>1. docs[d].key = "first" /\ Whole(d)
    BY DEF IInv, DocInv, DocsTyped, DocRow, Keys
  <2>2. Filed(d, docs[d])
    BY <2>1 DEF Whole, Busy
  <2> QED  BY <2>1, <2>2 DEF Filed, ObjectOf
<1> QED  BY <1>1, Always, PTL

\* A vendor works only after an approval that no deactivation followed, and an approved
\* organisation is one that was approved last and can work, until requests that change
\* its row overlap.
THEOREM AccessIsDecided == Spec => []AccessFollowsDecisions
<1>1. IInv => AccessFollowsDecisions
  BY DEF IInv, OrgInv, ActiveWasLetIn, ApprovedLast, AccessFollowsDecisions
<1> QED  BY <1>1, Always, PTL

\* Every approval and rejection by a reviewer has a message about itself in the outbox,
\* and a submission that waits for an active vendor has one for each super administrator.
THEOREM ReviewsAreMailed == Spec => []EveryReviewIsMailed
<1>1. IInv => EveryReviewIsMailed
  BY DEF IInv, OrgInv, OutcomesMailed, SubmissionMailed, EveryReviewIsMailed, Queue
<1> QED  BY <1>1, Always, PTL

\* The organisation has the name that was accepted last, and an approved request replaces
\* the name its vendor saw, until requests that change the row overlap.
THEOREM EditsStay == Spec => NoEditIsUndone
<1> DEFINE Kept ==
      ~crossed' =>
         /\ org'.status # "absent" => org'.companyName = lastName'
         /\ \A c \in ChangeIds :
               change[c].status = "pending" /\ change'[c].status = "approved"
               => lastName = change[c].from
<1>1. IInv /\ IInv' /\ [Next]_vars => [Kept]_vars
  <2> SUFFICES ASSUME IInv, IInv', Next, ~crossed' PROVE Kept
    OBVIOUS
  <2>1. org'.status # "absent" => org'.companyName = lastName'
    BY DEF IInv, OrgInv, NameKept, Created
  <2>2. ASSUME NEW c \in ChangeIds, change[c].status = "pending", change'[c].status = "approved"
        PROVE  lastName = change[c].from
    <3>1. PICK d \in ChangeIds, outcome \in {"approved", "rejected"} : ReviewChangeRequest(d, outcome)
      <4>1. change' # change
        BY <2>2
      <4>2. ASSUME NEW d \in ChangeIds, NEW n \in Names, CreateChangeRequest(d, n) PROVE FALSE
        <5>1. change' = [change EXCEPT ![d] =
                 [status |-> "checked", from |-> org.companyName, to |-> n]]
          BY <4>2 DEF CreateChangeRequest
        <5> QED  BY <5>1, <2>2 DEF IInv, OrgInv, OrgTyped
      <4>3. ASSUME NEW d \in ChangeIds, NEW committed \in BOOLEAN, CommitChangeRequest(d, committed)
            PROVE  FALSE
        <5>1. d # c
          BY <2>2, <4>3 DEF CommitChangeRequest
        <5>2. change'[c] = change[c]
          BY <4>3, <5>1 DEF CommitChangeRequest, IInv, OrgInv, OrgTyped
        <5> QED  BY <5>2, <2>2
      <4>4. ASSUME NEW g \in FileRequests, DeleteVendor(g) PROVE FALSE
        <5>1. change' = [d \in ChangeIds |-> NoChange]
          BY <4>1, <4>4 DEF DeleteVendor
        <5> QED  BY <5>1, <2>2 DEF NoChange
      <4> QED
        BY <4>1, <4>2, <4>3, <4>4 DEF Next, Register, Administrator, Submit, Complete, Files,
           Company, VendorLifecycle, Address, VendorLogo, Start, Save, SaveAbort,
           DecideOnboarding, InviteVendor, DeleteVendorFiles, InviteCommit, orgVars
    <3>2. change' = [change EXCEPT ![d].status = outcome] /\ Created
          /\ (outcome = "approved" => StillCaptured(d) /\ Crosses)
      BY <3>1 DEF ReviewChangeRequest
    <3>3. d = c /\ outcome = "approved"
      BY <3>2, <2>2 DEF IInv, OrgInv, OrgTyped, ChangeRow
    <3>4. ~crossed
      BY <3>2, <3>3 DEF Crosses
    <3> QED  BY <3>2, <3>3, <3>4 DEF StillCaptured, IInv, OrgInv, NameKept
  <2> QED  BY <2>1, <2>2
<1> QED  BY <1>1, Always, PTL DEF Spec, NoEditIsUndone
=============================================================================
