--------------------------- MODULE VendorDocuments ---------------------------
(***************************************************************************)
(* The compliance documents of one vendor: rows of organization_documents  *)
(* and the objects they point to in the storage bucket.  The vendor's own  *)
(* handlers (src/onboarding/onboarding.controller.ts) and those of the     *)
(* platform (src/governance/governance.service.ts) do the same in the same *)
(* order, without a transaction or a lock.                                 *)
(*                                                                         *)
(* A row is saved whole by Repository.save, which inserts it again when it *)
(* has been deleted since it was read.  A row and its object are changed   *)
(* one after the other, and a request may end between the two (a crash, a  *)
(* refused call of the storage).                                           *)
(***************************************************************************)
EXTENDS Naturals, FiniteSets

CONSTANTS
    Docs,         \* documents; an id returns once its row and its object are gone
    FileRequests, \* requests that are in the middle of their work
    None

VARIABLES
    docs,    \* docs[d]: the row of a document
    stored,  \* the objects in the bucket
    fileReq, \* the requests in flight
    torn     \* history: documents whose row and object two requests changed at
             \* once, or that a request left half deleted

docVars == <<docs, stored, fileReq, torn>>

\* storageKey: the key the upload was signed for, or the one of a rename.
Keys == {"first", "renamed"}
DocRow == [status: {"absent", "pending_upload", "verified"}, key: Keys]
Object == Docs \X Keys
NoDoc == [status |-> "absent", key |-> "first"]
NoFileRequest == [kind |-> "none", docs |-> {}, row |-> NoDoc, name |-> None]
FileRequest(kind, ds, row) == [kind |-> kind, docs |-> ds, row |-> row, name |-> None]

Busy(d) == \E g \in FileRequests : d \in fileReq[g].docs
Exists(d) == docs[d].status # "absent"
ObjectOf(d) == <<d, docs[d].key>>
VerifiedCount == Cardinality({d \in Docs : docs[d].status = "verified"})

DocInit ==
    /\ docs = [d \in Docs |-> NoDoc]
    /\ stored = {}
    /\ fileReq = [g \in FileRequests |-> NoFileRequest]
    /\ torn = {}

\* A request starts: the documents it shares with another one are torn.
Begin(g, request) ==
    /\ fileReq[g] = NoFileRequest
    /\ fileReq' = [fileReq EXCEPT ![g] = request]
    /\ torn' = torn \cup {d \in request.docs : Busy(d)}

End(g) == fileReq' = [fileReq EXCEPT ![g] = NoFileRequest]

-----------------------------------------------------------------------------
(* The vendor.                                                             *)

\* addDocument: an upload is signed for a fresh key, then the row is saved.
AddDocument(d) ==
    /\ docs[d] = NoDoc /\ d \notin torn /\ ~Busy(d)
    /\ \A o \in stored : o[1] # d
    /\ docs' = [docs EXCEPT ![d].status = "pending_upload"]
    /\ UNCHANGED <<stored, fileReq, torn>>

\* The client uploads the file with the signed URL, which refuses to overwrite.
Upload(d) ==
    /\ docs[d].status = "pending_upload" /\ <<d, "first">> \notin stored
    /\ stored' = stored \cup {<<d, "first">>}
    /\ UNCHANGED <<docs, fileReq, torn>>

\* Mutant of Downloaded: the row is verified without a look at its object.
NeverDownloaded(d) == TRUE

\* The object is there, has the declared size and type, and is clean.
Downloaded(d) == ObjectOf(d) \in stored

\* completeDocument, up to the scan of the object.
CompleteDocument(g, d) ==
    /\ docs[d].status = "pending_upload"
    /\ Downloaded(d)
    /\ Begin(g, FileRequest("save", {d}, [docs[d] EXCEPT !.status = "verified"]))
    /\ UNCHANGED <<docs, stored>>

\* updateDocument, up to the save; a new file name brings a new storage key.
UpdateDocument(g, d, renamed) ==
    /\ Exists(d)
    /\ Begin(g, FileRequest("save", {d},
           IF renamed THEN [docs[d] EXCEPT !.key = "renamed"] ELSE docs[d]))
    /\ UNCHANGED <<docs, stored>>

\* docs.save(row) of both.
SaveDocument(g) ==
    /\ fileReq[g].kind = "save"
    /\ docs' = [d \in Docs |-> IF d \in fileReq[g].docs THEN fileReq[g].row ELSE docs[d]]
    /\ End(g)
    /\ UNCHANGED <<stored, torn>>

\* deleteDocument: first the object ...
DeleteObject(g, d) ==
    /\ Exists(d)
    /\ Begin(g, FileRequest("deleteRow", {d}, docs[d]))
    /\ stored' = stored \ {ObjectOf(d)}
    /\ UNCHANGED docs

\* ... then the row.
DeleteRow(g) ==
    /\ fileReq[g].kind = "deleteRow"
    /\ docs' = [d \in Docs |-> IF d \in fileReq[g].docs THEN NoDoc ELSE docs[d]]
    /\ End(g)
    /\ UNCHANGED <<stored, torn>>

\* A request ends between its two halves.
EndEarly(g) ==
    /\ fileReq[g].kind \in {"save", "deleteRow", "deleteVendor", "inviteVendor"}
    /\ torn' = IF fileReq[g].kind \in {"deleteRow", "deleteVendor"}
               THEN torn \cup fileReq[g].docs ELSE torn
    /\ End(g)
    /\ UNCHANGED <<docs, stored>>

-----------------------------------------------------------------------------
(* The platform, which first looks the vendor up (its absence is a 404).   *)

CreateVendorDocument(d, vendorExists) == vendorExists /\ AddDocument(d)
CompleteVendorDocument(g, d, vendorExists) == vendorExists /\ CompleteDocument(g, d)
DeleteVendorDocument(g, d, vendorExists) == vendorExists /\ DeleteObject(g, d)

\* The reviewers' and the platform's lists of the documents, uploads that were never
\* completed included.
ListedDocuments(vendorExists) == {d \in Docs : vendorExists /\ Exists(d)}

\* What a download is signed for: for a reviewer, and for the platform's
\* administration.  (No handler sets the status uploaded.)
DownloadableByReviewer(vendorExists) ==
    {d \in ListedDocuments(vendorExists) : docs[d].status \in {"verified", "uploaded"}}
DownloadableByVendor == {d \in Docs : docs[d].status = "verified"}

-----------------------------------------------------------------------------
\* The rows, the objects and the requests are well formed.
DocTypeOK ==
    /\ docs \in [Docs -> DocRow]
    /\ stored \subseteq Object
    /\ torn \subseteq Docs
    /\ \A g \in FileRequests :
          /\ fileReq[g].kind \in
                {"none", "save", "deleteRow", "deleteVendor", "inviteVendor"}
          /\ fileReq[g].docs \subseteq Docs /\ fileReq[g].row \in DocRow

\* A reviewer who opens a verified document finds its file: the object of every
\* verified row is in the bucket, whatever was added, completed and deleted.
\* Excepted are a document that is being deleted, one that requests changed at
\* once or left half deleted, and one that was renamed, whose row points to a
\* key nobody uploads to.
VerifiedDocumentsHaveFiles ==
    \A d \in DownloadableByReviewer(TRUE) \cup DownloadableByVendor :
        \/ ObjectOf(d) \in stored
        \/ Busy(d) \/ d \in torn
        \/ docs[d].key = "renamed"
=============================================================================
