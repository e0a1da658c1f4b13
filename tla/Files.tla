-------------------------------- MODULE Files --------------------------------
(***************************************************************************)
(* The files that product and vendor rows point at: product images,        *)
(* verification documents and vendor logos (src/products/product-image-    *)
(* storage.service.ts, src/products/product.service.ts and the operations  *)
(* for a vendor in src/governance/governance.service.ts).                  *)
(*                                                                         *)
(* The bucket and the database are two systems with no transaction between *)
(* them.  Each request reads its row without a lock, and each call of the  *)
(* bucket and each save is a step of its own; a save writes every column   *)
(* as the request read it, except the one it changes.                      *)
(***************************************************************************)
EXTENDS Naturals, FiniteSets

CONSTANTS
    Files,      \* objects of the bucket; one of another vendor also stands
                \* for any URL that is not one of the bucket's
    FileOwner,  \* the vendor in the path of a file
    FileKind,   \* the folder of a file: image, document or logo
    Rows,       \* product and organization rows
    RowOwner,   \* the vendor of a row
    Columns,    \* the columns of a row that hold a URL
    Requests,   \* requests that can be in flight at once
    Null        \* SQL NULL

Kinds == {"image", "document", "logo"}

ASSUME FilesAssumption ==
    /\ FileKind \in [Files -> Kinds]
    /\ Columns \in [Rows -> SUBSET Kinds]
    /\ Null \notin Files

VARIABLES
    file,    \* file[f]: the state of an object of the bucket
    row,     \* row[r][k]: the URL in column k of row r
    req      \* req[w]: a request between two of its awaits

filesVars == <<file, row, req>>

RowValues == [Kinds -> Files \cup {Null}]
Idle == [op |-> "idle", stage |-> "read", row |-> Null, kind |-> "image",
         entity |-> Null, new |-> Null, crossed |-> FALSE]

FilesInit ==
    /\ file = [f \in Files |-> "unused"]
    /\ row = [r \in Rows |-> [k \in Kinds |-> Null]]
    /\ req = [w \in Requests |-> Idle]

\* Mutant of Managed: the vendor in the path is not compared.
ManagedByAnyone(r, k, f) == FileKind[f] = k

\* managedPath and managedVendorLogoPath: a URL of this bucket, in the folder of
\* the vendor and of the column.
Managed(r, k, f) == FileKind[f] = k /\ FileOwner[f] = RowOwner[r]

-----------------------------------------------------------------------------
\* createUpload, createDocumentUpload and createVendorLogoUpload give a signed
\* URL for a new path, at which the client puts the file (upsert: false), or not:
\* a request can name the URL in either case.
CreateUpload(f) ==
    /\ file[f] = "unused"
    /\ file' = [file EXCEPT ![f] = "stored"]
    /\ UNCHANGED <<row, req>>

\* A request of the vendor, or of the platform for the vendor, which must exist.
Begin(w, op, r, k, new) ==
    /\ req[w].op = "idle"
    /\ k \in Columns[r]
    /\ req' = [req EXCEPT ![w] = [op |-> op, stage |-> "read", row |-> r, kind |-> k,
                                  entity |-> row[r], new |-> new, crossed |-> FALSE]]
    /\ UNCHANGED <<file, row>>

\* create, update and resubmit take any URL from the client.  (A file of another
\* folder is no more managed than a file of another vendor.)
Edit(w, r, k, f) ==
    /\ k # "logo"
    /\ FileKind[f] = k
    /\ Begin(w, "edit", r, k, f)

\* setDocument and setVendorLogo: the new URL must be a managed one.
Set(w, r, k, f) ==
    /\ k \in {"document", "logo"}
    /\ Managed(r, k, f)
    /\ Begin(w, "set", r, k, f)

\* deleteImage, deleteDocument and deleteVendorLogo.
Delete(w, r, k) ==
    /\ row[r][k] # Null
    /\ Begin(w, "delete", r, k, Null)

\* The URL the request found in its column.
Previous(w) == req[w].entity[req[w].kind]

\* The bucket removes an object; removing one that is not there is no error.
Remove(f) == file' = [file EXCEPT ![f] = IF @ = "stored" THEN "removed" ELSE @]

\* The first half of a delete.  A URL that is not managed ends the request.
DeleteRemove(w) ==
    /\ req[w].op = "delete" /\ req[w].stage = "read"
    /\ IF Managed(req[w].row, req[w].kind, Previous(w))
       THEN /\ Remove(Previous(w))
            /\ req' = [req EXCEPT ![w].stage = "removed"]
       ELSE /\ req' = [req EXCEPT ![w] = Idle]
            /\ UNCHANGED file
    /\ UNCHANGED row

\* Mutant of ReplacesAnother: setting the same URL again cleans it up.
ReplacesAny(w) == Previous(w) # Null

\* The file replaced is cleaned up when there was one, and another one.
ReplacesAnother(w) == Previous(w) \notin {Null, req[w].new}

MaySave(w) ==
    CASE req[w].op = "edit"   -> req[w].stage = "read"
      [] req[w].op = "set"    -> req[w].stage = "read"
      [] req[w].op = "delete" -> req[w].stage = "removed"
      [] OTHER                -> FALSE

\* The save, and the end of the request unless it has a file to clean up.
\* crossed: another request has saved the row since this one saved it.
Save(w) ==
    LET r == req[w].row IN
    /\ MaySave(w)
    /\ row' = [row EXCEPT ![r] = [req[w].entity EXCEPT ![req[w].kind] = req[w].new]]
    /\ req' = [v \in Requests |->
                IF v # w
                THEN [req[v] EXCEPT !.crossed = @ \/ (req[v].row = r
                                                      /\ req[v].stage = "saved")]
                ELSE IF req[w].op = "set" /\ ReplacesAnother(w)
                     THEN [req[w] EXCEPT !.stage = "saved"] ELSE Idle]
    /\ UNCHANGED file

\* The second half of a set.  setDocument ignores a failure of this call and
\* setVendorLogo reports it; neither undoes the save.
SetRemove(w) ==
    /\ req[w].op = "set" /\ req[w].stage = "saved"
    /\ IF Managed(req[w].row, req[w].kind, Previous(w)) THEN Remove(Previous(w))
                                                        ELSE UNCHANGED file
    /\ req' = [req EXCEPT ![w] = Idle]
    /\ UNCHANGED row

\* A call of the bucket or of the database fails, or the process ends.
Fail(w) ==
    /\ req[w].op # "idle"
    /\ req' = [req EXCEPT ![w] = Idle]
    /\ UNCHANGED <<file, row>>

FilesNext ==
    \/ \E f \in Files : CreateUpload(f)
    \/ \E w \in Requests, r \in Rows, k \in Kinds :
        \/ \E f \in Files : Edit(w, r, k, f) \/ Set(w, r, k, f)
        \/ Delete(w, r, k)
    \/ \E w \in Requests : DeleteRemove(w) \/ Save(w) \/ SetRemove(w) \/ Fail(w)

FilesSpec == FilesInit /\ [][FilesNext]_filesVars

-----------------------------------------------------------------------------
FilesTypeOK ==
    /\ file \in [Files -> {"unused", "stored", "removed"}]
    /\ row \in [Rows -> RowValues]
    /\ req \in [Requests ->
            [op: {"idle", "edit", "set", "delete"}, stage: {"read", "removed", "saved"},
             row: Rows \cup {Null}, kind: Kinds, entity: RowValues \cup {Null},
             new: Files \cup {Null}, crossed: BOOLEAN]]

Removed(f) == file[f] = "stored" /\ file'[f] = "removed"

\* A vendor's row can name a file of another vendor, since create and update
\* take any URL, and stale saves can bring such a name back; a file still only
\* disappears by a request on a row of its own vendor, for a column of its kind
\* (managedPath and managedVendorLogoPath check the row's URL when it is used).
FilesAreRemovedByTheirOwner ==
    [][\A f \in Files : Removed(f) =>
        \E w \in Requests :
            /\ req[w].op # "idle" /\ req'[w] # req[w]
            /\ RowOwner[req[w].row] = FileOwner[f]
            /\ req[w].kind = FileKind[f]]_filesVars

\* A replacement never takes away the file its row points at: not when it sets
\* the file that is already there, not when it read the row before another
\* replacement, and not when it fails half-way.  Only another request that saves
\* the row between the save and the clean-up can bring the replaced URL back
\* (setDocument and setVendorLogo save first and clean up afterwards).
ReplacementLeavesNoDanglingRow ==
    [][\A f \in Files, w \in Requests :
        Removed(f) /\ req[w].op = "set" /\ req[w].stage # "read"
                   /\ req'[w] # req[w] /\ Previous(w) = f
        => row'[req[w].row][req[w].kind] # f \/ req[w].crossed]_filesVars
=============================================================================
