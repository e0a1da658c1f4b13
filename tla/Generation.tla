----------------------------- MODULE Generation -----------------------------
(***************************************************************************)
(* Products and the batches of codes made for them: what a vendor and the  *)
(* platform do to a product (product.service, approvals, governance), the  *)
(* vendor's own batches, the batches the platform assigns to a vendor and  *)
(* the open-market batches it keeps (codes.service, platform-generate-     *)
(* code), and the allocation of serials in the namespace of an             *)
(* organisation.                                                           *)
(*                                                                         *)
(* The platform's batches lie on a product that is inserted active for     *)
(* them and found again by its name and its status.  Nothing else sets it  *)
(* apart: whoever has its id can edit, archive or review it and make codes *)
(* for it, and any other product can be given its name.                    *)
(*                                                                         *)
(* A batch is made in one transaction that locks the product's row and     *)
(* takes advisory locks; every other write of a product saves the whole    *)
(* row somebody read before, unlocked.  A save that finds no row inserts   *)
(* it again.                                                               *)
(*                                                                         *)
(* Left out: what a product says, its files, prices and labels, and        *)
(* whether the vendor's account is approved, which module Vendors has.     *)
(***************************************************************************)
EXTENDS Gve16, FiniteSets

CONSTANTS
    Vendors, Platform,
    Products, HomeOf,  \* product ids, and the organisation of each
    Keys,              \* idempotency keys
    Batches, Requests,
    Quantities,        \* sizes of a batch, at most 10,000
    None

Orgs == Vendors \cup {Platform}
Statuses == {"pending", "active", "information_required", "rejected", "recalled", "archived"}
Origins == {"created", "inserted"}  \* by hand, or to hold a batch

ASSUME GenerationAssumption ==
    /\ Platform \notin Vendors
    /\ None \notin UNION {Orgs, Products, Keys, Batches, Versions, Statuses, Origins}
    /\ HomeOf \in [Products -> Orgs]
    /\ Quantities \subseteq Nat \ {0}

\* prev is statusBeforeArchive, total is totalCodes; holding: it has the name of the
\* products that hold batches until a vendor picks one; present tells rows that exist.
ProductRow == [present: BOOLEAN, holding: BOOLEAN, status: Statuses,
               prev: Statuses \cup {None}, total: Nat]
NewProduct(status, holding) ==
    [present |-> TRUE, holding |-> holding, status |-> status, prev |-> None, total |-> 0]
NoProduct == [NewProduct("pending", FALSE) EXCEPT !.present = FALSE]

\* first and last are the serials of its codes.  An open batch is the inventory that
\* vendors may claim: it is available while the platform has it.
BatchRow == [org: Orgs, key: Keys, open: BOOLEAN, product: Products, version: Versions,
             ns: 1..MaxNamespace, first: 1..Capacity, last: 1..Capacity,
             status: {"allocated", "market_active"}]

\* The row of code_namespaces; ns is 0 while the organisation has none.
SpaceRow == [ns: 0..MaxNamespace, next: 1..Capacity + 1]

VARIABLES
    products,  \* products[p]
    spaces,    \* spaces[o]
    sequence,  \* namespaces taken from gve_namespace_sequence
    batches,   \* batches[b], for the batches committed so far
    holder,    \* holder[p]: whose transaction has the row of p locked
    requests,  \* requests[q]
    reviewed,  \* history: the products somebody approved
    origin     \* history: the ids in use or used, by who made the product

genVars == <<products, spaces, sequence, batches, holder, requests, reviewed, origin>>

\* A request makes a batch (checked, locked, reserved) or saves a product (read).
Stages == {"idle", "checked", "locked", "reserved", "read"}
\* fresh: it has inserted its product, for nobody else to see before the commit.
RequestRow == [stage: Stages, open: BOOLEAN, assigned: BOOLEAN, fresh: BOOLEAN,
               product: Products \cup {None}, key: Keys \cup {None},
               quantity: Quantities \cup {0}, row: ProductRow, space: SpaceRow,
               version: Versions \cup {None}, approves: BOOLEAN]
NoSpace == [ns |-> 0, next |-> 1]
Idle == [stage |-> "idle", open |-> FALSE, assigned |-> FALSE, fresh |-> FALSE,
         product |-> None, key |-> None, quantity |-> 0, row |-> NoProduct, space |-> NoSpace,
         version |-> None, approves |-> FALSE]

GenInit ==
    /\ products = [p \in Products |-> NoProduct]
    /\ spaces = [o \in Orgs |-> NoSpace]
    /\ sequence = 0
    /\ batches = <<>>
    /\ holder = [p \in Products |-> None]
    /\ requests = [q \in Requests |-> Idle]
    /\ reviewed = {}
    /\ origin = [p \in Products |-> None]

-----------------------------------------------------------------------------
(* Products.                                                               *)

\* Mutant of Restored: what comes back from the archive may be sold.
RestoredActive(row) == "active"

Restored(row) == IF row.prev \in Statuses \ {"archived"} THEN row.prev ELSE "pending"

Editable(row) == row.status \notin {"archived", "recalled", "rejected"}
Resubmittable(row) == row.status \in {"rejected", "information_required"}

When(condition, row) == IF condition THEN {row} ELSE {}

\* The rows an organisation's archive, update, restore and resubmission save over row;
\* updates and resubmissions may rename.
VendorEdits(row) ==
    When(row.status # "archived", [row EXCEPT !.prev = row.status, !.status = "archived"])
    \cup When(row.status = "archived", [row EXCEPT !.status = Restored(row), !.prev = None])
    \cup UNION {When(Editable(row), [row EXCEPT !.holding = h])
                \cup When(Resubmittable(row), [row EXCEPT !.status = "pending", !.holding = h])
                : h \in BOOLEAN}

\* remove: there will be no row.
Removals(row) == When(row.total = 0, NoProduct)

\* decideProduct takes a pending product, setProductStatus asks nothing of the row.
Reviews(row) == {[row EXCEPT !.status = s] : s \in Statuses}

Open(q, p, new, approves) ==
    /\ requests[q] = Idle
    /\ requests' = [requests EXCEPT ![q] =
                      [Idle EXCEPT !.stage = "read", !.product = p, !.row = new,
                                   !.approves = approves]]
    /\ UNCHANGED <<products, spaces, sequence, batches, holder, reviewed, origin>>

\* findById, and what is going to be saved.
VendorReads(q, p) ==
    /\ products[p].present
    /\ \E new \in VendorEdits(products[p]) \cup Removals(products[p]) : Open(q, p, new, FALSE)

ReviewerReads(q, p) ==
    /\ products[p].present
    /\ \E new \in Reviews(products[p]) : Open(q, p, new, new.status = "active")

\* Codes and batches keep their product: the DELETE fails.
Referenced(p) == \E b \in DOMAIN batches : batches[b].product = p

Save(q) ==
    LET r == requests[q] IN
    /\ r.stage = "read"
    /\ holder[r.product] = None
    /\ products' = IF r.row.present \/ ~Referenced(r.product)
                   THEN [products EXCEPT ![r.product] = r.row]
                   ELSE products
    /\ reviewed' = IF r.approves THEN reviewed \cup {r.product} ELSE reviewed
    /\ requests' = [requests EXCEPT ![q] = Idle]
    /\ UNCHANGED <<spaces, sequence, batches, holder, origin>>

\* An id nobody has had, nor is about to insert.
New(p) == origin[p] = None /\ holder[p] = None

Insert(p, row, by) ==
    /\ New(p)
    /\ products' = [products EXCEPT ![p] = row]
    /\ origin' = [origin EXCEPT ![p] = by]
    /\ UNCHANGED <<spaces, sequence, batches, holder, requests, reviewed>>

\* By the organisation, or by the platform for it, under any name.
Create(p) == \E holding \in BOOLEAN : Insert(p, NewProduct("pending", holding), "created")

\* recallProduct locks the row; it withdraws the batches too (module CodeLifecycle).
Recall(p) ==
    /\ products[p].present /\ products[p].status # "recalled"
    /\ holder[p] = None
    /\ products' = [products EXCEPT ![p].status = "recalled"]
    /\ UNCHANGED <<spaces, sequence, batches, holder, requests, reviewed, origin>>

-----------------------------------------------------------------------------
(* Batches.                                                                *)

Busy(q) == requests[q].stage \in {"checked", "locked", "reserved"}
OrgOf(q) == HomeOf[requests[q].product]
SameKey(q, org, key, open) ==
    Busy(q) /\ OrgOf(q) = org /\ requests[q].key = key /\ requests[q].open = open

\* The batch a key has made: it is looked for where the request's organisation is.
Prior(org, key, open) ==
    {b \in DOMAIN batches :
        batches[b].org = org /\ batches[b].key = key /\ batches[b].open = open}

\* A row that is inserted is locked by its transaction.
Start(q, p, key, quantity, open, assigned, fresh) ==
    /\ requests[q] = Idle
    /\ Prior(HomeOf[p], key, open) = {}   \* otherwise that batch is the answer
    /\ requests' = [requests EXCEPT ![q] =
                      [Idle EXCEPT !.stage = "checked", !.open = open, !.assigned = assigned,
                                   !.fresh = fresh, !.product = p, !.key = key,
                                   !.quantity = quantity]]
    /\ holder' = IF fresh THEN [holder EXCEPT ![p] = q] ELSE holder
    /\ UNCHANGED <<products, spaces, sequence, batches, reviewed, origin>>

\* generateBatch, for any product of one's own organisation.
GenerateOwn(q, p, key, quantity) == Start(q, p, key, quantity, FALSE, FALSE, FALSE)

\* resolveAssignedPlaceholder and resolveInventoryProduct: the product of the organisation
\* that has the name and is active, or else a new one.
HoldingProducts(org) ==
    {p \in Products : /\ HomeOf[p] = org /\ products[p].present
                      /\ products[p].holding /\ products[p].status = "active"}
Resolves(p, fresh) ==
    IF HoldingProducts(HomeOf[p]) = {} THEN New(p) /\ fresh
    ELSE p \in HoldingProducts(HomeOf[p]) /\ ~fresh

\* createBatch: one at a time for each vendor.
VendorFree(org) ==
    \A r \in Requests : ~(Busy(r) /\ requests[r].assigned /\ OrgOf(r) = org)

GenerateAssigned(q, p, key, quantity) ==
    /\ HomeOf[p] # Platform /\ VendorFree(HomeOf[p])
    /\ \E fresh \in BOOLEAN :
          Resolves(p, fresh) /\ Start(q, p, key, quantity, FALSE, TRUE, fresh)

\* createBatch again with a key that has its batch: that is the answer, but the product is
\* resolved first, and is inserted if there is none.
RepeatAssigned(p, key) ==
    /\ HomeOf[p] # Platform /\ VendorFree(HomeOf[p])
    /\ Prior(HomeOf[p], key, FALSE) # {} /\ Resolves(p, TRUE)
    /\ Insert(p, NewProduct("active", TRUE), "inserted")

\* createOpenMarketBatch: one at a time for each key.  (The inventory's own row is
\* inserted with its batch: the field open.)
GenerateOpen(q, p, key, quantity) ==
    /\ HomeOf[p] = Platform
    /\ \A r \in Requests : ~SameKey(r, Platform, key, TRUE)
    /\ \E fresh \in BOOLEAN :
          Resolves(p, fresh) /\ Start(q, p, key, quantity, TRUE, FALSE, fresh)

\* Mutant of RowFree: the product is read without a lock.
RowUnlocked(p) == TRUE

RowFree(p) == holder[p] = None

\* The product is locked and must be active.
LockProduct(q) ==
    LET p == requests[q].product  fresh == requests[q].fresh
        row == IF fresh THEN NewProduct("active", TRUE) ELSE products[p]
    IN /\ requests[q].stage = "checked"
       /\ fresh \/ RowFree(p)
       /\ IF row.present /\ row.status = "active"
          THEN /\ requests' = [requests EXCEPT ![q].stage = "locked", ![q].row = row]
               /\ holder' = [holder EXCEPT ![p] = q]
          ELSE requests' = [requests EXCEPT ![q] = Idle] /\ UNCHANGED holder
       /\ UNCHANGED <<products, spaces, sequence, batches, reviewed, origin>>

\* Mutant of SpaceFree: the lock of the namespace's row is all there is.
SpaceRowFree(q) ==
    \A r \in Requests \ {q} :
        ~(requests[r].stage = "reserved" /\ OrgOf(r) = OrgOf(q) /\ spaces[OrgOf(q)].ns # 0)

\* The advisory lock of the organisation.
SpaceFree(q) ==
    \A r \in Requests \ {q} : ~(requests[r].stage = "reserved" /\ OrgOf(r) = OrgOf(q))

\* Two rows of code_batches never have the same organisation and key: the second
\* insertion waits for the first, and fails if that is committed.
KeyFree(q) ==
    \A r \in Requests \ {q} :
        ~(requests[r].stage = "reserved" /\ SameKey(r, OrgOf(q), requests[q].key, requests[q].open))

\* The last serial of the quantity asked for, and the namespace to take it from.
LastSerial(q) == (spaces[OrgOf(q)].next + requests[q].quantity) - 1

\* The batch is inserted, then allocateCodes reads nextSerial; a namespace that is taken
\* from the sequence stays taken.  The codes are made with the version of the instance;
\* when the key is rotated, instances of two versions are running for a while.
Reserve(q) ==
    LET r == requests[q]  org == OrgOf(q)  first == spaces[org].ns = 0 IN
    /\ r.stage = "locked"
    /\ KeyFree(q) /\ SpaceFree(q)
    /\ sequence' = IF first /\ sequence < MaxNamespace /\ Prior(org, r.key, r.open) = {}
                   THEN sequence + 1 ELSE sequence
    /\ IF /\ Prior(org, r.key, r.open) = {}
          /\ first => sequence < MaxNamespace
          /\ LastSerial(q) <= Capacity
       THEN /\ \E version \in Versions :
                  requests' = [requests EXCEPT
                                 ![q].stage = "reserved", ![q].version = version,
                                 ![q].space = IF first THEN [ns |-> sequence + 1, next |-> 1]
                                              ELSE spaces[org]]
            /\ UNCHANGED holder
       ELSE /\ requests' = [requests EXCEPT ![q] = Idle]
            /\ holder' = [holder EXCEPT ![r.product] = None]
    /\ UNCHANGED <<products, spaces, batches, reviewed, origin>>

NewBatch(q) ==
    LET r == requests[q] IN
    [org |-> OrgOf(q), key |-> r.key, open |-> r.open, product |-> r.product,
     version |-> r.version, ns |-> r.space.ns, first |-> r.space.next,
     last |-> (r.space.next + r.quantity) - 1, status |-> "allocated"]

\* encryptToken as a table.
TokenOf == [version \in Versions |-> [ns \in 1..MaxNamespace |-> [serial \in 1..Capacity |->
              EncryptToken(version, ns, serial)]]]

Tokens(batch) == {TokenOf[batch.version][batch.ns][serial] : serial \in batch.first..batch.last}

\* No two codes have the same namespace and token: otherwise their insertion fails, and
\* the request with it (Fail).
TokensFree(q) ==
    \A b \in DOMAIN batches :
        batches[b].ns = NewBatch(q).ns => Tokens(batches[b]) \cap Tokens(NewBatch(q)) = {}

Commit(q) ==
    LET r == requests[q] IN
    /\ r.stage = "reserved"
    /\ TokensFree(q)
    /\ \E b \in Batches \ DOMAIN batches :
          batches' = [x \in DOMAIN batches \cup {b} |-> IF x = b THEN NewBatch(q) ELSE batches[x]]
    /\ spaces' = [spaces EXCEPT ![OrgOf(q)] =
                    [ns |-> r.space.ns, next |-> r.space.next + r.quantity]]
    /\ products' = [products EXCEPT ![r.product] =
                      [r.row EXCEPT !.total = r.row.total + r.quantity]]
    /\ origin' = IF r.fresh THEN [origin EXCEPT ![r.product] = "inserted"] ELSE origin
    /\ holder' = [holder EXCEPT ![r.product] = None]
    /\ requests' = [requests EXCEPT ![q] = Idle]
    /\ UNCHANGED <<sequence, reviewed>>

\* The transaction, or the process, fails.
Fail(q) ==
    /\ requests[q].stage # "idle"
    /\ requests' = [requests EXCEPT ![q] = Idle]
    /\ holder' = [p \in Products |-> IF holder[p] = q THEN None ELSE holder[p]]
    /\ UNCHANGED <<products, spaces, sequence, batches, reviewed, origin>>

GenNext ==
    \/ \E p \in Products : Create(p) \/ Recall(p) \/ \E key \in Keys : RepeatAssigned(p, key)
    \/ \E q \in Requests :
          \/ \E p \in Products : VendorReads(q, p) \/ ReviewerReads(q, p)
          \/ \E p \in Products, key \in Keys, quantity \in Quantities :
                \/ GenerateOwn(q, p, key, quantity)
                \/ GenerateAssigned(q, p, key, quantity)
                \/ GenerateOpen(q, p, key, quantity)
          \/ Save(q) \/ LockProduct(q) \/ Reserve(q) \/ Commit(q) \/ Fail(q)

=============================================================================
