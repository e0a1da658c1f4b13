----------------------------- MODULE OpenMarket -----------------------------
(***************************************************************************)
(* Open-market batches: inventory of the platform that any vendor may make *)
(* its own with the code printed on it.  The vendor looks the batch up,    *)
(* links a product, which sends a code by e-mail, and confirms the code;   *)
(* then batch and codes change hands (codes.service).                      *)
(*                                                                         *)
(* Whoever links or mistypes a code saves the whole claim it has read.     *)
(* The confirmation locks claim, inventory, product and batch; that they   *)
(* are locked one by one shows nobody anything, for each is read as it is  *)
(* when the last is held.                                                  *)
(*                                                                         *)
(* Left out: the lot the codes are bound to (module CodeLifecycle).        *)
(***************************************************************************)
EXTENDS Generation

CONSTANTS
    Claims, Claimants,  \* rows of open_market_claims, and requests about them
    MaxTries,           \* wrong codes before a claim is refused: 5
    MaxSent             \* bound: codes sent for a claim

ASSUME OpenMarketAssumption ==
    /\ {MaxTries, MaxSent} \subseteq Nat
    /\ Requests \cap Claimants = {} /\ None \notin Requests \cup Claimants

VARIABLES
    claims,    \* claims[c]
    sent,      \* sent[c]: codes sent for c; the n-th is the number n
    dealings   \* dealings[u]: a request about a claim

vars == <<products, spaces, sequence, batches, holder, requests, reviewed, origin, claims, sent,
          dealings>>

ClaimRow == [vendor: Vendors \cup {None}, batch: Batches \cup {None},
             product: Products \cup {None}, otp: 0..MaxSent, tries: 0..MaxTries,
             live: BOOLEAN, consumed: BOOLEAN]
NoClaim == [vendor |-> None, batch |-> None, product |-> None, otp |-> 0, tries |-> 0,
            live |-> FALSE, consumed |-> FALSE]

\* claim is the claim as it was read and is going to be saved; row and old are the locked
\* product, and the product the batch leaves.
DealingRow == [stage: {"idle", "linking", "wrong", "checked", "bound"}, c: Claims \cup {None},
               claim: ClaimRow, row: ProductRow, old: ProductRow]
NoDealing == [stage |-> "idle", c |-> None, claim |-> NoClaim, row |-> NoProduct,
              old |-> NoProduct]

Init ==
    /\ GenInit
    /\ claims = [c \in Claims |-> NoClaim]
    /\ sent = [c \in Claims |-> 0]
    /\ dealings = [u \in Claimants |-> NoDealing]

Available(b) == b \in DOMAIN batches /\ batches[b].open /\ batches[b].org = Platform

\* openMarketLookup.  The batch was available when it was read.
Lookup(c, vendor, b) ==
    /\ claims[c] = NoClaim
    /\ b \in DOMAIN batches /\ batches[b].open
    /\ claims' = [claims EXCEPT ![c] = [NoClaim EXCEPT !.vendor = vendor, !.batch = b,
                                                       !.live = TRUE]]
    /\ UNCHANGED <<genVars, sent, dealings>>

Expire(c) ==
    /\ claims[c].live
    /\ claims' = [claims EXCEPT ![c].live = FALSE]
    /\ UNCHANGED <<genVars, sent, dealings>>

Deal(u, stage, c, claim) ==
    /\ dealings[u] = NoDealing
    /\ dealings' = [dealings EXCEPT ![u] = [NoDealing EXCEPT !.stage = stage, !.c = c,
                                                             !.claim = claim]]
    /\ UNCHANGED <<genVars, claims, sent>>

\* openMarketLink.  A claim that has expired can still be linked again.
LinkReads(u, c, p) ==
    /\ claims[c].vendor = HomeOf[p] /\ ~claims[c].consumed
    /\ claims[c].live \/ claims[c].otp # 0
    /\ products[p].present /\ products[p].status = "active"
    /\ Available(claims[c].batch)
    /\ Deal(u, "linking", c, [claims[c] EXCEPT !.product = p, !.tries = 0, !.live = TRUE])

\* The claim is locked by a confirmation that is going to commit.
ClaimFree(c) == \A u \in Claimants : ~(dealings[u].stage = "bound" /\ dealings[u].c = c)

SavesClaim(u, claim) ==
    /\ ClaimFree(dealings[u].c)
    /\ claims' = [claims EXCEPT ![dealings[u].c] = claim]
    /\ dealings' = [dealings EXCEPT ![u] = NoDealing]
    /\ UNCHANGED genVars

LinkSaves(u) ==
    LET c == dealings[u].c IN
    /\ dealings[u].stage = "linking" /\ sent[c] < MaxSent
    /\ sent' = [sent EXCEPT ![c] = sent[c] + 1]
    /\ SavesClaim(u, [dealings[u].claim EXCEPT !.otp = sent[c] + 1])

\* openMarketVerify, with some code that was sent, or none (0).
VerifyReads(u, c, code) ==
    /\ ~claims[c].consumed /\ claims[c].product # None /\ claims[c].otp # 0
    /\ claims[c].live /\ claims[c].tries < MaxTries
    /\ code <= sent[c]
    /\ Deal(u, IF code = claims[c].otp THEN "checked" ELSE "wrong", c,
            [claims[c] EXCEPT !.tries = claims[c].tries + 1])

VerifyFails(u) ==
    /\ dealings[u].stage = "wrong"
    /\ SavesClaim(u, dealings[u].claim)
    /\ UNCHANGED sent

\* Mutant of RowsFree: nothing is locked.
NoLocks(c, b, p) == TRUE

\* The claim, the inventory with its batch, and the product.
RowsFree(c, b, p) ==
    /\ ClaimFree(c) /\ RowFree(p)
    /\ \A u \in Claimants : ~(dealings[u].stage = "bound" /\ claims[dealings[u].c].batch = b)

\* The claim is read again, with the product it names by now.
VerifyLocks(u) ==
    LET c == dealings[u].c  claim == claims[c]  b == claim.batch  p == claim.product IN
    /\ dealings[u].stage = "checked"
    /\ RowsFree(c, b, p)
    /\ IF /\ ~claim.consumed
          /\ Available(b) /\ batches[b].status = "allocated"
          /\ products[p].present /\ products[p].status = "active"
       THEN /\ dealings' = [dealings EXCEPT ![u].stage = "bound", ![u].row = products[p],
                                            ![u].old = products[batches[b].product],
                                            ![u].claim = [claim EXCEPT
                                                 !.tries = dealings[u].claim.tries,
                                                 !.consumed = TRUE]]
            /\ holder' = [holder EXCEPT ![p] = u]
       ELSE dealings' = [dealings EXCEPT ![u] = NoDealing] /\ UNCHANGED holder
    /\ UNCHANGED <<products, spaces, sequence, batches, requests, reviewed, origin, claims, sent>>

Minus(m, n) == IF m < n THEN 0 ELSE m - n

\* The product the batch leaves was read unlocked; the save waits for who has it locked.
VerifyCommits(u) ==
    LET d == dealings[u]  b == d.claim.batch  p == d.claim.product
        old == batches[b].product
        quantity == (batches[b].last - batches[b].first) + 1
    IN /\ d.stage = "bound"
       /\ holder[old] \in {None, u}
       /\ batches' = [batches EXCEPT ![b] = [batches[b] EXCEPT
                        !.org = d.claim.vendor, !.product = p, !.status = "market_active"]]
       /\ products' = [products EXCEPT
                         ![p] = [d.row EXCEPT !.total = d.row.total + quantity],
                         ![old] = IF d.old.present
                                  THEN [d.old EXCEPT !.total = Minus(d.old.total, quantity)]
                                  ELSE products[old]]
       /\ claims' = [claims EXCEPT ![d.c] = d.claim]
       /\ holder' = [holder EXCEPT ![p] = None]
       /\ dealings' = [dealings EXCEPT ![u] = NoDealing]
       /\ UNCHANGED <<spaces, sequence, requests, reviewed, origin, sent>>

DealFails(u) ==
    /\ dealings[u].stage # "idle"
    /\ dealings' = [dealings EXCEPT ![u] = NoDealing]
    /\ holder' = [p \in Products |-> IF holder[p] = u THEN None ELSE holder[p]]
    /\ UNCHANGED <<products, spaces, sequence, batches, requests, reviewed, origin, claims, sent>>

Next ==
    \/ GenNext /\ UNCHANGED <<claims, sent, dealings>>
    \/ \E c \in Claims :
          \/ \E vendor \in Vendors, b \in Batches : Lookup(c, vendor, b)
          \/ Expire(c)
          \/ \E u \in Claimants :
                \/ \E p \in Products : LinkReads(u, c, p)
                \/ \E code \in 0..MaxSent : VerifyReads(u, c, code)
    \/ \E u \in Claimants :
          \/ LinkSaves(u) \/ VerifyFails(u) \/ VerifyLocks(u) \/ VerifyCommits(u)
          \/ DealFails(u)

Spec == Init /\ [][Next]_vars

-----------------------------------------------------------------------------

TypeOK ==
    /\ products \in [Products -> ProductRow]
    /\ spaces \in [Orgs -> SpaceRow]
    /\ sequence \in 0..MaxNamespace
    /\ DOMAIN batches \subseteq Batches
    /\ \A b \in DOMAIN batches : batches[b] \in BatchRow
    /\ holder \in [Products -> Requests \cup Claimants \cup {None}]
    /\ requests \in [Requests -> RequestRow]
    /\ reviewed \subseteq Products
    /\ origin \in [Products -> Origins \cup {None}]
    /\ claims \in [Claims -> ClaimRow]
    /\ sent \in [Claims -> 0..MaxSent]
    /\ dealings \in [Claimants -> DealingRow]

\* The serials of the batches made, and of those being made.
Allocations == {[ns |-> batches[b].ns, first |-> batches[b].first, last |-> batches[b].last,
                 by |-> b] : b \in DOMAIN batches}
    \cup {[ns |-> NewBatch(q).ns, first |-> NewBatch(q).first, last |-> NewBatch(q).last,
           by |-> q] : q \in {r \in Requests : requests[r].stage = "reserved"}}

Reserved == {q \in Requests : requests[q].stage = "reserved"}

\* No serial of a namespace is given out twice, not even to a transaction that has yet to
\* commit, an organisation is never about to have two namespaces and two organisations
\* never share one (allocateCodes, codes.service.ts:512-518).
AllocationsNeverCollide ==
    /\ \A a, z \in Allocations : a.ns = z.ns /\ a.by # z.by => a.last < z.first \/ z.last < a.first
    /\ \A q, r \in Reserved : (OrgOf(q) = OrgOf(r)) = (requests[q].space.ns = requests[r].space.ns)

\* An instance that has the key a code was made with finds the code's serial in its token,
\* before a rotation of the key and after it (encryptToken and decryptToken,
\* cryptographic-code-generator.service.ts:74-96, 122-125).
SerialOf == [version \in Versions |-> [ns \in 1..MaxNamespace |-> [token \in 0..Capacity |->
               DecryptToken(version, ns, token)]]]

TokensReadBack ==
    \A b \in DOMAIN batches : \A serial \in batches[b].first..batches[b].last :
        LET v == batches[b].version  ns == batches[b].ns IN
        SerialOf[v][ns][TokenOf[v][ns][serial]] = serial

\* The unique index on namespace and token (migration 1725400000000:43) refuses a batch
\* only for codes made with another key: tokens of one version never meet, whoever
\* generates at the same time.  After a rotation they may, and the organisation's next
\* serials are then refused for as long as that key is in use.
OnlyRotationsRefuse ==
    \A q \in Reserved, b \in DOMAIN batches :
        batches[b].ns = NewBatch(q).ns /\ batches[b].version = NewBatch(q).version =>
            Tokens(batches[b]) \cap Tokens(NewBatch(q)) = {}

\* Whatever overlapping edits, renamings, archiving, reviews and late saves do, a product
\* is only active when somebody of the platform approved it, unless it was inserted active
\* to hold batches, in whosever hands that one comes (product.service.ts:15-31,
\* approval.controller.ts:183-217, platform-generate-code.service.ts:171-194, 294-313).
ActiveProductsWereReviewed ==
    \A p \in Products :
        products[p].present /\ products[p].status = "active" =>
            p \in reviewed \/ origin[p] = "inserted"

\* A batch is made for, or handed to, a product that is active at that moment, not one
\* that was withdrawn while the request was on its way (codes.service.ts:75-77, 307-317).
CodesComeFromActiveProducts ==
    [][\A b \in DOMAIN batches' :
          b \notin DOMAIN batches \/ batches[b] # batches'[b] =>
              /\ products'[batches'[b].product].status = "active"
              /\ products[batches'[b].product].present =>
                     products[batches'[b].product].status = "active"]_vars

\* Of the claims on a batch one wins, and what it won stays with it, whatever the other
\* claims and requests do (openMarketVerify, codes.service.ts:290-391).
InventoryIsSoldOnce ==
    [][/\ \A b \in DOMAIN batches :
             batches[b].status = "market_active" =>
                 b \in DOMAIN batches' /\ batches'[b] = batches[b]
       /\ \A c \in Claims :
             ~claims[c].consumed /\ claims'[c].consumed => Available(claims[c].batch)]_vars

=============================================================================
