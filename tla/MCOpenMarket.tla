---------------------------- MODULE MCOpenMarket ----------------------------
EXTENDS OpenMarket, TLC

CONSTANTS v1, own1, own2, general, b1, oldKey, newKey

MCHomeOf == [p \in Products |-> IF p = general THEN Platform ELSE v1]
MCRoundValue(version, namespace, round, right) ==
    (IF version = oldKey THEN 1 ELSE 2) * (namespace + 3 * round) + right * right

\* Two requests at a time, of one size when both make a batch, and two saves only of one
\* product.  Two products at a time; the inventory's is never created by hand.
Making == {q \in Requests : Busy(q)}
Running == {q \in Requests : requests[q] # Idle}
Present == {p \in Products : products[p].present}
FewRequests ==
    /\ Cardinality(Running) + Cardinality({u \in Claimants : dealings[u] # NoDealing}) <= 2
    /\ \A q \in Requests, r \in Running :
          requests[q].stage = "read" => requests[q].product = requests[r].product
    /\ \A q, r \in Making : requests[q].quantity = requests[r].quantity
    /\ Cardinality(Present) <= 2
    /\ ~New(own2) => ~New(own1)
    /\ origin[general] # "created"

\* A product is archived or recalled from the pending or the active state.  One product at
\* most has a name that does not say what it is for, and it is active, archived or recalled.
Settled(row) == row.status = "active" \/ (row.status = "archived" /\ row.prev = "active")
Misnamed == {p \in Present : products[p].holding # (origin[p] = "inserted")}
Inactive == {p \in Present : products[p].status # "active"}
FewStates ==
    /\ \A row \in {products[p] : p \in Products} \cup {requests[q].row : q \in Requests} :
          /\ row.prev \in {None, "pending", "active"}
          /\ row.present /\ row.holding => Settled(row)
    /\ Cardinality(Misnamed) <= 1

\* A second product, a batch or one being made only when products are settled, one at most
\* is not active, and none was deleted before a batch.
AllSettled ==
    DOMAIN batches \cup Making # {} \/ Cardinality(Present) > 1 =>
        /\ \A p \in Present : Settled(products[p])
        /\ \A q \in Requests : requests[q].row.present => Settled(requests[q].row)
        /\ Cardinality(Inactive) <= 1
        /\ DOMAIN batches \cup Making # {} => \A p \in Products : origin[p] # None => p \in Present

\* One batch, made with the old key: a second one is checked and ends the behaviour.
\* Then one product at most is misnamed or not active, and two requests are both for a
\* second batch like it, of one code.
OneBatch ==
    /\ Cardinality(DOMAIN batches) < 2
    /\ \A b \in DOMAIN batches : b = b1 /\ batches[b].version = oldKey
    /\ DOMAIN batches # {} => Cardinality(Misnamed) + Cardinality(Inactive) <= 1
    /\ DOMAIN batches # {} /\ Cardinality(Running) = 2 =>
          /\ Misnamed \cup Inactive = {} /\ Making = Running
          /\ \A q \in Making : /\ OrgOf(q) = batches[b1].org
                               /\ requests[q].quantity = 1 /\ ~requests[q].fresh

\* Once there is a claim: no more batches, one request about products at a time, one
\* namespace, two codes sent in all, and one claim at most that expires, which is before
\* any sale, or has wrong codes, and then there is no request about products.
Claimed == \E c \in Claims : claims[c] # NoClaim
Expired(claim) == claim # NoClaim /\ ~claim.live
Spoilt == {c \in Claims : claims[c].tries > 0 \/ Expired(claims[c])}
FewClaims ==
    Claimed =>
        /\ Making = {} /\ sequence = 1 /\ Misnamed = {}
        /\ Cardinality(Running) <= (IF Spoilt = {} THEN 1 ELSE 0)
        /\ \A b \in DOMAIN batches : batches[b].first = batches[b].last
        /\ Cardinality({<<c, n>> \in Claims \X (1..MaxSent) : n <= sent[c]}) <= 2
        /\ Cardinality(Spoilt) <= 1
        /\ \A c, d \in Claims : claims[c].consumed /\ d # c => ~Expired(claims[d])

Bound == FewRequests /\ FewStates /\ AllSettled /\ OneBatch /\ FewClaims
Symmetry == Permutations(Requests) \cup Permutations(Claims) \cup Permutations(Claimants)
                \cup Permutations(Keys)

=============================================================================
