------------------------------- MODULE MCFiles -------------------------------
(* Values for TLC: a product and the organization row of one vendor, two      *)
(* documents and two logos of that vendor, and an image of another vendor.       *)
EXTENDS Files, TLC

CONSTANTS v1, v2, product, organization, foreignImage, doc1, doc2, logo1, logo2

MCFileOwner == [f \in Files |-> IF f = foreignImage THEN v2 ELSE v1]
MCFileKind == [f \in Files |-> IF f = foreignImage THEN "image"
                               ELSE IF f \in {logo1, logo2} THEN "logo" ELSE "document"]
MCRowOwner == [r \in Rows |-> v1]
MCColumns == [r \in Rows |-> IF r = product THEN {"image", "document"} ELSE {"logo"}]
\* Requests on different rows have nothing in common: one row at a time.
Bound ==
    \A v, w \in Requests :
        req[v].op # "idle" /\ req[w].op # "idle" => req[v].row = req[w].row

Symmetry == Permutations({doc1, doc2}) \cup Permutations({logo1, logo2}) \cup Permutations(Requests)
=============================================================================
