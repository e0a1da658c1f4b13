----------------------------- MODULE MCShoppers -----------------------------
(* Values for TLC.                                                           *)
EXTENDS Shoppers, TLC

\* What TLC leaves out.  A message to the support touches nothing else, and need
\* not be followed by a code.  A check or a concern meets codes and sessions only
\* in the account: it need not overlap a call about those.
Bound ==
    LET requests == \E k \in Callers : calls[k].op \in Kinds \cup {"handle"}
        codes == \E k \in Callers : calls[k].op \in {"challenge", "replacing", "login", "password",
                                             "reset", "updating", "inserting"}
    IN
    /\ ~(requests /\ codes)
    /\ (\E r \in RequestIds : support[r]) => made = 0
Symmetry == Permutations(Callers)
=============================================================================
