------------------------------- MODULE MCLots --------------------------------
(* Values for TLC: two batches of one unit, one of each activation mode, that *)
(* can be bound to the same lot with different dates.                        *)
EXTENDS CodeLifecycle, TLC

CONSTANTS b1, b2, c1, c2, own, placeholder, d1, d2

MCBatchOf == [c \in Codes |-> IF c = c1 THEN b1 ELSE b2]
MCMode == [b \in Batches |-> IF b = b1 THEN "controlled_physical_print"
                                       ELSE "self_print_digital"]
Symmetry == Permutations({d1, d2})
=============================================================================
