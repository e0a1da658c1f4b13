--------------------------- MODULE MCCodeLifecycle ---------------------------
(* Values for TLC: one vendor with one product of its own and a placeholder, *)
(* one controlled batch of two units.                                        *)
EXTENDS ManagedCodes, TLC

CONSTANTS b1, c1, c2, own, placeholder

MCBatchOf == [c \in Codes |-> b1]
MCMode == [b \in Batches |-> "controlled_physical_print"]
Symmetry == Permutations({c1, c2})
=============================================================================
