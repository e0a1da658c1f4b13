-------------------------- MODULE MCActivationLimits --------------------------
(* Values for TLC: two vendors with a batch each, behind one address, and    *)
(* hashed keys of which neither all vendors nor all sources come first.      *)
EXTENDS ActivationLimits

CONSTANTS v1, v2, s1, b1, b2

MCOwner == [b \in Batches |-> IF b = b1 THEN v1 ELSE v2]
MCRank == [k \in Scopes |-> CASE k = v1 -> 1 [] k = s1 -> 2
                              [] k = v2 -> 3 [] OTHER -> 4]

\* After is the filter of the code for every list that is in the order of time.
InOrder == UNION {{times \in [1..n -> 0..3] : \A i \in 2..n : times[i - 1] <= times[i]}
                 : n \in 0..4}

ASSUME AfterFilters ==
    \A times \in InOrder, start \in -1..4 :
        After(times, start) = SelectSeq(times, LAMBDA time : time > start)
=============================================================================
