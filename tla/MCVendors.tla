------------------------------ MODULE MCVendors ------------------------------
(* Values for TLC.                                                           *)
EXTENDS Vendors, TLC

\* What TLC leaves out.  Documents and the row meet in the count of verified
\* documents, in inviteVendor and in deleteVendor: requests that touch one document
\* alone need not overlap with requests that touch the row alone.  And a behaviour
\* that has excused one kind of property (crossed, torn) is not continued with the
\* requests that only the excused properties are about.
Bound ==
    LET documents == \E g \in FileRequests : fileReq[g].kind \in {"save", "deleteRow"}
        changes == \E c \in ChangeIds : change[c] # NoChange
        two == Cardinality({g \in FileRequests : fileReq[g] # NoFileRequest}) > 1
    IN
    /\ two => InFlight = {} /\ ~changes /\ Len(decisions) = 0
    /\ ~(documents /\ (InFlight # {} \/ changes))
    /\ torn # {} => ~crossed /\ InFlight = {} /\ ~changes
    /\ crossed => ~changes
Symmetry == Permutations(Writers) \cup Permutations(FileRequests) \cup Permutations(ChangeIds)
            \cup Permutations(Names)
=============================================================================
