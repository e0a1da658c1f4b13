------------------------------- MODULE MCTeam -------------------------------
(* Values for TLC.                                                           *)
EXTENDS Team, TLC

\* What TLC leaves out.  Changes of members and of invitations meet in the account
\* that accept creates: other requests of the two kinds need not overlap.  A
\* behaviour that has excused the properties of one kind is not continued with
\* more requests of that kind.
Bound ==
    LET teamKinds == TeamKinds \ {"accept"}
        team == \E q \in Requests : requests[q].kind \in teamKinds
        invitation == \E q \in Requests : requests[q].kind \in {"invite", "resend", "revoke"}
    IN
    /\ ~(team /\ invitation)
    /\ drifted => ~team
    /\ revived => ~invitation
Symmetry == Permutations(Invitees) \cup Permutations(Invitations) \cup Permutations(Requests)
=============================================================================
