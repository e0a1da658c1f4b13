------------------------------ MODULE MCScans -------------------------------
(* Values for TLC.                                                           *)
EXTENDS Scans, TLC

\* What TLC leaves out: findings of a background pass beyond the first, the pass while
\* there are two other calls, cases beside browser sessions, which meet in the locks of
\* a scan only, and switches of codes beside either, which meet in the row of the code.
Bound ==
    LET sessionsBegun == \E s \in Browsers : issued[s] > 0
        reviewed == pass.running \/ \E q \in Requests : requests[q].kind = "review"
        switched == \/ rewound # {} \/ \E c \in MarketCodes : ~codes[c].live
                    \/ \E q \in Requests : requests[q].kind \in {"switch", "save"}
    IN
    /\ Cardinality(pass.findings) <= 1
    /\ pass.running => \E q \in Requests : requests[q] = Idle
    /\ sessionsBegun => opened = 0 /\ ~pass.running
    /\ ~\A q \in Requests : requests[q].kind = "review"
    /\ switched => ~sessionsBegun /\ ~reviewed /\ opened <= 1
Symmetry == Permutations(Requests)
=============================================================================
