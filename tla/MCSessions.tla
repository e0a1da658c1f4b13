------------------------------ MODULE MCSessions ------------------------------
(* Values for TLC: the requests and the seconds are interchangeable.         *)
EXTENDS SignIn, TLC

\* Before the registration, two one-time codes at most.  After it, which one code and
\* no wrong guess have led to, either all that happens to sessions, and to one reset
\* code while the account is active and its token refreshed at most once, or all that
\* happens to two more codes and to factors while at most one request signs in.
Registering == ~account /\ Len(code) <= 2
Registered == account /\ (\A v \in Verifiers : work[v].code # 1)
                      /\ wrong[1] = 0 /\ \A c \in DOMAIN code \ {1} : code[c].kind # "otp"
SessionsMove ==
    /\ factors = <<>> /\ Len(code) <= 2 /\ \A v \in Verifiers : edit[v] = NoEdit
    /\ Len(code) = 2 => active /\ \A s \in SessionIds : row[s].rotation <= 1
    /\ \A c \in DOMAIN code : wrong[c] = 0 /\ code[c].state \in {"open", "consumed"}
CodesMove ==
    /\ Cardinality({q \in Requests : req[q].stage # "idle"}) <= 1
    /\ \A q \in Requests : req[q].kind \in {"none", "login"}
    /\ \A s \in SessionIds : Cardinality(issued[s]) <= 1 /\ row[s].rotation = 0
    /\ Len(code) + Len(factors) <= 4
    /\ Cardinality({v \in Verifiers : edit[v] # NoEdit}) <= 1
    /\ (\E v \in Verifiers : edit[v] # NoEdit) => \A q \in Requests : req[q].stage = "idle"
Bound == Registering \/ (Registered /\ (SessionsMove \/ CodesMove))

Symmetry == Permutations(Requests) \cup Permutations(Stamps)
=============================================================================
