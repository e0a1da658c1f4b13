---------------------------- MODULE SessionsProofs ----------------------------
(***************************************************************************)
(* Proofs about Sessions, for any number of sessions, requests, seconds,   *)
(* rotations and resets.  IInv adds to the type invariant what a request   *)
(* in flight holds: a refresh or a sign-in holds a token of its own, and a *)
(* replay or a revocation holds a row that it has already revoked.  That   *)
(* is why no save but one of a refresh or a sign-in can undo a sign-out.   *)
(* OrderInv, in the second part, is about the order of rotations: what was *)
(* accepted is older than what a live row holds, and no stale save makes   *)
(* a row newer.                                                            *)
(*                                                                         *)
(* The third part is about SignIn, without the bounds that TLC explores it *)
(* under.  SInv says of a code that was not crossed that its row stores    *)
(* the number of answers given for it, and that the one request that may   *)
(* be checking it holds the row as it is.  What is proved of Sessions is   *)
(* carried over: signing in takes no step that Sessions does not.          *)
(***************************************************************************)
EXTENDS SignIn, SequenceTheorems, TLAPS

\* What a request in flight holds of its session.
Holds(r) ==
    /\ r.stage \in {"user", "save", "update"} => r.session \in SessionIds /\ r.kind # "none"
    /\ r.stage \in {"idle", "insert"} => r.session = None /\ r.kind = "none"
    /\ r.stage = "user" => r.kind = "refresh"
    /\ r.kind \in {"refresh", "login"} => r.row.hash \in Tokens /\ Current(r.row.hash, r.row)
    /\ r.kind = "refresh" => r.token \in Tokens
    /\ r.kind \in {"replay", "revoke"} => r.row.state = "revoked"

IInv == TypeOK /\ \A q \in Requests : Holds(req[q])

ReqRecord ==
    [kind: {"none", "refresh", "replay", "login", "revoke"},
     stage: {"idle", "user", "insert", "save", "update"},
     session: SessionIds \cup {None}, row: Row,
     token: Tokens \cup {None}, diff: SUBSET Columns]

-----------------------------------------------------------------------------
(* Rows and requests are records of their types.                           *)

\* A request that has ended, and a row that does not exist, are well formed.
LEMMA IdleIsTyped == NoRow \in Row /\ Idle \in ReqRecord
<1>1. 0 \in 0..MaxRotation
  BY SessionsAssumption
<1> QED
  BY <1>1 DEF NoRow, Idle, Row, ReqRecord

\* So is a row that a save has overwritten in part.
LEMMA OverwrittenIsTyped ==
    ASSUME NEW r \in Row, NEW mine \in Row, NEW diff
    PROVE  Overwritten(r, mine, diff) \in Row
BY DEF Row, Overwritten

\* A rotated row holds a token of its own rotation.
LEMMA RotatedIsTyped ==
    ASSUME NEW r \in Row, NEW stamp \in Stamps, r.rotation < MaxRotation
    PROVE  /\ Rotated(r, stamp) \in Row
           /\ Rotated(r, stamp).hash \in Tokens
           /\ Current(Rotated(r, stamp).hash, Rotated(r, stamp))
<1>1. r.rotation + 1 \in 0..MaxRotation
  BY SessionsAssumption DEF Row
<1>2. [rotation |-> r.rotation + 1, stamp |-> stamp] \in Tokens
  BY <1>1 DEF Tokens
<1> QED
  BY <1>1, <1>2 DEF Row, Rotated, Current

\* The requests and what they hold, in one formula, and the rest of TypeOK.
ReqsOK == req \in [Requests -> ReqRecord] /\ \A q \in Requests : Holds(req[q])

RestOK ==
    /\ row \in [SessionIds -> Row]
    /\ active \in BOOLEAN
    /\ resets \in 0..MaxResets
    /\ issued \in [SessionIds -> SUBSET Tokens]
    /\ spent \in [SessionIds -> [Tokens -> Nat]]
    /\ overlapped \subseteq SessionIds

\* These two formulas are the invariant.
LEMMA Parts == IInv <=> ReqsOK /\ RestOK
BY DEF IInv, TypeOK, ReqsOK, RestOK, ReqRecord, Holds

\* A step that replaces one request by one that is well formed keeps ReqsOK.
LEMMA OneRequest ==
    ASSUME ReqsOK, NEW q \in Requests, NEW r \in ReqRecord, Holds(r),
           req' = [req EXCEPT ![q] = r]
    PROVE  ReqsOK'
<1>1. req' \in [Requests -> ReqRecord]
  BY DEF ReqsOK
<1>2. \A p \in Requests : req'[p] = IF p = q THEN r ELSE req[p]
  BY DEF ReqsOK
<1>3. \A p \in Requests : Holds(req'[p])
  BY <1>2 DEF ReqsOK
<1>4. \A p \in Requests : Holds(req[p])'
  BY <1>3 DEF Holds, Current
<1> QED
  BY <1>1, <1>4 DEF ReqsOK

\* A request that has ended holds nothing.
LEMMA IdleHolds == Holds(Idle)
BY DEF Holds, Idle
-----------------------------------------------------------------------------
(* The invariant.                                                          *)

\* Each request goes on holding what it should.
LEMMA ReqsStep == IInv /\ [Next]_vars => ReqsOK'
<1> SUFFICES ASSUME IInv, [Next]_vars PROVE ReqsOK'
  OBVIOUS
<1>0. ReqsOK /\ RestOK
  BY Parts
<1>a. \A q \in Requests : req[q] \in ReqRecord /\ Holds(req[q]) /\ req[q].row \in Row
  BY <1>0 DEF ReqsOK, ReqRecord
<1>b. None \notin SessionIds
  BY SessionsAssumption
<1>1. ASSUME NEW q \in Requests, SaveDiff(q) PROVE ReqsOK'
  <2> DEFINE d == {f \in Columns :
                     \/ f = "revokedAt" /\ "revoked" \in {req[q].row.state, row[req[q].session].state}
                     \/ f = "rotation" /\ req[q].row.rotation # row[req[q].session].rotation
                     \/ f = "refreshTokenHash" /\ req[q].row.hash # row[req[q].session].hash}
             r == [req[q] EXCEPT !.stage = "update", !.diff = d]
  <2>1. d \subseteq Columns
    OBVIOUS
  <2>2. req' = [req EXCEPT ![q] = r]
    BY <1>0, <1>1 DEF SaveDiff, ReqsOK, ReqRecord
  <2> HIDE DEF d
  <2>3. r \in ReqRecord /\ Holds(r)
    BY <1>a, <1>1, <2>1 DEF ReqRecord, Holds, SaveDiff
  <2> HIDE DEF r
  <2> QED
    BY <1>0, <2>2, <2>3, OneRequest
<1>2. ASSUME NEW q \in Requests, req' = [req EXCEPT ![q] = Idle] PROVE ReqsOK'
  BY <1>0, <1>2, IdleIsTyped, IdleHolds, OneRequest
<1>3. ASSUME NEW q \in Requests, NEW s \in SessionIds, NEW t \in Tokens, RefreshRead(q, s, t)
      PROVE  ReqsOK'
  <2> DEFINE r == [kind |-> IF Current(t, row[s]) THEN "refresh" ELSE "replay",
                   stage |-> IF Current(t, row[s]) THEN "user" ELSE "save",
                   session |-> s, token |-> t, diff |-> {},
                   row |-> IF Current(t, row[s]) THEN row[s]
                           ELSE [row[s] EXCEPT !.state = "revoked"]]
  <2>1. row[s] \in Row /\ [row[s] EXCEPT !.state = "revoked"] \in Row
    BY <1>0 DEF RestOK, Row
  <2>2. [row[s] EXCEPT !.state = "revoked"].state = "revoked"
    BY <2>1 DEF Row
  <2>3. r \in ReqRecord /\ Holds(r)
    <3>1. CASE Current(t, row[s])
      BY <2>1, <3>1 DEF ReqRecord, Holds, Current
    <3>2. CASE ~Current(t, row[s])
      BY <2>1, <2>2, <3>2 DEF ReqRecord, Holds
    <3> QED
      BY <3>1, <3>2
  <2>4. req' = [req EXCEPT ![q] = r]
    BY <1>3 DEF RefreshRead
  <2> HIDE DEF r
  <2> QED
    BY <1>0, <2>3, <2>4, OneRequest
<1>4. ASSUME NEW q \in Requests, NEW stamp \in Stamps, RefreshUser(q, stamp) PROVE ReqsOK'
  <2> DEFINE mine == Rotated(req[q].row, stamp)
             r == [req[q] EXCEPT !.stage = "save", !.row = mine]
  <2>1. mine \in Row /\ mine.hash \in Tokens /\ Current(mine.hash, mine)
    BY <1>a, <1>4, RotatedIsTyped DEF RefreshUser
  <2> HIDE DEF mine
  <2>2. req[q].kind = "refresh"
    BY <1>a, <1>4 DEF Holds, RefreshUser
  <2>3. r \in ReqRecord /\ Holds(r)
    BY <1>a, <1>4, <2>1, <2>2 DEF ReqRecord, Holds, RefreshUser, Current
  <2>4. req' = [req EXCEPT ![q] = r] \/ req' = [req EXCEPT ![q] = Idle]
    BY <1>0, <1>4 DEF RefreshUser, mine, ReqsOK, ReqRecord
  <2> HIDE DEF r
  <2> QED
    BY <1>0, <1>2, <2>3, <2>4, OneRequest
<1>5. ASSUME NEW q \in Requests, LoginRead(q) PROVE ReqsOK'
  <2> DEFINE r == [Idle EXCEPT !.stage = "insert"]
  <2>1. r \in ReqRecord /\ Holds(r)
    BY IdleIsTyped DEF ReqRecord, Holds, Idle
  <2> QED
    BY <1>0, <1>5, <2>1, OneRequest DEF LoginRead
<1>6. ASSUME NEW q \in Requests, NEW s \in SessionIds, NEW stamp \in Stamps,
             LoginInsert(q, s, stamp)
      PROVE  ReqsOK'
  <2> DEFINE mine == [state |-> "live", rotation |-> 0,
                      hash |-> [rotation |-> 0, stamp |-> stamp]]
             r == [kind |-> "login", stage |-> "save", session |-> s, token |-> None,
                   diff |-> {}, row |-> mine]
  <2>1. 0 \in 0..MaxRotation
    BY SessionsAssumption
  <2>2. mine \in Row /\ mine.hash \in Tokens /\ Current(mine.hash, mine)
    BY <2>1 DEF Row, Tokens, Current
  <2>3. req' = [req EXCEPT ![q] = r]
    BY <1>6 DEF LoginInsert
  <2> HIDE DEF mine
  <2>4. r \in ReqRecord /\ Holds(r)
    BY <2>2 DEF ReqRecord, Holds
  <2> HIDE DEF r
  <2> QED
    BY <1>0, <2>3, <2>4, OneRequest
<1>7. ASSUME NEW q \in Requests, NEW s \in SessionIds, RevokeRead(q, s) PROVE ReqsOK'
  <2> DEFINE mine == [row[s] EXCEPT !.state = "revoked"]
             r == [kind |-> "revoke", stage |-> "save", session |-> s, token |-> None,
                   diff |-> {}, row |-> mine]
  <2>1. mine \in Row /\ mine.state = "revoked"
    BY <1>0 DEF RestOK, Row
  <2>2. req' = [req EXCEPT ![q] = r]
    BY <1>7 DEF RevokeRead
  <2> HIDE DEF mine
  <2>3. r \in ReqRecord /\ Holds(r)
    BY <2>1 DEF ReqRecord, Holds
  <2> HIDE DEF r
  <2> QED
    BY <1>0, <2>2, <2>3, OneRequest
<1>8. ASSUME UNCHANGED req PROVE ReqsOK'
  BY <1>0, <1>8 DEF ReqsOK, Holds, Current
<1> QED
  BY <1>1, <1>2, <1>3, <1>4, <1>5, <1>6, <1>7, <1>8
     DEF Next, SessionStep, vars, SaveUpdate, Abort, Logout, LogoutAll, ResetPassword, SetActive

\* Rows, tokens and histories stay well formed.
LEMMA RestStep == IInv /\ [Next]_vars => RestOK'
<1> SUFFICES ASSUME IInv, [Next]_vars PROVE RestOK'
  OBVIOUS
<1>0. ReqsOK /\ RestOK
  BY Parts
<1>a. \A q \in Requests : req[q] \in ReqRecord /\ Holds(req[q]) /\ req[q].row \in Row
  BY <1>0 DEF ReqsOK, ReqRecord
<1>1. ASSUME NEW q \in Requests, NEW answered \in BOOLEAN, SaveUpdate(q, answered)
      PROVE  RestOK'
  <2> DEFINE s == req[q].session
             t == req[q].token
  <2>1. s \in SessionIds
    BY <1>a, <1>1 DEF Holds, SaveUpdate
  <2>2. Overwritten(row[s], req[q].row, req[q].diff) \in Row
    BY <1>0, <1>a, <2>1, OverwrittenIsTyped DEF RestOK
  <2>3. row' \in [SessionIds -> Row]
    BY <1>0, <1>1, <2>1, <2>2 DEF RestOK, SaveUpdate
  <2>4. issued' \in [SessionIds -> SUBSET Tokens]
    <3>1. CASE answered /\ req[q].kind \in {"refresh", "login"}
      <4>1. issued[s] \cup {req[q].row.hash} \in SUBSET Tokens
        BY <1>0, <1>a, <2>1, <3>1 DEF RestOK, Holds
      <4>2. issued' = [issued EXCEPT ![s] = issued[s] \cup {req[q].row.hash}]
        BY <1>1, <3>1 DEF SaveUpdate
      <4> QED
        BY <1>0, <2>1, <4>1, <4>2 DEF RestOK
    <3>2. CASE ~(answered /\ req[q].kind \in {"refresh", "login"})
      BY <1>0, <1>1, <3>2 DEF RestOK, SaveUpdate
    <3> QED
      BY <3>1, <3>2
  <2>5. spent' \in [SessionIds -> [Tokens -> Nat]]
    <3>1. CASE req[q].kind = "refresh"
      <4>1. spent[s] \in [Tokens -> Nat] /\ t \in Tokens
        BY <1>0, <1>a, <2>1, <3>1 DEF RestOK, Holds
      <4>2. [spent[s] EXCEPT ![t] = spent[s][t] + 1] \in [Tokens -> Nat]
        BY <4>1
      <4>3. spent' = [spent EXCEPT ![s] = [spent[s] EXCEPT ![t] = spent[s][t] + 1]]
        BY <1>1, <3>1 DEF SaveUpdate
      <4> QED
        BY <1>0, <2>1, <4>2, <4>3 DEF RestOK
    <3>2. CASE req[q].kind # "refresh"
      BY <1>0, <1>1, <3>2 DEF RestOK, SaveUpdate
    <3> QED
      BY <3>1, <3>2
  <2> QED
    BY <1>0, <1>1, <2>3, <2>4, <2>5 DEF RestOK, SaveUpdate
<1>2. ASSUME NEW ended \in SUBSET SessionIds, EndSessions(ended),
             UNCHANGED <<active, req, issued, spent, overlapped>>, resets' \in 0..MaxResets
      PROVE  RestOK'
  <2>1. \A s \in SessionIds : [row[s] EXCEPT !.state = "revoked"] \in Row
    BY <1>0 DEF RestOK, Row
  <2> QED
    BY <1>0, <1>2, <2>1 DEF RestOK, EndSessions
<1>3. ASSUME NEW q \in Requests, NEW s \in SessionIds, NEW stamp \in Stamps,
             LoginInsert(q, s, stamp)
      PROVE  RestOK'
  <2>1. [row[s] EXCEPT !.state = "live"] \in Row
    BY <1>0 DEF RestOK, Row
  <2>2. row' = [row EXCEPT ![s] = [row[s] EXCEPT !.state = "live"]]
    BY <1>3 DEF LoginInsert
  <2> QED
    BY <1>0, <1>3, <2>1, <2>2 DEF RestOK, LoginInsert, history
<1>4. ASSUME UNCHANGED <<row, resets, issued, spent>>,
             active' \in BOOLEAN, overlapped' \subseteq SessionIds
      PROVE  RestOK'
  BY <1>0, <1>4 DEF RestOK
<1>5. ASSUME UNCHANGED <<row, active, resets, issued, history>> PROVE RestOK'
  BY <1>0, <1>4, <1>5 DEF RestOK, history
<1>6. ASSUME NEW q \in Requests, NEW s \in SessionIds, NEW t \in Tokens, RefreshRead(q, s, t)
      PROVE  RestOK'
  BY <1>0, <1>4, <1>6 DEF RestOK, RefreshRead
<1>7. ASSUME NEW s \in SessionIds, Logout(s) PROVE RestOK'
  BY <1>0, <1>2, <1>7 DEF RestOK, Logout
<1>8. ASSUME LogoutAll PROVE RestOK'
  BY <1>0, <1>2, <1>8 DEF RestOK, LogoutAll, Live
<1>9. ASSUME ResetPassword PROVE RestOK'
  <2>1. resets + 1 \in 0..MaxResets
    BY <1>0, <1>9, SessionsAssumption DEF RestOK, ResetPassword
  <2> QED
    BY <1>2, <1>9, <2>1 DEF ResetPassword, Live
<1>10. ASSUME SetActive PROVE RestOK'
  BY <1>0, <1>4, <1>10 DEF RestOK, SetActive, history
<1> QED
  BY <1>1, <1>3, <1>5, <1>6, <1>7, <1>8, <1>9, <1>10
     DEF Next, SessionStep, vars, RefreshUser, LoginRead, SaveDiff, RevokeRead, Abort

\* The invariant is inductive, so it always holds.
LEMMA Inductive == Spec => []IInv
<1>1. Init => IInv
  <2> SUFFICES ASSUME Init PROVE ReqsOK /\ RestOK
    BY Parts
  <2>1. ReqsOK
    BY IdleIsTyped, IdleHolds DEF Init, ReqsOK
  <2>2. RestOK
    BY IdleIsTyped, SessionsAssumption DEF Init, RestOK
  <2> QED
    BY <2>1, <2>2
<1>2. IInv /\ [Next]_vars => IInv'
  BY ReqsStep, RestStep, Parts DEF IInv, TypeOK, ReqsOK, RestOK, ReqRecord, Holds
<1> QED
  BY <1>1, <1>2, PTL DEF Spec

-----------------------------------------------------------------------------
(* The theorems.                                                           *)

\* Type correctness.
THEOREM TypeCorrect == Spec => []TypeOK
BY Inductive, PTL DEF IInv

\* A save that revokes writes a row that is revoked, whatever columns differ, as
\* long as the stored row is revoked too.
LEMMA RevokedOverRevoked ==
    ASSUME NEW r \in Row, NEW mine \in Row, NEW diff,
           r.state = "revoked", mine.state = "revoked"
    PROVE  Overwritten(r, mine, diff).state = "revoked"
BY DEF Overwritten, Row

\* One step leaves a revoked session that no refresh or sign-in holds as it is.
LEMMA RevokedStep ==
    ASSUME IInv, [Next]_vars, NEW s \in SessionIds, row[s].state = "revoked", Holders(s) = {}
    PROVE  row'[s].state = "revoked" /\ Holders(s)' = {}
<1>0. ReqsOK /\ RestOK
  BY Parts
<1>a. \A q \in Requests : req[q] \in ReqRecord /\ Holds(req[q]) /\ req[q].row \in Row
  BY <1>0 DEF ReqsOK, ReqRecord
<1>b. \A q \in Requests : req[q].session = s => req[q].kind \notin {"refresh", "login"}
  BY DEF Holders, InFlight
<1>c. s # None
  BY SessionsAssumption
<1>1. row'[s].state = "revoked"
  <2>1. ASSUME NEW q \in Requests, NEW answered \in BOOLEAN, SaveUpdate(q, answered)
        PROVE  row'[s].state = "revoked"
    <3>1. CASE req[q].session = s
      <4>1. req[q].row.state = "revoked"
        BY <1>a, <1>b, <2>1, <3>1 DEF Holds, ReqRecord, SaveUpdate
      <4>2. row'[s] = Overwritten(row[s], req[q].row, req[q].diff)
        BY <1>0, <2>1, <3>1 DEF SaveUpdate, RestOK
      <4> QED
        BY <1>0, <1>a, <4>1, <4>2, RevokedOverRevoked DEF RestOK
    <3>2. CASE req[q].session # s
      BY <1>0, <2>1, <3>2 DEF SaveUpdate, RestOK
    <3> QED
      BY <3>1, <3>2
  <2>2. ASSUME NEW q \in Requests, NEW k \in SessionIds, NEW stamp \in Stamps,
               LoginInsert(q, k, stamp)
        PROVE  row'[s].state = "revoked"
    BY <1>0, <2>2 DEF LoginInsert, RestOK
  <2>3. ASSUME NEW ended, EndSessions(ended) PROVE row'[s].state = "revoked"
    <3>1. [row[s] EXCEPT !.state = "revoked"].state = "revoked"
      BY <1>0 DEF RestOK, Row
    <3> QED
      BY <2>3, <3>1 DEF EndSessions
  <2>4. ASSUME UNCHANGED row PROVE row'[s].state = "revoked"
    BY <2>4
  <2> QED
    BY <2>1, <2>2, <2>3, <2>4
       DEF Next, SessionStep, vars, RefreshRead, RefreshUser, LoginRead, SaveDiff, RevokeRead, Abort,
           Logout, LogoutAll, ResetPassword, SetActive
<1>2. \A q \in Requests : req'[q].session = s => req'[q].kind \notin {"refresh", "login"}
  <2>1. ASSUME NEW q \in Requests, NEW r, req' = [req EXCEPT ![q] = r],
               r.session = s => r.kind \notin {"refresh", "login"}
        PROVE  \A p \in Requests : req'[p].session = s => req'[p].kind \notin {"refresh", "login"}
    BY <1>0, <1>b, <2>1 DEF ReqsOK
  <2>2. ASSUME NEW q \in Requests, req' = [req EXCEPT ![q] = Idle]
        PROVE  \A p \in Requests : req'[p].session = s => req'[p].kind \notin {"refresh", "login"}
    BY <1>c, <2>1, <2>2 DEF Idle
  <2>3. ASSUME NEW q \in Requests, NEW k \in SessionIds, NEW t \in Tokens, RefreshRead(q, k, t)
        PROVE  \A p \in Requests : req'[p].session = s => req'[p].kind \notin {"refresh", "login"}
    <3> DEFINE r == [kind |-> IF Current(t, row[k]) THEN "refresh" ELSE "replay",
                     stage |-> IF Current(t, row[k]) THEN "user" ELSE "save",
                     session |-> k, token |-> t, diff |-> {},
                     row |-> IF Current(t, row[k]) THEN row[k]
                             ELSE [row[k] EXCEPT !.state = "revoked"]]
    <3>1. k # s
      BY <2>3 DEF RefreshRead, Refreshable
    <3>2. req' = [req EXCEPT ![q] = r] /\ r.session = k
      BY <2>3 DEF RefreshRead
    <3> HIDE DEF r
    <3> QED
      BY <2>1, <3>1, <3>2
  <2>4. ASSUME NEW q \in Requests, NEW k \in SessionIds, NEW stamp \in Stamps,
               LoginInsert(q, k, stamp)
        PROVE  \A p \in Requests : req'[p].session = s => req'[p].kind \notin {"refresh", "login"}
    <3>1. k # s
      BY <2>4 DEF LoginInsert
    <3> QED
      BY <2>1, <2>4, <3>1 DEF LoginInsert
  <2>5. ASSUME NEW q \in Requests, NEW stamp \in Stamps, RefreshUser(q, stamp)
        PROVE  \A p \in Requests : req'[p].session = s => req'[p].kind \notin {"refresh", "login"}
    <3>1. req[q].session # s
      BY <1>a, <1>b, <2>5 DEF Holds, RefreshUser
    <3>2. CASE active
      <4> DEFINE mine == Rotated(req[q].row, stamp)
      <4>1. \A p \in Requests : req'[p].session = req[p].session /\ req'[p].kind = req[p].kind
        <5>1. req' = [req EXCEPT ![q] = [req[q] EXCEPT !.stage = "save", !.row = mine]]
          BY <1>0, <2>5, <3>2 DEF RefreshUser, ReqsOK, ReqRecord
        <5> HIDE DEF mine
        <5> QED
          BY <1>0, <5>1 DEF ReqsOK, ReqRecord
      <4> QED
        BY <1>b, <4>1
    <3>3. CASE ~active
      BY <2>2, <2>5, <3>3 DEF RefreshUser
    <3> QED
      BY <3>2, <3>3
  <2>6. ASSUME NEW q \in Requests, SaveDiff(q)
        PROVE  \A p \in Requests : req'[p].session = s => req'[p].kind \notin {"refresh", "login"}
    <3>1. \A p \in Requests : req'[p].session = req[p].session /\ req'[p].kind = req[p].kind
      BY <1>0, <2>6 DEF SaveDiff, ReqsOK, ReqRecord
    <3> QED
      BY <1>b, <3>1
  <2>7. ASSUME NEW q \in Requests, LoginRead(q)
        PROVE  \A p \in Requests : req'[p].session = s => req'[p].kind \notin {"refresh", "login"}
    BY <1>c, <2>1, <2>7 DEF LoginRead, Idle
  <2>8. ASSUME NEW q \in Requests, NEW k \in SessionIds, RevokeRead(q, k)
        PROVE  \A p \in Requests : req'[p].session = s => req'[p].kind \notin {"refresh", "login"}
    BY <2>1, <2>8 DEF RevokeRead
  <2>9. ASSUME UNCHANGED req
        PROVE  \A p \in Requests : req'[p].session = s => req'[p].kind \notin {"refresh", "login"}
    BY <1>b, <2>9
  <2> QED
    BY <2>2, <2>3, <2>4, <2>5, <2>6, <2>7, <2>8, <2>9
       DEF Next, SessionStep, vars, SaveUpdate, Abort, Logout, LogoutAll, ResetPassword, SetActive
<1>3. Holders(s)' = {}
  BY <1>2 DEF Holders, InFlight
<1> QED
  BY <1>1, <1>3

\* For any number of sessions and requests: once a session is revoked and nobody
\* holds it from before, it is revoked for good.
THEOREM RevokedForGood == Spec => RevokedStaysRevoked
<1>1. IInv /\ [Next]_vars =>
        [\A s \in SessionIds :
            row[s].state = "revoked" /\ Holders(s) = {} =>
                row'[s].state = "revoked" /\ Holders(s)' = {}]_vars
  BY RevokedStep
<1> QED
  BY <1>1, Inductive, PTL DEF Spec, RevokedStaysRevoked

-----------------------------------------------------------------------------
(* Rotations.  A session that no two refreshes of which have overlapped    *)
(* counts upwards: the tokens accepted so far are older than the one a     *)
(* live row holds, and older than the one a refresh in flight has          *)
(* accepted; what a revocation read earlier, and may write back, is no     *)
(* newer.  A stale write always revokes, and a live row is never written   *)
(* by anything but a refresh or a sign-in with its own pair of columns.    *)

Revoking(r) == r.kind \in {"replay", "revoke"}

AcceptedBelow(s, n) == \A t \in Tokens : spent[s][t] # 0 => t.rotation < n
Within(r, n) == r.rotation <= n /\ (r.hash # None => r.hash.rotation <= n)
RevokedWithin(s, n) == \A p \in InFlight(s) : Revoking(req[p]) => Within(req[p].row, n)

OneRefresh(s) ==
    \A p, q \in InFlight(s) :
        req[p].kind \in {"refresh", "replay"} /\ req[q].kind \in {"refresh", "replay"} => p = q

AbsentHolds(s) ==
    row[s].state = "absent" =>
        /\ row[s] = NoRow /\ InFlight(s) = {} /\ issued[s] = {} /\ AcceptedBelow(s, 0)

LiveHolds(s) ==
    row[s].state = "live" =>
        /\ AcceptedBelow(s, row[s].rotation)
        /\ row[s].hash # None => Current(row[s].hash, row[s])
        /\ RevokedWithin(s, row[s].rotation)

RefreshHolds(s, q) ==
    LET r == req[q]  n == r.token.rotation IN
    r.kind = "refresh" =>
        /\ AcceptedBelow(s, n) /\ Within(row[s], n) /\ RevokedWithin(s, n)
        /\ r.row.rotation = IF r.stage = "user" THEN n ELSE n + 1
        /\ r.stage = "update" => {"rotation", "refreshTokenHash"} \subseteq r.diff

LoginHolds(s, q) ==
    LET r == req[q] IN
    r.kind = "login" =>
        /\ issued[s] = {} /\ AcceptedBelow(s, 0)
        /\ row[s].rotation = 0 /\ row[s].hash = None /\ r.row.rotation = 0
        /\ r.stage = "update" => "refreshTokenHash" \in r.diff
        /\ \A p \in InFlight(s) \ {q} :
              req[p].kind = "revoke" /\ req[p].row.rotation = 0 /\ req[p].row.hash = None

SaveHolds(r) ==
    /\ r.row.state # "absent"
    /\ Revoking(r) /\ r.stage = "update" => "revokedAt" \in r.diff

SpentOnce(s) == \A t \in Tokens : spent[s][t] <= 1

Ordered(s) ==
    /\ OneRefresh(s) /\ AbsentHolds(s) /\ LiveHolds(s) /\ SpentOnce(s)
    /\ \A q \in InFlight(s) : SaveHolds(req[q]) /\ RefreshHolds(s, q) /\ LoginHolds(s, q)

OrderInv == \A s \in SessionIds \ overlapped : Ordered(s)

\* The numbers are numbers.
LEMMA Rotations ==
    /\ \A t \in Tokens : t.rotation \in Nat
    /\ \A r \in Row : r.rotation \in Nat /\ (r.hash # None => r.hash \in Tokens)
BY SessionsAssumption DEF Tokens, Row

\* A request of a session is one of four kinds, and has read a row.
LEMMA FlightIsTyped ==
    ASSUME IInv, NEW s \in SessionIds, NEW q \in InFlight(s)
    PROVE  /\ q \in Requests /\ req[q] \in ReqRecord /\ Holds(req[q]) /\ req[q].row \in Row
           /\ req[q].stage \in {"user", "save", "update"}
           /\ req[q].kind \in {"refresh", "replay", "login", "revoke"}
           /\ req[q].session = s
           /\ req[q].kind = "refresh" => req[q].token \in Tokens
<1>1. /\ q \in Requests /\ req[q] \in ReqRecord /\ Holds(req[q]) /\ req[q].session = s
  BY Parts DEF ReqsOK, InFlight
<1> QED  BY <1>1, SessionsAssumption DEF ReqRecord, Holds

\* A request that has nothing to do with the session any more, or yet, changes nothing for
\* it.
LEMMA Elsewhere ==
    ASSUME IInv, NEW s \in SessionIds, Ordered(s), NEW q \in Requests, NEW r,
           req' = [req EXCEPT ![q] = r], r.session # s,
           row'[s] = row[s], issued'[s] = issued[s], spent'[s] = spent[s]
    PROVE  Ordered(s)'
<1>1. req \in [Requests -> ReqRecord]
  BY Parts DEF ReqsOK
<1>2. InFlight(s)' \subseteq InFlight(s) /\ \A p \in InFlight(s)' : req'[p] = req[p]
  BY <1>1 DEF InFlight
<1>3. OneRefresh(s)'
  BY <1>2 DEF Ordered, OneRefresh
<1>4. AbsentHolds(s)' /\ LiveHolds(s)' /\ SpentOnce(s)'
  BY <1>2 DEF Ordered, AbsentHolds, LiveHolds, SpentOnce, AcceptedBelow, RevokedWithin, Within,
              Revoking, Current
<1>5. ASSUME NEW p \in InFlight(s)'
      PROVE  (SaveHolds(req[p]) /\ RefreshHolds(s, p) /\ LoginHolds(s, p))'
  <2>1. p \in InFlight(s) /\ SaveHolds(req[p]) /\ RefreshHolds(s, p) /\ LoginHolds(s, p)
    BY <1>2, <1>5 DEF Ordered
  <2>2. SaveHolds(req[p])'
    BY <1>2, <1>5, <2>1 DEF SaveHolds, Revoking
  <2>3. RefreshHolds(s, p)'
    BY <1>2, <1>5, <2>1 DEF RefreshHolds, AcceptedBelow, RevokedWithin, Within, Revoking
  <2>4. LoginHolds(s, p)'
    BY <1>2, <1>5, <2>1 DEF LoginHolds, AcceptedBelow
  <2> QED  BY <2>2, <2>3, <2>4
<1> QED  BY <1>3, <1>4, <1>5 DEF Ordered

\* A live row is revoked by one UPDATE, or nothing happens.
LEMMA RevokedAtOnce ==
    ASSUME IInv, NEW s \in SessionIds, Ordered(s), UNCHANGED <<req, issued, spent>>,
           \/ row'[s] = row[s]
           \/ /\ row[s].state # "absent" /\ row'[s].state = "revoked"
              /\ row'[s].rotation = row[s].rotation /\ row'[s].hash = row[s].hash
    PROVE  Ordered(s)'
<1>2. /\ row'[s] = row[s] \/ (row[s].state # "absent" /\ row'[s].state = "revoked")
      /\ row'[s].rotation = row[s].rotation /\ row'[s].hash = row[s].hash
  OBVIOUS
<1>3. InFlight(s)' = InFlight(s)
  BY DEF InFlight
<1>4. OneRefresh(s)' /\ AbsentHolds(s)' /\ LiveHolds(s)' /\ SpentOnce(s)'
  BY <1>2, <1>3 DEF Ordered, OneRefresh, AbsentHolds, LiveHolds, SpentOnce, AcceptedBelow,
              RevokedWithin, Within, Revoking, Current
<1>5. ASSUME NEW p \in InFlight(s)'
      PROVE  (SaveHolds(req[p]) /\ RefreshHolds(s, p) /\ LoginHolds(s, p))'
  <2>1. p \in InFlight(s) /\ SaveHolds(req[p]) /\ RefreshHolds(s, p) /\ LoginHolds(s, p)
    BY <1>3, <1>5 DEF Ordered
  <2>2. SaveHolds(req[p])'
    BY <2>1 DEF SaveHolds, Revoking
  <2>3. RefreshHolds(s, p)'
    BY <1>2, <1>3, <2>1 DEF RefreshHolds, AcceptedBelow, RevokedWithin, Within, Revoking
  <2>4. LoginHolds(s, p)'
    BY <1>2, <1>3, <2>1 DEF LoginHolds, AcceptedBelow
  <2> QED  BY <2>2, <2>3, <2>4
<1> QED  BY <1>4, <1>5 DEF Ordered

\* refresh reads a live row, and no other refresh has the session: it accepts the row's own
\* token, or revokes what it read.
LEMMA RefreshReads ==
    ASSUME IInv, NEW s \in SessionIds, Ordered(s), NEW q \in Requests, NEW t \in Tokens,
           RefreshRead(q, s, t), s \notin overlapped'
    PROVE  Ordered(s)'
<1> DEFINE r == [kind |-> IF Current(t, row[s]) THEN "refresh" ELSE "replay",
                 stage |-> IF Current(t, row[s]) THEN "user" ELSE "save",
                 session |-> s, token |-> t, diff |-> {},
                 row |-> IF Current(t, row[s]) THEN row[s]
                         ELSE [row[s] EXCEPT !.state = "revoked"]]
<1>0. row[s] \in Row
  BY Parts DEF RestOK
<1>1. /\ req' = [req EXCEPT ![q] = r] /\ row[s].state = "live" /\ t \in issued[s]
      /\ row' = row /\ issued' = issued /\ spent' = spent
  BY DEF RefreshRead, Refreshable
<1>2. /\ r.session = s /\ r.stage \in {"user", "save"} /\ r.token = t
      /\ \/ /\ r.kind = "refresh" /\ r.stage = "user" /\ Current(t, row[s]) /\ r.row = row[s]
         \/ /\ r.kind = "replay" /\ r.stage = "save" /\ r.row.state = "revoked"
            /\ r.row.rotation = row[s].rotation /\ r.row.hash = row[s].hash
  <2>1. /\ [row[s] EXCEPT !.state = "revoked"].state = "revoked"
        /\ [row[s] EXCEPT !.state = "revoked"].rotation = row[s].rotation
        /\ [row[s] EXCEPT !.state = "revoked"].hash = row[s].hash
    BY <1>0 DEF Row
  <2> QED  BY <2>1
<1> HIDE DEF r
<1>3. q \notin InFlight(s)
  BY Parts, SessionsAssumption DEF RefreshRead, InFlight, ReqsOK, Holds
<1>4. \A p \in InFlight(s) : req[p].kind = "revoke"
  <2>1. \A p \in InFlight(s) : req[p].kind \notin {"refresh", "replay"}
    BY DEF RefreshRead
  <2>2. \A p \in InFlight(s) : req[p].kind # "login"
    BY <1>1 DEF Ordered, LoginHolds
  <2> QED  BY <2>1, <2>2, FlightIsTyped
<1>5. /\ InFlight(s)' = InFlight(s) \cup {q} /\ req'[q] = r
      /\ \A p \in InFlight(s) : req'[p] = req[p]
  <2>1. req \in [Requests -> ReqRecord]
    BY Parts DEF ReqsOK
  <2> QED  BY <1>1, <1>2, <1>3, <2>1 DEF InFlight
<1>6. /\ AcceptedBelow(s, row[s].rotation) /\ Within(row[s], row[s].rotation)
      /\ RevokedWithin(s, row[s].rotation)
  BY <1>0, <1>1, Rotations DEF Ordered, LiveHolds, Within, Current
<1>7. OneRefresh(s)' /\ AbsentHolds(s)' /\ SpentOnce(s)'
  BY <1>1, <1>4, <1>5 DEF Ordered, OneRefresh, AbsentHolds, SpentOnce
<1>8. LiveHolds(s)'
  <2>1. RevokedWithin(s, row[s].rotation)'
    BY <1>1, <1>2, <1>5, <1>6 DEF RevokedWithin, Within, Revoking
  <2> QED  BY <1>1, <1>6, <2>1 DEF Ordered, LiveHolds, AcceptedBelow, Current
<1>9. ASSUME NEW p \in InFlight(s)'
      PROVE  (SaveHolds(req[p]) /\ RefreshHolds(s, p) /\ LoginHolds(s, p))'
  <2>1. CASE p # q
    <3>1. p \in InFlight(s) /\ req'[p] = req[p] /\ req[p].kind = "revoke"
      BY <1>4, <1>5, <1>9, <2>1
    <3> QED  BY <3>1 DEF Ordered, SaveHolds, RefreshHolds, LoginHolds, Revoking
  <2>2. CASE p = q
    <3>1. SaveHolds(r)
      BY <1>1, <1>2 DEF SaveHolds, Revoking
    <3>2. r.kind = "refresh" => RevokedWithin(s, t.rotation)'
      BY <1>1, <1>2, <1>5, <1>6 DEF RevokedWithin, Within, Revoking, Current
    <3>3. r.kind = "refresh" => Within(row[s], t.rotation) /\ AcceptedBelow(s, t.rotation)
      BY <1>2, <1>6 DEF Current
    <3>4. RefreshHolds(s, q)'
      BY <1>1, <1>2, <1>5, <3>2, <3>3 DEF RefreshHolds, AcceptedBelow, Within, Current
    <3>5. LoginHolds(s, q)'
      BY <1>2, <1>5 DEF LoginHolds
    <3> QED  BY <1>5, <2>2, <3>1, <3>4, <3>5 DEF SaveHolds, Revoking
  <2> QED  BY <2>1, <2>2
<1> QED  BY <1>7, <1>8, <1>9 DEF Ordered

\* A refresh goes on with a rotation one above the token's.
LEMMA RefreshGoesOn ==
    ASSUME IInv, NEW s \in SessionIds, Ordered(s), NEW q \in InFlight(s), NEW stamp \in Stamps,
           RefreshUser(q, stamp), active
    PROVE  Ordered(s)'
<1> DEFINE mine == Rotated(req[q].row, stamp)
           r == [req[q] EXCEPT !.stage = "save", !.row = mine]
<1>0. /\ q \in Requests /\ req[q] \in ReqRecord /\ req[q].kind = "refresh"
      /\ req[q].token \in Tokens /\ req[q].row \in Row /\ req[q].session = s
      /\ req[q].stage = "user"
  BY FlightIsTyped DEF RefreshUser, Holds
<1>1. mine.state = req[q].row.state /\ mine.rotation = req[q].row.rotation + 1
  BY <1>0 DEF Rotated, Row
<1> HIDE DEF mine
<1>2. /\ r.kind = "refresh" /\ r.stage = "save" /\ r.session = s /\ r.token = req[q].token
      /\ r.row = mine
  BY <1>0 DEF ReqRecord
<1>3. /\ req' = [req EXCEPT ![q] = r]
      /\ row' = row /\ issued' = issued /\ spent' = spent
  <2>1. req \in [Requests -> ReqRecord]
    BY Parts DEF ReqsOK
  <2> QED  BY <1>0, <2>1 DEF RefreshUser, ReqRecord, mine, history
<1> HIDE DEF r
<1>4. /\ InFlight(s)' = InFlight(s) /\ req'[q] = r
      /\ \A p \in InFlight(s) \ {q} : req'[p] = req[p]
  <2>1. req \in [Requests -> ReqRecord]
    BY Parts DEF ReqsOK
  <2> QED  BY <1>0, <1>2, <1>3, <2>1 DEF InFlight
<1>5. OneRefresh(s)' /\ AbsentHolds(s)' /\ SpentOnce(s)'
  BY <1>0, <1>2, <1>3, <1>4 DEF Ordered, OneRefresh, AbsentHolds, SpentOnce
<1>6. ASSUME NEW n, RevokedWithin(s, n) PROVE RevokedWithin(s, n)'
  BY <1>2, <1>4, <1>6 DEF RevokedWithin, Within, Revoking
<1>7. LiveHolds(s)'
  BY <1>3, <1>6 DEF Ordered, LiveHolds, AcceptedBelow, Current
<1>8. ASSUME NEW p \in InFlight(s)'
      PROVE  (SaveHolds(req[p]) /\ RefreshHolds(s, p) /\ LoginHolds(s, p))'
  <2>1. p \in InFlight(s) /\ SaveHolds(req[p]) /\ RefreshHolds(s, p) /\ LoginHolds(s, p)
    BY <1>4, <1>8 DEF Ordered
  <2>2. CASE p # q
    <3>1. req'[p] = req[p] /\ req[p].kind # "login"
      BY <1>0, <1>4, <2>1, <2>2 DEF LoginHolds
    <3>2. SaveHolds(req[p])' /\ LoginHolds(s, p)'
      BY <2>1, <3>1 DEF SaveHolds, LoginHolds, Revoking
    <3>3. RefreshHolds(s, p)'
      BY <1>3, <1>6, <2>1, <3>1 DEF RefreshHolds, AcceptedBelow, Within
    <3> QED  BY <3>2, <3>3
  <2>3. CASE p = q
    <3>1. SaveHolds(r)
      BY <1>1, <1>2, <2>1, <2>3 DEF SaveHolds, Revoking
    <3>2. RefreshHolds(s, q)'
      BY <1>0, <1>1, <1>2, <1>3, <1>4, <1>6, <2>1, <2>3 DEF RefreshHolds, AcceptedBelow, Within
    <3>3. LoginHolds(s, q)'
      BY <1>2, <1>4 DEF LoginHolds
    <3> QED  BY <1>4, <2>3, <3>1, <3>2, <3>3 DEF SaveHolds, Revoking
  <2> QED  BY <2>2, <2>3
<1> QED  BY <1>5, <1>7, <1>8 DEF Ordered

\* A row that is about to be revoked was read under the rotation it has now.
LEMMA RevokeReads ==
    ASSUME IInv, NEW s \in SessionIds, Ordered(s), NEW q \in Requests, RevokeRead(q, s)
    PROVE  Ordered(s)'
<1> DEFINE r == [kind |-> "revoke", stage |-> "save", session |-> s, token |-> None,
                 diff |-> {}, row |-> [row[s] EXCEPT !.state = "revoked"]]
<1>0. row[s] \in Row /\ req \in [Requests -> ReqRecord]
  BY Parts DEF RestOK, ReqsOK
<1>1. /\ req' = [req EXCEPT ![q] = r] /\ row[s].state # "absent"
      /\ row' = row /\ issued' = issued /\ spent' = spent
  BY DEF RevokeRead, history
<1>2. /\ r.session = s /\ r.stage = "save" /\ r.kind = "revoke"
      /\ r.row.state = "revoked" /\ r.row.rotation = row[s].rotation /\ r.row.hash = row[s].hash
  <2>1. /\ [row[s] EXCEPT !.state = "revoked"].state = "revoked"
        /\ [row[s] EXCEPT !.state = "revoked"].rotation = row[s].rotation
        /\ [row[s] EXCEPT !.state = "revoked"].hash = row[s].hash
    BY <1>0 DEF Row
  <2> QED  BY <2>1
<1> HIDE DEF r
<1>3. q \notin InFlight(s)
  BY Parts, SessionsAssumption DEF RevokeRead, InFlight, ReqsOK, Holds
<1>4. /\ InFlight(s)' = InFlight(s) \cup {q} /\ req'[q] = r
      /\ \A p \in InFlight(s) : req'[p] = req[p]
  BY <1>0, <1>1, <1>2, <1>3 DEF InFlight
<1>5. OneRefresh(s)' /\ AbsentHolds(s)' /\ SpentOnce(s)'
  BY <1>1, <1>2, <1>4 DEF Ordered, OneRefresh, AbsentHolds, SpentOnce
<1>6. ASSUME NEW n, RevokedWithin(s, n), Within(row[s], n) PROVE RevokedWithin(s, n)'
  BY <1>2, <1>4, <1>6 DEF RevokedWithin, Within, Revoking
<1>7. LiveHolds(s)'
  <2>1. row[s].state = "live" => Within(row[s], row[s].rotation)
    BY <1>0, Rotations DEF Ordered, LiveHolds, Within, Current
  <2> QED  BY <1>1, <1>6, <2>1 DEF Ordered, LiveHolds, AcceptedBelow, Current
<1>8. ASSUME NEW p \in InFlight(s)'
      PROVE  (SaveHolds(req[p]) /\ RefreshHolds(s, p) /\ LoginHolds(s, p))'
  <2>1. CASE p # q
    <3>1. /\ p \in InFlight(s) /\ req'[p] = req[p]
          /\ SaveHolds(req[p]) /\ RefreshHolds(s, p) /\ LoginHolds(s, p)
      BY <1>4, <1>8, <2>1 DEF Ordered
    <3>2. SaveHolds(req[p])'
      BY <3>1 DEF SaveHolds, Revoking
    <3>3. RefreshHolds(s, p)'
      BY <1>1, <1>6, <3>1 DEF RefreshHolds, AcceptedBelow, Within
    <3>4. LoginHolds(s, p)'
      BY <1>1, <1>2, <1>4, <3>1 DEF LoginHolds, AcceptedBelow
    <3> QED  BY <3>2, <3>3, <3>4
  <2>2. CASE p = q
    BY <1>2, <1>4, <2>2 DEF SaveHolds, RefreshHolds, LoginHolds, Revoking
  <2> QED  BY <2>1, <2>2
<1> QED  BY <1>5, <1>7, <1>8 DEF Ordered

\* The first request of a new session is its sign-in.
LEMMA LoginInserts ==
    ASSUME IInv, NEW s \in SessionIds, Ordered(s), NEW q \in Requests, NEW stamp \in Stamps,
           LoginInsert(q, s, stamp)
    PROVE  Ordered(s)'
<1> DEFINE mine == [state |-> "live", rotation |-> 0,
                    hash |-> [rotation |-> 0, stamp |-> stamp]]
           r == [kind |-> "login", stage |-> "save", session |-> s, token |-> None,
                 diff |-> {}, row |-> mine]
<1>0. row \in [SessionIds -> Row] /\ req \in [Requests -> ReqRecord]
  BY Parts DEF RestOK, ReqsOK
<1>1. /\ req' = [req EXCEPT ![q] = r]
      /\ issued' = issued /\ spent' = spent
      /\ InFlight(s) = {} /\ issued[s] = {} /\ AcceptedBelow(s, 0) /\ row[s] = NoRow
  BY DEF LoginInsert, history, Ordered, AbsentHolds
<1>2. row'[s].state = "live" /\ row'[s].rotation = 0 /\ row'[s].hash = None
  <2>1. row'[s] = [NoRow EXCEPT !.state = "live"]
    BY <1>0, <1>1 DEF LoginInsert
  <2> QED  BY <2>1 DEF NoRow
<1>3. /\ r.session = s /\ r.stage = "save" /\ r.kind = "login"
      /\ r.row.state = "live" /\ r.row.rotation = 0
  OBVIOUS
<1> HIDE DEF r
<1>4. InFlight(s)' = {q} /\ req'[q] = r
  BY <1>0, <1>1, <1>3 DEF InFlight
<1>5. OneRefresh(s)' /\ AbsentHolds(s)' /\ LiveHolds(s)' /\ SpentOnce(s)'
  BY <1>1, <1>2, <1>3, <1>4 DEF Ordered, OneRefresh, AbsentHolds, LiveHolds, SpentOnce,
                               RevokedWithin, Revoking, AcceptedBelow
<1>6. (SaveHolds(req[q]) /\ RefreshHolds(s, q) /\ LoginHolds(s, q))'
  BY <1>1, <1>2, <1>3, <1>4 DEF SaveHolds, RefreshHolds, LoginHolds, Revoking, AcceptedBelow
<1> QED  BY <1>4, <1>5, <1>6 DEF Ordered

\* What a save will write: a refresh's rotation and hash differ from any the row can hold,
\* and so does the hash of a sign-in.
LEMMA SaveDiffs ==
    ASSUME IInv, NEW s \in SessionIds, Ordered(s), NEW q \in InFlight(s), SaveDiff(q)
    PROVE  Ordered(s)'
<1> DEFINE d == {f \in Columns :
                   \/ f = "revokedAt" /\ "revoked" \in {req[q].row.state, row[req[q].session].state}
                   \/ f = "rotation" /\ req[q].row.rotation # row[req[q].session].rotation
                   \/ f = "refreshTokenHash" /\ req[q].row.hash # row[req[q].session].hash}
           r == [req[q] EXCEPT !.stage = "update", !.diff = d]
<1>0. /\ q \in Requests /\ req[q] \in ReqRecord /\ Holds(req[q]) /\ req[q].row \in Row
      /\ req[q].session = s /\ req[q].stage = "save"
      /\ row[s] \in Row /\ req \in [Requests -> ReqRecord]
  BY FlightIsTyped, Parts DEF SaveDiff, RestOK, ReqsOK
<1>1. SaveHolds(req[q]) /\ RefreshHolds(s, q) /\ LoginHolds(s, q)
  BY DEF Ordered
<1>2. /\ Revoking(req[q]) => "revokedAt" \in d
      /\ req[q].row.rotation # row[s].rotation => "rotation" \in d
      /\ req[q].row.hash # row[s].hash => "refreshTokenHash" \in d
  BY <1>0 DEF Holds, Revoking, Columns
<1>3. /\ req' = [req EXCEPT ![q] = r]
      /\ row' = row /\ issued' = issued /\ spent' = spent
  BY <1>0 DEF SaveDiff, ReqRecord, history
<1> HIDE DEF d
<1>4. /\ r.kind = req[q].kind /\ r.stage = "update" /\ r.session = s
      /\ r.token = req[q].token /\ r.row = req[q].row /\ r.diff = d
  BY <1>0 DEF ReqRecord
<1> HIDE DEF r
<1>5. /\ InFlight(s)' = InFlight(s) /\ req'[q] = r
      /\ \A p \in InFlight(s) \ {q} : req'[p] = req[p]
  BY <1>0, <1>3, <1>4 DEF InFlight
<1>6. \A p \in InFlight(s) : req'[p].kind = req[p].kind /\ req'[p].row = req[p].row
  BY <1>4, <1>5
<1>7. OneRefresh(s)' /\ AbsentHolds(s)' /\ SpentOnce(s)'
  BY <1>3, <1>5, <1>6 DEF Ordered, OneRefresh, AbsentHolds, SpentOnce
<1>8. ASSUME NEW n, RevokedWithin(s, n) PROVE RevokedWithin(s, n)'
  BY <1>5, <1>6, <1>8 DEF RevokedWithin, Within, Revoking
<1>9. LiveHolds(s)'
  BY <1>3, <1>8 DEF Ordered, LiveHolds, AcceptedBelow, Current
<1>10. ASSUME NEW p \in InFlight(s)'
       PROVE  (SaveHolds(req[p]) /\ RefreshHolds(s, p) /\ LoginHolds(s, p))'
  <2>1. p \in InFlight(s) /\ SaveHolds(req[p]) /\ RefreshHolds(s, p) /\ LoginHolds(s, p)
    BY <1>5, <1>10 DEF Ordered
  <2>2. CASE p # q
    <3>1. req'[p] = req[p]
      BY <1>5, <2>1, <2>2
    <3>2. SaveHolds(req[p])'
      BY <2>1, <3>1 DEF SaveHolds, Revoking
    <3>3. RefreshHolds(s, p)'
      BY <1>3, <1>8, <2>1, <3>1 DEF RefreshHolds, AcceptedBelow, Within
    <3>4. LoginHolds(s, p)'
      BY <1>3, <1>5, <1>6, <2>1, <3>1 DEF LoginHolds, AcceptedBelow
    <3> QED  BY <3>2, <3>3, <3>4
  <2>3. CASE p = q
    <3>1. SaveHolds(r)
      BY <1>1, <1>2, <1>4 DEF SaveHolds, Revoking
    <3>2. r.kind = "refresh" => {"rotation", "refreshTokenHash"} \subseteq r.diff
      <4>1. ASSUME req[q].kind = "refresh"
            PROVE  req[q].row.rotation # row[s].rotation /\ req[q].row.hash # row[s].hash
        <5>1. /\ req[q].token \in Tokens /\ req[q].row.hash \in Tokens
              /\ req[q].row.hash.rotation = req[q].row.rotation
          BY <1>0, <4>1 DEF Holds, Current
        <5>2. /\ req[q].row.rotation = req[q].token.rotation + 1
              /\ Within(row[s], req[q].token.rotation)
          BY <1>0, <1>1, <4>1 DEF RefreshHolds
        <5>3. req[q].row.rotation # row[s].rotation
          BY <1>0, <5>1, <5>2, Rotations DEF Within
        <5>4. ASSUME req[q].row.hash = row[s].hash PROVE FALSE
          <6>1. row[s].hash.rotation <= req[q].token.rotation
            BY <5>1, <5>2, <5>4, SessionsAssumption DEF Within
          <6> QED  BY <5>1, <5>2, <5>4, <6>1, Rotations
        <5> QED  BY <5>3, <5>4
      <4> QED  BY <1>2, <1>4, <4>1
    <3>3. RefreshHolds(s, q)'
      BY <1>0, <1>3, <1>4, <1>5, <1>8, <2>1, <2>3, <3>2 DEF RefreshHolds, AcceptedBelow, Within
    <3>4. LoginHolds(s, q)'
      <4>1. req[q].kind = "login" => req[q].row.hash # row[s].hash
        BY <1>0, <1>1, SessionsAssumption DEF Holds, LoginHolds
      <4> QED
       BY <1>2, <1>3, <1>4, <4>1, <1>5, <1>6, <2>1, <2>3 DEF LoginHolds, AcceptedBelow
    <3> QED  BY <1>5, <2>3, <3>1, <3>3, <3>4 DEF SaveHolds, Revoking
  <2> QED  BY <2>2, <2>3
<1> QED  BY <1>7, <1>9, <1>10 DEF Ordered

\* After the UPDATE the request is over.
LEMMA SaveEnds ==
    ASSUME IInv, NEW s \in SessionIds, Ordered(s), NEW q \in InFlight(s),
           NEW answered \in BOOLEAN, SaveUpdate(q, answered)
    PROVE  /\ InFlight(s)' = InFlight(s) \ {q}
           /\ \A p \in InFlight(s)' : req'[p] = req[p]
           /\ req[q].stage = "update"
           /\ row[s].state # "absent" /\ row'[s].state # "absent"
           /\ row'[s].state = IF "revokedAt" \in req[q].diff THEN req[q].row.state
                              ELSE row[s].state
           /\ row'[s].rotation = IF "rotation" \in req[q].diff THEN req[q].row.rotation
                                 ELSE row[s].rotation
           /\ row'[s].hash = IF "refreshTokenHash" \in req[q].diff THEN req[q].row.hash
                             ELSE row[s].hash
<1>1. /\ req \in [Requests -> ReqRecord] /\ row \in [SessionIds -> Row]
      /\ q \in Requests /\ req[q].session = s /\ Idle.session # s
  BY Parts, FlightIsTyped, SessionsAssumption DEF ReqsOK, RestOK, Idle
<1>2. row'[s] = Overwritten(row[s], req[q].row, req[q].diff)
  BY <1>1 DEF SaveUpdate
<1>3. req' = [req EXCEPT ![q] = Idle] /\ req[q].stage = "update"
  BY DEF SaveUpdate
<1>4. InFlight(s)' = InFlight(s) \ {q} /\ \A p \in InFlight(s)' : req'[p] = req[p]
  BY <1>1, <1>3 DEF InFlight
<1>5. row[s].state # "absent" /\ req[q].row.state # "absent"
  BY DEF Ordered, AbsentHolds, SaveHolds
<1> QED  BY <1>2, <1>3, <1>4, <1>5 DEF Overwritten

\* A stale write only ever revokes.
LEMMA RevokeSaves ==
    ASSUME IInv, NEW s \in SessionIds, Ordered(s), NEW q \in InFlight(s),
           NEW answered \in BOOLEAN, SaveUpdate(q, answered), Revoking(req[q])
    PROVE  Ordered(s)'
<1>1. /\ InFlight(s)' = InFlight(s) \ {q}
      /\ \A p \in InFlight(s)' : p \in InFlight(s) /\ p # q /\ req'[p] = req[p]
      /\ row'[s].state # "absent"
      /\ row'[s].rotation \in {req[q].row.rotation, row[s].rotation}
      /\ row'[s].hash \in {req[q].row.hash, row[s].hash}
  BY SaveEnds
<1>2. req[q].row.state = "revoked" /\ "revokedAt" \in req[q].diff
  BY FlightIsTyped, SaveEnds DEF Ordered, SaveHolds, Revoking, Holds
<1>3. row'[s].state = "revoked"
  BY <1>2, SaveEnds
<1>4. issued' = issued /\ spent' = spent
  BY DEF SaveUpdate, Revoking
<1>5. OneRefresh(s)' /\ AbsentHolds(s)' /\ LiveHolds(s)' /\ SpentOnce(s)'
  BY <1>1, <1>3, <1>4 DEF Ordered, OneRefresh, AbsentHolds, LiveHolds, SpentOnce
<1>6. ASSUME NEW n, RevokedWithin(s, n), Within(row[s], n)
      PROVE  RevokedWithin(s, n)' /\ Within(row[s], n)'
  <2>1. Within(req[q].row, n)
    BY <1>6 DEF RevokedWithin
  <2>2. Within(row[s], n)'
    BY <1>1, <1>6, <2>1 DEF Within
  <2>3. RevokedWithin(s, n)'
    BY <1>1, <1>6 DEF RevokedWithin, Within, Revoking
  <2> QED  BY <2>2, <2>3
<1>7. ASSUME NEW p \in InFlight(s)'
      PROVE  (SaveHolds(req[p]) /\ RefreshHolds(s, p) /\ LoginHolds(s, p))'
  <2>1. /\ p \in InFlight(s) /\ p # q /\ req'[p] = req[p]
        /\ SaveHolds(req[p]) /\ RefreshHolds(s, p) /\ LoginHolds(s, p)
    BY <1>1, <1>7 DEF Ordered
  <2>2. SaveHolds(req[p])'
    BY <2>1 DEF SaveHolds, Revoking
  <2>3. RefreshHolds(s, p)'
    BY <1>4, <1>6, <2>1 DEF RefreshHolds, AcceptedBelow
  <2>4. LoginHolds(s, p)'
    BY <1>1, <1>4, <2>1 DEF LoginHolds, AcceptedBelow
  <2> QED  BY <2>2, <2>3, <2>4
<1> QED  BY <1>5, <1>7 DEF Ordered

\* A refresh moves the row, and what has been accepted, up by one rotation.
LEMMA RefreshSaves ==
    ASSUME IInv, NEW s \in SessionIds, Ordered(s), NEW q \in InFlight(s),
           NEW answered \in BOOLEAN, SaveUpdate(q, answered), req[q].kind = "refresh"
    PROVE  Ordered(s)'
<1>t. PICK t \in Tokens : req[q].token = t
  BY FlightIsTyped
<1>0. /\ t.rotation \in Nat /\ Current(req[q].row.hash, req[q].row)
      /\ req[q].session = s /\ q \in Requests /\ spent \in [SessionIds -> [Tokens -> Nat]]
  BY FlightIsTyped, Rotations, Parts DEF Holds, RestOK
<1>1. /\ InFlight(s)' = InFlight(s) \ {q}
      /\ \A p \in InFlight(s)' : p \in InFlight(s) /\ p # q /\ req'[p] = req[p]
      /\ row'[s].state # "absent"
  BY SaveEnds
<1>2. /\ AcceptedBelow(s, t.rotation) /\ RevokedWithin(s, t.rotation)
      /\ req[q].row.rotation = t.rotation + 1
      /\ {"rotation", "refreshTokenHash"} \subseteq req[q].diff
  BY <1>t, SaveEnds DEF Ordered, RefreshHolds
<1>3. /\ row'[s].rotation = t.rotation + 1 /\ row'[s].hash = req[q].row.hash
      /\ row'[s].hash.rotation = t.rotation + 1
  BY <1>0, <1>2, SaveEnds DEF Current
<1>4. \A u \in Tokens : spent'[s][u] = IF u = t THEN spent[s][u] + 1 ELSE spent[s][u]
  <2>1. spent' = [spent EXCEPT ![s][t] = @ + 1]
    BY <1>0, <1>t DEF SaveUpdate
  <2> QED  BY <1>0, <2>1
<1>5. spent[s][t] = 0
  BY <1>0, <1>2 DEF AcceptedBelow
<1>6. AcceptedBelow(s, t.rotation + 1)' /\ SpentOnce(s)'
  <2>1. \A u \in Tokens : u.rotation \in Nat
    BY Rotations
  <2> QED  BY <1>0, <1>2, <1>4, <1>5, <2>1 DEF AcceptedBelow, SpentOnce, Ordered
<1>7. RevokedWithin(s, t.rotation + 1)'
  <2>1. ASSUME NEW p \in InFlight(s)', Revoking(req[p])' PROVE Within(req[p].row, t.rotation + 1)'
    <3>1. /\ p \in InFlight(s) /\ req'[p] = req[p] /\ req[p].row \in Row
          /\ Within(req[p].row, t.rotation)
      BY <1>1, <1>2, <2>1, FlightIsTyped DEF RevokedWithin, Revoking
    <3> QED  BY <1>0, <3>1, Rotations DEF Within
  <2> QED  BY <2>1 DEF RevokedWithin
<1>8. OneRefresh(s)' /\ AbsentHolds(s)'
  BY <1>1 DEF Ordered, OneRefresh, AbsentHolds
<1>9. LiveHolds(s)'
  BY <1>3, <1>6, <1>7 DEF LiveHolds, Current
<1>10. ASSUME NEW p \in InFlight(s)'
       PROVE  (SaveHolds(req[p]) /\ RefreshHolds(s, p) /\ LoginHolds(s, p))'
  <2>1. p \in InFlight(s) /\ p # q /\ req'[p] = req[p] /\ SaveHolds(req[p]) /\ LoginHolds(s, p)
    BY <1>1, <1>10 DEF Ordered
  <2>2. req[p].kind \notin {"refresh", "replay"}
    BY <2>1 DEF Ordered, OneRefresh
  <2>3. req[p].kind # "login"
    BY <2>1 DEF LoginHolds
  <2> QED  BY <2>1, <2>2, <2>3 DEF SaveHolds, RefreshHolds, LoginHolds, Revoking
<1> QED  BY <1>6, <1>8, <1>9, <1>10 DEF Ordered

\* A sign-in gives the row its first pair.
LEMMA LoginSaves ==
    ASSUME IInv, NEW s \in SessionIds, Ordered(s), NEW q \in InFlight(s),
           NEW answered \in BOOLEAN, SaveUpdate(q, answered), req[q].kind = "login"
    PROVE  Ordered(s)'
<1>0. Current(req[q].row.hash, req[q].row)
  BY FlightIsTyped DEF Holds
<1>1. /\ InFlight(s)' = InFlight(s) \ {q}
      /\ \A p \in InFlight(s)' : p \in InFlight(s) /\ p # q /\ req'[p] = req[p]
      /\ row'[s].state # "absent" /\ spent' = spent
  BY SaveEnds DEF SaveUpdate
<1>2. /\ AcceptedBelow(s, 0) /\ row[s].rotation = 0 /\ req[q].row.rotation = 0
      /\ "refreshTokenHash" \in req[q].diff
      /\ \A p \in InFlight(s) \ {q} :
            req[p].kind = "revoke" /\ req[p].row.rotation = 0 /\ req[p].row.hash = None
  BY SaveEnds DEF Ordered, LoginHolds
<1>3. row'[s].rotation = 0 /\ row'[s].hash.rotation = 0
  BY <1>0, <1>2, SaveEnds DEF Current
<1>4. \A p \in InFlight(s)' :
         req'[p].kind = "revoke" /\ req'[p].row.rotation = 0 /\ req'[p].row.hash = None
  BY <1>1, <1>2
<1>5. OneRefresh(s)' /\ AbsentHolds(s)' /\ SpentOnce(s)'
  BY <1>1, <1>4 DEF Ordered, OneRefresh, AbsentHolds, SpentOnce
<1>6. LiveHolds(s)'
  BY <1>1, <1>2, <1>3, <1>4 DEF LiveHolds, AcceptedBelow, RevokedWithin, Within, Current
<1>7. ASSUME NEW p \in InFlight(s)'
      PROVE  (SaveHolds(req[p]) /\ RefreshHolds(s, p) /\ LoginHolds(s, p))'
  BY <1>1, <1>4, <1>7 DEF Ordered, SaveHolds, RefreshHolds, LoginHolds, Revoking
<1> QED  BY <1>5, <1>6, <1>7 DEF Ordered

\* Every step keeps the order of a session that refreshes do not overlap on.
LEMMA OrderStep ==
    ASSUME IInv, [Next]_vars, NEW s \in SessionIds, Ordered(s), s \notin overlapped'
    PROVE  Ordered(s)'
<1>0. req \in [Requests -> ReqRecord] /\ row \in [SessionIds -> Row]
  BY Parts DEF ReqsOK, RestOK
<1>1. Idle.session # s
  BY SessionsAssumption DEF Idle
<1>2. ASSUME NEW q \in Requests, req' = [req EXCEPT ![q] = Idle],
             UNCHANGED <<row, issued, spent>>
      PROVE  Ordered(s)'
  BY <1>1, <1>2, Elsewhere
<1>3. ASSUME NEW q \in Requests, NEW k \in SessionIds, NEW t \in Tokens, RefreshRead(q, k, t)
      PROVE  Ordered(s)'
  <2> DEFINE r == [kind |-> IF Current(t, row[k]) THEN "refresh" ELSE "replay",
                   stage |-> IF Current(t, row[k]) THEN "user" ELSE "save",
                   session |-> k, token |-> t, diff |-> {},
                   row |-> IF Current(t, row[k]) THEN row[k]
                           ELSE [row[k] EXCEPT !.state = "revoked"]]
  <2>1. CASE k = s
    BY <1>3, <2>1, RefreshReads
  <2>2. CASE k # s
    <3>1. /\ req' = [req EXCEPT ![q] = r] /\ r.session # s
          /\ row'[s] = row[s] /\ issued'[s] = issued[s] /\ spent'[s] = spent[s]
      BY <1>3, <2>2 DEF RefreshRead
    <3> HIDE DEF r
    <3> QED  BY <3>1, Elsewhere
  <2> QED  BY <2>1, <2>2
<1>4. ASSUME NEW q \in Requests, NEW k \in SessionIds, RevokeRead(q, k) PROVE Ordered(s)'
  <2> DEFINE r == [kind |-> "revoke", stage |-> "save", session |-> k, token |-> None,
                   diff |-> {}, row |-> [row[k] EXCEPT !.state = "revoked"]]
  <2>1. CASE k = s
    BY <1>4, <2>1, RevokeReads
  <2>2. CASE k # s
    <3>1. /\ req' = [req EXCEPT ![q] = r] /\ r.session # s
          /\ row'[s] = row[s] /\ issued'[s] = issued[s] /\ spent'[s] = spent[s]
      BY <1>4, <2>2 DEF RevokeRead, history
    <3> HIDE DEF r
    <3> QED  BY <3>1, Elsewhere
  <2> QED  BY <2>1, <2>2
<1>5. ASSUME NEW q \in Requests, NEW k \in SessionIds, NEW stamp \in Stamps,
             LoginInsert(q, k, stamp)
      PROVE  Ordered(s)'
  <2> DEFINE r == [kind |-> "login", stage |-> "save", session |-> k, token |-> None, diff |-> {},
                   row |-> [state |-> "live", rotation |-> 0,
                            hash |-> [rotation |-> 0, stamp |-> stamp]]]
  <2>1. CASE k = s
    BY <1>5, <2>1, LoginInserts
  <2>2. CASE k # s
    <3>1. /\ req' = [req EXCEPT ![q] = r] /\ r.session # s
          /\ issued'[s] = issued[s] /\ spent'[s] = spent[s]
      BY <1>5, <2>2 DEF LoginInsert, history
    <3>2. row'[s] = row[s]
      BY <1>0, <1>5, <2>2 DEF LoginInsert
    <3> HIDE DEF r
    <3> QED  BY <3>1, <3>2, Elsewhere
  <2> QED  BY <2>1, <2>2
<1>6. ASSUME NEW q \in Requests, LoginRead(q) PROVE Ordered(s)'
  <2> DEFINE r == [Idle EXCEPT !.stage = "insert"]
  <2>1. /\ req' = [req EXCEPT ![q] = r] /\ r.session # s
        /\ row'[s] = row[s] /\ issued'[s] = issued[s] /\ spent'[s] = spent[s]
    BY <1>1, <1>6 DEF LoginRead, Idle, history
  <2> HIDE DEF r
  <2> QED  BY <2>1, Elsewhere
<1>7. ASSUME NEW q \in Requests, NEW stamp \in Stamps, RefreshUser(q, stamp) PROVE Ordered(s)'
  <2>1. CASE ~active
    BY <1>2, <1>7, <2>1 DEF RefreshUser, history
  <2>2. CASE active /\ q \in InFlight(s)
    BY <1>7, <2>2, RefreshGoesOn
  <2>3. CASE active /\ q \notin InFlight(s)
    <3> DEFINE mine == Rotated(req[q].row, stamp)
               r == [req[q] EXCEPT !.stage = "save", !.row = mine]
    <3>1. /\ req' = [req EXCEPT ![q] = r]
          /\ row'[s] = row[s] /\ issued'[s] = issued[s] /\ spent'[s] = spent[s]
      <4> HIDE DEF mine
      <4> QED  BY <1>0, <1>7, <2>3 DEF RefreshUser, ReqRecord, history, mine
    <3> HIDE DEF mine
    <3>2. r.session # s
      BY <1>0, <2>3 DEF ReqRecord, InFlight
    <3> HIDE DEF r
    <3> QED  BY <3>1, <3>2, Elsewhere
  <2> QED  BY <2>1, <2>2, <2>3
<1>8. ASSUME NEW q \in Requests, SaveDiff(q) PROVE Ordered(s)'
  <2>1. CASE q \in InFlight(s)
    BY <1>8, <2>1, SaveDiffs
  <2>2. CASE q \notin InFlight(s)
    <3> DEFINE d == {f \in Columns :
                       \/ f = "revokedAt" /\ "revoked" \in {req[q].row.state, row[req[q].session].state}
                       \/ f = "rotation" /\ req[q].row.rotation # row[req[q].session].rotation
                       \/ f = "refreshTokenHash" /\ req[q].row.hash # row[req[q].session].hash}
               r == [req[q] EXCEPT !.stage = "update", !.diff = d]
    <3>1. /\ req' = [req EXCEPT ![q] = r]
          /\ row'[s] = row[s] /\ issued'[s] = issued[s] /\ spent'[s] = spent[s]
      BY <1>0, <1>8 DEF SaveDiff, ReqRecord, history
    <3> HIDE DEF d
    <3>2. r.session # s
      BY <1>0, <2>2 DEF ReqRecord, InFlight
    <3> HIDE DEF r
    <3> QED  BY <3>1, <3>2, Elsewhere
  <2> QED  BY <2>1, <2>2
<1>9. ASSUME NEW q \in Requests, NEW answered \in BOOLEAN, SaveUpdate(q, answered)
      PROVE  Ordered(s)'
  <2>1. CASE q \in InFlight(s)
    BY <1>9, <2>1, FlightIsTyped, RevokeSaves, RefreshSaves, LoginSaves DEF Revoking
  <2>2. CASE q \notin InFlight(s)
    <3>1. req[q].session # s /\ req' = [req EXCEPT ![q] = Idle]
      BY <1>9, <2>2 DEF InFlight, SaveUpdate
    <3>2. row'[s] = row[s] /\ issued'[s] = issued[s] /\ spent'[s] = spent[s]
      <4>1. issued \in [SessionIds -> SUBSET Tokens] /\ spent \in [SessionIds -> [Tokens -> Nat]]
        BY Parts DEF RestOK
      <4> QED  BY <1>0, <1>9, <3>1, <4>1 DEF SaveUpdate
    <3> QED  BY <1>1, <3>1, <3>2, Elsewhere
  <2> QED  BY <2>1, <2>2
<1>10. ASSUME NEW q \in Requests, Abort(q) PROVE Ordered(s)'
  BY <1>2, <1>10 DEF Abort, history
<1>11. ASSUME NEW ended, EndSessions(ended), ended \subseteq Live, UNCHANGED <<req, issued, spent>>
       PROVE  Ordered(s)'
  <2>1. row'[s] = IF s \in ended THEN [row[s] EXCEPT !.state = "revoked"] ELSE row[s]
    BY <1>11 DEF EndSessions
  <2>2. CASE s \in ended
    <3> DEFINE x == [row[s] EXCEPT !.state = "revoked"]
    <3>1. x.state = "revoked" /\ x.rotation = row[s].rotation /\ x.hash = row[s].hash
      BY <1>0 DEF Row
    <3>2. row[s].state # "absent" /\ row'[s] = x
      BY <1>11, <2>1, <2>2 DEF Live
    <3> HIDE DEF x
    <3> QED  BY <1>11, <3>1, <3>2, RevokedAtOnce
  <2>3. CASE s \notin ended
    BY <1>11, <2>1, <2>3, RevokedAtOnce
  <2> QED  BY <2>2, <2>3
<1>12. ASSUME NEW k \in SessionIds, Logout(k) PROVE Ordered(s)'
  BY <1>11, <1>12 DEF Logout, SignedIn, Live
<1>13. ASSUME LogoutAll \/ ResetPassword PROVE Ordered(s)'
  BY <1>11, <1>13 DEF LogoutAll, ResetPassword
<1>14. ASSUME SetActive \/ UNCHANGED vars PROVE Ordered(s)'
  BY <1>14, RevokedAtOnce DEF SetActive, vars, history
<1> QED
  BY <1>3, <1>4, <1>5, <1>6, <1>7, <1>8, <1>9, <1>10, <1>12, <1>13, <1>14 DEF Next, SessionStep

LEMMA OrderAlways == Spec => []OrderInv
<1>1. Init => OrderInv
  BY SessionsAssumption DEF Init, OrderInv, Ordered, OneRefresh, AbsentHolds, LiveHolds, SpentOnce,
     InFlight, Idle, NoRow, AcceptedBelow
<1>2. IInv /\ OrderInv /\ [Next]_vars => OrderInv'
  <2> SUFFICES ASSUME IInv, OrderInv, [Next]_vars, NEW s \in SessionIds, s \notin overlapped'
               PROVE  Ordered(s)'
    BY DEF OrderInv
  <2>1. s \notin overlapped
    BY DEF Next, SessionStep, vars, history, RefreshRead, LoginInsert, RevokeRead, RefreshUser, LoginRead,
           SaveDiff, SaveUpdate, Abort, Logout, LogoutAll, ResetPassword, SetActive
  <2> QED  BY <2>1, OrderStep DEF OrderInv
<1> QED  BY <1>1, <1>2, Inductive, PTL DEF Spec

\* As long as refreshes of a session do not overlap, no token of it is accepted twice,
\* whatever answers are lost, whatever old tokens are presented and whatever revocations
\* write back (refresh, auth.service.ts).
THEOREM TokensBuyOneSuccessor == Spec => []EachTokenIsSpentOnce
<1>1. OrderInv => EachTokenIsSpentOnce
  BY DEF OrderInv, Ordered, SpentOnce, EachTokenIsSpentOnce
<1> QED  BY <1>1, OrderAlways, PTL

\* And the rotation and the hash of a live row are those of one token, so that the newest
\* token is never taken for a replay.
THEOREM RowsHoldOneToken == Spec => []LiveRowsHoldOneToken
<1>1. OrderInv => LiveRowsHoldOneToken
  BY DEF OrderInv, Ordered, LiveHolds, LiveRowsHoldOneToken
<1> QED  BY <1>1, OrderAlways, PTL

-----------------------------------------------------------------------------
(* Signing in: codes, tries and second factors.                            *)

WorkRecord ==
    [stage: {"idle", "save", "update", "mfa"}, code: 0..MaxCodes, state: {"open", "consumed"},
     attempts: 0..MaxTries, diff: SUBSET {"attempts", "state"}, factor: 0..MaxFactors]

\* Rows, requests and histories are well formed, and numbers not given out are unused.
CodesOK ==
    /\ code \in Seq(Code) /\ Len(code) \in 0..MaxCodes
    /\ work \in [Verifiers -> WorkRecord]
    /\ wins \in [1..MaxCodes -> Nat] /\ wrong \in [1..MaxCodes -> Nat]
    /\ crossed \subseteq DOMAIN code
    /\ \A c \in 1..MaxCodes \ DOMAIN code : wins[c] = 0 /\ wrong[c] = 0

\* What a request that checks a code holds.
WorkHolds(w) ==
    \/ w.code = 0 /\ w.stage = "idle"
    \/ /\ w.code \in DOMAIN code
       /\ code[w.code].state \in {"open", "consumed"}
       /\ \/ w.stage \in {"save", "update"} /\ code[w.code].kind = "otp"
          \/ w.stage = "mfa" /\ code[w.code].kind = "mfa" /\ w.code \notin crossed

\* A row replaces rows of its own kind that were there before it; it is new until it
\* is committed, and only one-time codes are ever crossed.
RowHolds(c) ==
    /\ \A b \in code[c].replaces :
           /\ b \in DOMAIN code /\ b # c
           /\ code[b].kind = code[c].kind /\ code[b].kind # "mfa" /\ code[b].state # "sending"
    /\ code[c].state = "sending" =>
           code[c].attempts = 0 /\ wins[c] = 0 /\ wrong[c] = 0 /\ c \notin crossed
    /\ code[c].state = "undone" => code[c].replaces = {}
    /\ c \in crossed => code[c].kind = "otp"

\* The number of tries that a row stores is the number of answers given for it, unless
\* it is the challenge of a second factor, whose wrong answers are rolled back; it is
\* consumed when it was accepted or replaced; and the one request that may be checking
\* it holds the row as it is.
Counted(c) ==
    /\ code[c].kind # "mfa" => code[c].attempts = wins[c] + wrong[c]
    /\ code[c].state # "consumed" => wins[c] = 0
    /\ wins[c] <= 1
    /\ \A d \in DOMAIN code :
           code[d].state \in {"open", "consumed"} /\ c \in code[d].replaces =>
               code[c].state = "consumed"

Checked(c) ==
    /\ \A v, w \in Verifiers : work[v].code = c /\ work[w].code = c => v = w
    /\ \A v \in Verifiers : work[v].code = c =>
           /\ code[c].state = "open" /\ code[c].attempts < MaxTries
           /\ Replacing(c) = {}
           /\ work[v].stage \in {"save", "update"} => work[v].attempts = code[c].attempts + 1
           /\ work[v].stage = "update" =>
                  /\ "attempts" \in work[v].diff
                  /\ "state" \in work[v].diff <=> work[v].state = "consumed"

SInv ==
    /\ CodesOK
    /\ \A v \in Verifiers : WorkHolds(work[v])
    /\ \A c \in DOMAIN code : RowHolds(c)
    /\ \A c \in DOMAIN code \ crossed : Counted(c) /\ Checked(c)


LEMMA Rows ==
    ASSUME CodesOK
    PROVE  /\ code \in [1..Len(code) -> Code] /\ DOMAIN code = 1..Len(code)
           /\ Len(code) \in Nat /\ DOMAIN code \subseteq 1..MaxCodes
<1>1. code \in Seq(Code) /\ Len(code) \in 0..MaxCodes /\ MaxCodes \in Nat
  BY SignInAssumption DEF CodesOK
<1>2. code \in [1..Len(code) -> Code] /\ DOMAIN code = 1..Len(code)
  BY <1>1, LenProperties
<1> QED  BY <1>1, <1>2

\* A function that gives each row a row is the sequence of the rows.
LEMMA RowsAgain ==
    ASSUME NEW n \in 0..MaxCodes, NEW f \in [1..n -> Code]
    PROVE  f \in Seq(Code) /\ Len(f) = n /\ DOMAIN f = 1..n
<1>1. f \in Seq(Code)
  BY SeqDef, SignInAssumption
<1> QED  BY <1>1, LenProperties, SignInAssumption

LEMMA SInvInit == SignInInit => SInv
<1> SUFFICES ASSUME SignInInit PROVE SInv
  OBVIOUS
<1>1. code = <<>> /\ code \in Seq(Code) /\ Len(code) = 0 /\ DOMAIN code = {}
  BY EmptySeq DEF SignInInit
<1>2. NoWork \in WorkRecord
  BY SignInAssumption DEF NoWork, WorkRecord
<1>3. CodesOK
  BY <1>1, <1>2, SignInAssumption DEF SignInInit, CodesOK
<1> QED  BY <1>1, <1>3, SignInAssumption DEF SInv, SignInInit, WorkHolds, NoWork

LEMMA SameChallenges == SInv /\ UNCHANGED challenges => SInv'
BY DEF SInv, challenges, CodesOK, WorkHolds, RowHolds, Counted, Checked, Replacing

\* A new row, which crosses the checks of the rows that it replaces.
LEMMA NewRow ==
    ASSUME SInv, Len(code) < MaxCodes, NEW new \in Code, code' = Append(code, new),
           new.attempts = 0, new.replaces \subseteq Open(new.kind),
           new.state \in {"sending", "open"},
           new.kind = "mfa" \/ new.state = "open" => new.replaces = {},
           crossed' = crossed \cup {c \in new.replaces : Checking(c) # {}},
           UNCHANGED <<work, wins, wrong>>
    PROVE  SInv'
<1> DEFINE n == Len(code)
           kind == new.kind
<1>1. /\ code \in [1..n -> Code] /\ DOMAIN code = 1..n /\ n \in Nat /\ n < MaxCodes
      /\ MaxCodes \in Nat /\ MaxTries \in Nat /\ n + 1 \in 0..MaxCodes
  BY Rows, SignInAssumption DEF SInv
<1>3. /\ code' \in Seq(Code) /\ Len(code') = n + 1 /\ DOMAIN code' = 1..(n + 1)
      /\ \A d \in 1..n : code'[d] = code[d]
      /\ code'[n + 1] = new
  BY <1>1, AppendProperties, LenProperties DEF SInv, CodesOK
<1>4. /\ UNCHANGED <<work, wins, wrong>>
      /\ crossed' = crossed \cup {c \in new.replaces : Checking(c) # {}}
      /\ new.replaces \subseteq Open(kind) /\ Open(kind) \subseteq 1..n /\ crossed \subseteq 1..n
  BY <1>1 DEF SInv, CodesOK, Open
<1>kind. kind = "mfa" => new.replaces = {}
  OBVIOUS
<1> HIDE DEF n, kind
<1>old. n + 1 \in 1..MaxCodes /\ n + 1 \notin 1..n /\ 1..n \subseteq 1..(n + 1)
  BY <1>1
<1>unused. wins[n + 1] = 0 /\ wrong[n + 1] = 0 /\ n + 1 \notin crossed
  BY <1>1, <1>4, <1>old DEF SInv, CodesOK
<1>5. CodesOK'
  BY <1>1, <1>3, <1>4, <1>old DEF SInv, CodesOK
<1>6. ASSUME NEW v \in Verifiers PROVE WorkHolds(work[v])'
  BY <1>1, <1>3, <1>4 DEF SInv, WorkHolds, Open
<1>7. ASSUME NEW c \in 1..(n + 1) PROVE RowHolds(c)'
  <2>1. CASE c \in 1..n
    <3>1. RowHolds(c) /\ code'[c] = code[c]
      BY <2>1, <1>1, <1>3 DEF SInv
    <3>2. c \in crossed' =>
              c \in crossed \/ (code[c].kind = "otp" /\ code[c].state = "open")
      <4> SUFFICES ASSUME c \in Open(kind), kind # "mfa", NEW v \in Verifiers, work[v].code = c
                   PROVE  code[c].kind = "otp" /\ code[c].state = "open"
        BY <1>4, <1>kind DEF Checking
      <4>1. WorkHolds(work[v]) /\ code[c].kind = kind /\ code[c].state = "open" /\ c # 0
        BY <2>1 DEF SInv, Open
      <4> QED  BY <4>1 DEF WorkHolds
    <3> QED  BY <2>1, <3>1, <3>2, <1>1, <1>3, <1>4, <1>old, <1>kind DEF RowHolds
  <2>2. CASE c = n + 1
    <3>1. /\ code'[c].replaces = new.replaces /\ code'[c].kind = kind
          /\ code'[c].attempts = 0 /\ code'[c].state \in {"sending", "open"}
      BY <2>2, <1>3 DEF kind
    <3>2. c \notin crossed'
      BY <2>2, <1>4, <1>old, <1>unused
    <3>3. \A b \in new.replaces : code'[b] = code[b] /\ b # c /\ b \in 1..(n + 1)
      BY <2>2, <1>3, <1>4, <1>old
    <3> QED  BY <2>2, <3>1, <3>2, <3>3, <1>3, <1>4, <1>unused, <1>kind DEF RowHolds, Open
  <2> QED  BY <2>1, <2>2, <1>1
<1>8. ASSUME NEW c \in 1..(n + 1), c \notin crossed' PROVE Counted(c)'
  <2>1. CASE c \in 1..n
    BY <2>1, <1>8, <1>1, <1>3, <1>4 DEF SInv, Counted
  <2>2. CASE c = n + 1
    <3>1. \A d \in 1..(n + 1) : c \notin code'[d].replaces
      BY <2>2, <1>1, <1>3, <1>4, <1>old DEF SInv, RowHolds
    <3> QED  BY <2>2, <3>1, <1>3, <1>4, <1>unused DEF Counted
  <2> QED  BY <2>1, <2>2, <1>1
<1>9. ASSUME NEW c \in 1..(n + 1), c \notin crossed' PROVE Checked(c)'
  <2>1. CASE c \in 1..n
    <3>1. CASE \E v \in Verifiers : work[v].code = c
      <4>1. Checked(c) /\ c \notin new.replaces
        BY <3>1, <2>1, <1>9, <1>1, <1>4 DEF SInv, Checking
      <4>2. Replacing(c)' = {}
        BY <4>1, <3>1, <2>1, <1>1, <1>3 DEF Checked, Replacing
      <4> QED  BY <4>1, <4>2, <2>1, <1>3, <1>4 DEF Checked
    <3>2. CASE ~ \E v \in Verifiers : work[v].code = c
      BY <3>2, <1>4 DEF Checked
    <3> QED  BY <3>1, <3>2
  <2>2. CASE c = n + 1
    <3>1. \A v \in Verifiers : work[v].code # c
      BY <2>2, <1>1 DEF SInv, WorkHolds
    <3> QED  BY <3>1, <1>4 DEF Checked
  <2> QED  BY <2>1, <2>2, <1>1
<1> QED  BY <1>3, <1>5, <1>6, <1>7, <1>8, <1>9 DEF SInv

LEMMA SendCommitStep ==
    ASSUME SInv, NEW c0 \in DOMAIN code, SendCommit(c0)
    PROVE  SInv'
<1> DEFINE n == Len(code)
           R == code[c0].replaces
<1>1. /\ code \in [1..n -> Code] /\ DOMAIN code = 1..n /\ n \in 0..MaxCodes /\ c0 \in 1..n
      /\ 1..n \subseteq 1..MaxCodes
  BY Rows DEF SInv, CodesOK
<1>2. /\ \A d \in 1..n : code'[d] = CASE d = c0 -> [code[d] EXCEPT !.state = "open"]
                                      [] d \in R -> [code[d] EXCEPT !.state = "consumed"]
                                      [] OTHER -> code[d]
      /\ code' = [d \in 1..n |-> code'[d]]
      /\ UNCHANGED <<work, wins, wrong, crossed>>
      /\ code[c0].state = "sending"
  BY <1>1 DEF SendCommit, Replaced
<1> HIDE DEF n
<1>3. ASSUME NEW d \in 1..n
      PROVE  /\ code'[d] \in Code
             /\ code'[d].kind = code[d].kind /\ code'[d].attempts = code[d].attempts
             /\ code'[d].replaces = code[d].replaces
             /\ code'[d].state = IF d = c0 THEN "open"
                                 ELSE IF d \in R THEN "consumed" ELSE code[d].state
  <2>1. code[d] \in Code
    BY <1>1
  <2>2. /\ [code[d] EXCEPT !.state = "open"] \in Code
        /\ [code[d] EXCEPT !.state = "consumed"] \in Code
    BY <2>1 DEF Code
  <2>3. CASE d = c0
    <3>1. code'[d] = [code[d] EXCEPT !.state = "open"]
      <4>1. c0 \notin R
        BY <1>1 DEF SInv, RowHolds
      <4> QED  BY <4>1, <2>3, <1>2
    <3>2. code'[d] \in Code
      BY <2>2, <3>1
    <3>3. /\ code'[d].kind = code[d].kind /\ code'[d].attempts = code[d].attempts
          /\ code'[d].replaces = code[d].replaces /\ code'[d].state = "open"
      BY <2>1, <3>1 DEF Code
    <3> QED  BY <2>3, <3>2, <3>3
  <2>4. CASE d # c0 /\ d \in R
    <3>1. code'[d] = [code[d] EXCEPT !.state = "consumed"]
      BY <2>4, <1>2
    <3> QED  BY <2>1, <2>2, <2>4, <3>1 DEF Code
  <2>5. CASE d # c0 /\ d \notin R
    <3>1. code'[d] = code[d]
      BY <2>5, <1>2
    <3> QED  BY <2>1, <2>5, <3>1
  <2> QED  BY <2>3, <2>4, <2>5
<1>4. code' \in Seq(Code) /\ Len(code') = n /\ DOMAIN code' = 1..n
  <2>1. code' \in [1..n -> Code]
    BY <1>2, <1>3
  <2> QED  BY <2>1, <1>1, RowsAgain
<1>5. CodesOK'
  BY <1>1, <1>2, <1>4 DEF SInv, CodesOK
<1>6. ASSUME NEW v \in Verifiers PROVE WorkHolds(work[v])'
  BY <1>1, <1>2, <1>3, <1>4 DEF SInv, WorkHolds
<1>7. ASSUME NEW c \in 1..n PROVE RowHolds(c)'
  <2>1. RowHolds(c) /\ RowHolds(c0)
    BY <1>1 DEF SInv
  <2>2. code'[c].state = "sending" => code[c].state = "sending"
    BY <1>3
  <2>3. \A b \in code[c].replaces : code'[b].state # "sending" /\ code'[b].kind = code[b].kind
    BY <2>1, <1>1, <1>3 DEF RowHolds
  <2> QED  BY <2>1, <2>2, <2>3, <1>1, <1>2, <1>3, <1>4 DEF RowHolds
<1>8. ASSUME NEW c \in 1..n, c \notin crossed PROVE Counted(c)'
  <2>1. Counted(c) /\ RowHolds(c) /\ RowHolds(c0)
    BY <1>1, <1>8 DEF SInv
  <2>2. code'[c].state # "consumed" => wins[c] = 0
    BY <2>1, <1>2, <1>3 DEF Counted, RowHolds
  <2>3. ASSUME NEW d \in 1..n, code'[d].state \in {"open", "consumed"}, c \in code[d].replaces
        PROVE  code'[c].state = "consumed"
    <3>1. CASE d = c0
      BY <3>1, <2>1, <2>3, <1>1, <1>3 DEF RowHolds
    <3>2. CASE d # c0 /\ d \notin R
      <4>1. code[c].state = "consumed"
        BY <3>2, <2>1, <2>3, <1>1, <1>3 DEF Counted
      <4> QED  BY <4>1, <1>2, <1>3
    <3>3. CASE d # c0 /\ d \in R
      <4>1. code[d].state \in {"open", "consumed"}
        <5>1. RowHolds(c0) /\ RowHolds(d) /\ code[d] \in Code
          BY <1>1 DEF SInv
        <5> QED  BY <5>1, <2>3, <3>3 DEF RowHolds, Code
      <4> QED  BY <4>1, <3>3, <2>1, <2>3, <1>1, <1>2, <1>3 DEF Counted
    <3> QED  BY <3>1, <3>2, <3>3
  <2> QED  BY <2>1, <2>2, <2>3, <1>2, <1>3, <1>4 DEF Counted
<1>9. ASSUME NEW c \in 1..n, c \notin crossed PROVE Checked(c)'
  <2>1. Checked(c)
    BY <1>1, <1>9 DEF SInv
  <2>2. ASSUME NEW v \in Verifiers, work[v].code = c
        PROVE  c # c0 /\ c \notin R /\ Replacing(c)' = {}
    <3>1. code[c].state = "open" /\ Replacing(c) = {}
      BY <2>1, <2>2 DEF Checked
    <3>2. c # c0 /\ c \notin R
      BY <3>1, <1>1, <1>2 DEF Replacing
    <3>3. Replacing(c)' \subseteq Replacing(c)
      BY <1>1, <1>3, <1>4 DEF Replacing
    <3> QED  BY <3>1, <3>2, <3>3
  <2> QED  BY <2>1, <2>2, <1>2, <1>3, <1>4 DEF Checked
<1> QED  BY <1>2, <1>4, <1>5, <1>6, <1>7, <1>8, <1>9 DEF SInv

\* A step that changes the state and the tries of one row c0, and may end the one
\* request that checks it.
RowMoves(c0) ==
    /\ code' \in [1..Len(code) -> Code]
    /\ \A d \in DOMAIN code \ {c0} : code'[d] = code[d]
    /\ code'[c0].kind = code[c0].kind /\ code'[c0].replaces \subseteq code[c0].replaces
    /\ \/ code'[c0].state = "undone" /\ code'[c0].replaces = {} /\ code[c0].state = "sending"
       \/ code'[c0].state # "undone" /\ code[c0].state # "undone"
          /\ code'[c0].state # "sending" /\ code[c0].state # "sending"

CountsMove(c0) ==
    /\ wins' \in [1..MaxCodes -> Nat] /\ wrong' \in [1..MaxCodes -> Nat]
    /\ \A d \in 1..MaxCodes \ {c0} : wins'[d] = wins[d] /\ wrong'[d] = wrong[d]

CheckEnds(c0) ==
    /\ work' \in [Verifiers -> WorkRecord]
    /\ \A v \in Verifiers : work'[v] = work[v] \/ (work[v].code = c0 /\ work'[v] = NoWork)

RowAddsUp(c0) ==
    /\ crossed' = crossed
    /\ c0 \notin crossed =>
           /\ code[c0].kind # "mfa" => code'[c0].attempts = wins'[c0] + wrong'[c0]
           /\ code'[c0].state # "consumed" => wins'[c0] = 0
           /\ wins'[c0] <= 1
           /\ code[c0].state = "consumed" => code'[c0].state = "consumed"
           /\ \A v \in Verifiers : work'[v].code # c0

LEMMA OneRow ==
    ASSUME SInv, NEW c0 \in DOMAIN code,
           RowMoves(c0), CountsMove(c0), CheckEnds(c0), RowAddsUp(c0)
    PROVE  SInv'
<1> DEFINE n == Len(code)
<1>1. /\ code \in [1..n -> Code] /\ DOMAIN code = 1..n /\ n \in 0..MaxCodes /\ c0 \in 1..n
      /\ 1..n \subseteq 1..MaxCodes /\ 0 \notin 1..n
      /\ wins \in [1..MaxCodes -> Nat] /\ wrong \in [1..MaxCodes -> Nat]
  BY Rows DEF SInv, CodesOK
<1>rows. code' \in [1..n -> Code]
  BY DEF RowMoves
<1>2. code' \in Seq(Code) /\ Len(code') = n /\ DOMAIN code' = 1..n
  BY <1>1, <1>rows, RowsAgain
<1> HIDE DEF n
<1>3. \A d \in 1..n \ {c0} : code'[d] = code[d]
  BY <1>1 DEF RowMoves
<1>4. /\ code'[c0].kind = code[c0].kind /\ code'[c0].replaces \subseteq code[c0].replaces
      /\ \/ code'[c0].state = "undone" /\ code'[c0].replaces = {} /\ code[c0].state = "sending"
         \/ code'[c0].state # "undone" /\ code[c0].state # "undone"
            /\ code'[c0].state # "sending" /\ code[c0].state # "sending"
  BY DEF RowMoves
<1>5. /\ work' \in [Verifiers -> WorkRecord] /\ crossed' = crossed
      /\ \A v \in Verifiers : work'[v] = work[v] \/ (work[v].code = c0 /\ work'[v] = NoWork)
      /\ NoWork.code = 0 /\ NoWork.stage = "idle"
  BY DEF CheckEnds, RowAddsUp, NoWork
<1>6. \A c \in 1..n \ {c0} : wins'[c] = wins[c] /\ wrong'[c] = wrong[c]
  BY <1>1 DEF CountsMove
<1>7. c0 \notin crossed =>
           /\ code[c0].kind # "mfa" => code'[c0].attempts = wins'[c0] + wrong'[c0]
           /\ code'[c0].state # "consumed" => wins'[c0] = 0
           /\ wins'[c0] <= 1
           /\ code[c0].state = "consumed" => code'[c0].state = "consumed"
           /\ \A v \in Verifiers : work'[v].code # c0
  BY DEF RowAddsUp
<1>8. ASSUME NEW d \in 1..n
      PROVE  /\ code'[d].kind = code[d].kind /\ code'[d].replaces \subseteq code[d].replaces
             /\ code'[d].state = "sending" => code[d].state = "sending" /\ d # c0
             /\ code'[d].state \in {"open", "consumed"} <=> code[d].state \in {"open", "consumed"}
  <2>1. code[d] \in Code /\ code'[d] \in Code
    BY <1>1, <1>rows
  <2>2. CASE d = c0
    BY <2>1, <2>2, <1>4 DEF Code
  <2>3. CASE d # c0
    BY <2>3, <1>3
  <2> QED  BY <2>2, <2>3
<1>9. CodesOK'
  BY <1>1, <1>2, <1>5 DEF SInv, CodesOK, CountsMove
<1>10. ASSUME NEW v \in Verifiers PROVE WorkHolds(work[v])'
  <2>1. CASE work'[v] = NoWork
    BY <2>1, <1>5 DEF WorkHolds
  <2>2. CASE work'[v] = work[v]
    <3>1. WorkHolds(work[v])
      BY DEF SInv
    <3> QED  BY <3>1, <2>2, <1>1, <1>2, <1>5, <1>8 DEF WorkHolds
  <2> QED  BY <2>1, <2>2, <1>5
<1>11. ASSUME NEW c \in 1..n PROVE RowHolds(c)'
  <2>1. RowHolds(c)
    BY <1>1 DEF SInv
  <2>2. \A b \in code'[c].replaces :
            b \in 1..n /\ b # c /\ code'[b].kind = code'[c].kind /\ code'[b].kind # "mfa"
            /\ code'[b].state # "sending"
    BY <2>1, <1>1, <1>8 DEF RowHolds
  <2>3. code'[c].state = "sending" =>
            code'[c].attempts = 0 /\ wins'[c] = 0 /\ wrong'[c] = 0 /\ c \notin crossed'
    BY <2>1, <1>3, <1>5, <1>6, <1>8 DEF RowHolds
  <2>4. code'[c].state = "undone" => code'[c].replaces = {}
    BY <2>1, <1>3, <1>4 DEF RowHolds
  <2>5. c \in crossed' => code'[c].kind = "otp"
    BY <2>1, <1>5, <1>8 DEF RowHolds
  <2> QED  BY <2>2, <2>3, <2>4, <2>5, <1>2 DEF RowHolds
<1>12. ASSUME NEW c \in 1..n, c \notin crossed PROVE Counted(c)'
  <2>1. Counted(c)
    BY <1>1, <1>12 DEF SInv
  <2>2. ASSUME NEW d \in 1..n, code'[d].state \in {"open", "consumed"}, c \in code'[d].replaces
        PROVE  code'[c].state = "consumed"
    <3>1. code[c].state = "consumed"
      BY <2>1, <2>2, <1>1, <1>8 DEF Counted
    <3> QED  BY <3>1, <1>3, <1>7, <1>12
  <2>3. CASE c = c0
    BY <2>2, <2>3, <1>2, <1>4, <1>7, <1>12 DEF Counted
  <2>4. CASE c # c0
    BY <2>1, <2>2, <2>4, <1>2, <1>3, <1>6 DEF Counted
  <2> QED  BY <2>3, <2>4
<1>13. ASSUME NEW c \in 1..n, c \notin crossed PROVE Checked(c)'
  <2>1. Checked(c) /\ c # 0
    BY <1>1, <1>13 DEF SInv
  <2>2. CASE c = c0
    BY <2>2, <1>7, <1>13 DEF Checked
  <2>3. CASE c # c0
    <3>1. \A v \in Verifiers : work'[v].code = c => work'[v] = work[v]
      BY <2>1, <1>5
    <3>2. Replacing(c)' \subseteq Replacing(c)
      BY <1>1, <1>2, <1>8 DEF Replacing
    <3> QED  BY <2>1, <2>3, <3>1, <3>2, <1>3 DEF Checked
  <2> QED  BY <2>2, <2>3
<1> QED  BY <1>2, <1>5, <1>9, <1>10, <1>11, <1>12, <1>13 DEF SInv

\* A step of one request that checks a code.
LEMMA OneCheck ==
    ASSUME SInv, NEW v0 \in Verifiers, NEW w \in WorkRecord, work' = [work EXCEPT ![v0] = w],
           WorkHolds(w)', UNCHANGED <<code, wins, wrong>>,
           crossed \subseteq crossed', crossed' \subseteq crossed \cup {w.code},
           w.code \in crossed' \ crossed =>
               w.code \in DOMAIN code /\ code[w.code].kind = "otp" /\ code[w.code].state = "open",
           w.code \in DOMAIN code \ crossed' =>
               /\ \A v \in Verifiers \ {v0} : work[v].code # w.code
               /\ code[w.code].state = "open" /\ code[w.code].attempts < MaxTries
               /\ Replacing(w.code) = {}
               /\ w.stage \in {"save", "update"} => w.attempts = code[w.code].attempts + 1
               /\ w.stage = "update" =>
                      /\ "attempts" \in w.diff
                      /\ "state" \in w.diff <=> w.state = "consumed"
    PROVE  SInv'
<1>1. work \in [Verifiers -> WorkRecord] /\ work'[v0] = w
  BY DEF SInv, CodesOK
<1>2. \A v \in Verifiers \ {v0} : work'[v] = work[v]
  BY <1>1
<1>3. CodesOK'
  BY <1>1 DEF SInv, CodesOK
<1>4. ASSUME NEW v \in Verifiers PROVE WorkHolds(work[v])'
  <2>1. CASE v = v0
    BY <2>1, <1>1
  <2>2. CASE v # v0
    BY <2>2, <1>2 DEF SInv, WorkHolds
  <2> QED  BY <2>1, <2>2
<1>5. ASSUME NEW c \in DOMAIN code PROVE RowHolds(c)'
  <2>1. RowHolds(c) /\ (c \in crossed' => c \in crossed \/ c = w.code)
    BY DEF SInv
  <2> QED  BY <2>1 DEF RowHolds
<1>6. ASSUME NEW c \in DOMAIN code, c \notin crossed' PROVE Counted(c)'
  BY <1>6 DEF SInv, Counted
<1>7. ASSUME NEW c \in DOMAIN code, c \notin crossed' PROVE Checked(c)'
  <2>1. Checked(c)
    BY <1>7 DEF SInv
  <2>2. Replacing(c)' = Replacing(c)
    BY DEF Replacing
  <2>3. CASE c = w.code
    BY <2>2, <2>3, <1>1, <1>2, <1>7 DEF Checked
  <2>4. CASE c # w.code
    BY <2>1, <2>2, <2>4, <1>1, <1>2 DEF Checked
  <2> QED  BY <2>3, <2>4
<1> QED  BY <1>3, <1>4, <1>5, <1>6, <1>7 DEF SInv

\* A code that resets the password is accepted, and all open ones go with it.
LEMMA ResetRightStep ==
    ASSUME SInv, NEW c0 \in DOMAIN code, ResetRight(c0)
    PROVE  SInv'
<1> DEFINE n == Len(code)
           R == Open("reset")
<1>1. /\ code \in [1..n -> Code] /\ DOMAIN code = 1..n /\ n \in 0..MaxCodes /\ c0 \in 1..n
      /\ 1..n \subseteq 1..MaxCodes /\ R \subseteq 1..n
      /\ wins \in [1..MaxCodes -> Nat] /\ wrong \in [1..MaxCodes -> Nat]
  BY Rows DEF SInv, CodesOK, Open
<1>2. /\ c0 \in R /\ code[c0].attempts < MaxTries
      /\ wins' = [wins EXCEPT ![c0] = @ + 1]
      /\ UNCHANGED <<work, wrong, crossed>>
  BY <1>1 DEF ResetRight, Triable
<1>upd. code' = [d \in 1..n |->
            IF d \in R
            THEN [code[d] EXCEPT !.state = "consumed", !.attempts = IF d = c0 THEN @ + 1 ELSE @]
            ELSE code[d]]
  BY <1>1 DEF ResetRight
<1>3. \A d \in R : code[d].kind = "reset" /\ code[d].state = "open"
  BY DEF Open
<1> HIDE DEF n, R
<1>4. ASSUME NEW d \in 1..n
      PROVE  /\ code'[d] \in Code
             /\ code'[d].kind = code[d].kind /\ code'[d].replaces = code[d].replaces
             /\ code'[d].state = IF d \in R THEN "consumed" ELSE code[d].state
             /\ code'[d].attempts = IF d = c0 THEN code[d].attempts + 1 ELSE code[d].attempts
  <2>1. code[d] \in Code
    BY <1>1
  <2>2. CASE d = c0
    <3>1. code'[d] = [code[d] EXCEPT !.state = "consumed", !.attempts = @ + 1]
      BY <2>2, <1>2, <1>upd
    <3>2. code[d].attempts + 1 \in 0..MaxTries
      <4>1. code[d].attempts \in 0..MaxTries /\ MaxTries \in Nat
        BY <2>1, SignInAssumption DEF Code
      <4> QED  BY <4>1, <2>2, <1>2
    <3> QED  BY <2>1, <2>2, <3>1, <3>2, <1>2 DEF Code
  <2>3. CASE d # c0 /\ d \in R
    <3>1. code'[d] = [code[d] EXCEPT !.state = "consumed", !.attempts = @]
      BY <2>3, <1>upd
    <3> QED  BY <2>1, <2>3, <3>1 DEF Code
  <2>4. CASE d \notin R
    <3>1. d # c0 /\ code'[d] = code[d]
      BY <2>4, <1>2, <1>upd
    <3> QED  BY <2>1, <2>4, <3>1
  <2> QED  BY <2>2, <2>3, <2>4
<1>5. code' \in Seq(Code) /\ Len(code') = n /\ DOMAIN code' = 1..n
  <2>1. code' \in [1..n -> Code]
    BY <1>upd, <1>4
  <2> QED  BY <2>1, <1>1, RowsAgain
<1>6. wins'[c0] = wins[c0] + 1 /\ \A c \in 1..MaxCodes \ {c0} : wins'[c] = wins[c]
  BY <1>1, <1>2
<1>7. CodesOK'
  BY <1>1, <1>2, <1>5, <1>6 DEF SInv, CodesOK
<1>8. ASSUME NEW v \in Verifiers PROVE WorkHolds(work[v])'
  BY <1>1, <1>2, <1>4, <1>5 DEF SInv, WorkHolds
<1>9. ASSUME NEW c \in 1..n PROVE RowHolds(c)'
  <2>1. RowHolds(c)
    BY <1>1 DEF SInv
  <2>2. \A b \in code[c].replaces : code'[b].state # "sending" /\ code'[b].kind = code[b].kind
    BY <2>1, <1>1, <1>4 DEF RowHolds
  <2>3. code'[c].state = "sending" => c # c0 /\ code[c].state = "sending"
    BY <1>2, <1>4
  <2>4. code'[c].state = "undone" => code[c].state = "undone"
    BY <1>4
  <2>5. code'[c].state = "sending" =>
            code'[c].attempts = 0 /\ wins'[c] = 0 /\ wrong'[c] = 0 /\ c \notin crossed'
    <3> SUFFICES ASSUME code'[c].state = "sending" PROVE
                     code'[c].attempts = 0 /\ wins'[c] = 0 /\ wrong'[c] = 0 /\ c \notin crossed'
      OBVIOUS
    <3>1. c # c0 /\ code[c].state = "sending" /\ c \in 1..MaxCodes
      BY <2>3, <1>1
    <3>2. wins'[c] = wins[c] /\ wrong'[c] = wrong[c] /\ code'[c].attempts = code[c].attempts
      BY <3>1, <1>2, <1>4, <1>6
    <3> QED  BY <2>1, <3>1, <3>2, <1>2 DEF RowHolds
  <2>6. /\ code'[c].replaces = code[c].replaces /\ code'[c].kind = code[c].kind
        /\ DOMAIN code' = DOMAIN code /\ crossed' = crossed
    BY <1>1, <1>2, <1>4, <1>5
  <2> QED  BY <2>1, <2>2, <2>4, <2>5, <2>6 DEF RowHolds
<1>10. ASSUME NEW c \in 1..n, c \notin crossed PROVE Counted(c)'
  <2>1. Counted(c) /\ wins[c] \in Nat /\ wrong[c] \in Nat
    BY <1>1, <1>10 DEF SInv
  <2>2. ASSUME NEW d \in 1..n, code'[d].state \in {"open", "consumed"}, c \in code[d].replaces
        PROVE  code'[c].state = "consumed"
    BY <2>1, <2>2, <1>1, <1>3, <1>4 DEF Counted
  <2>3. CASE c = c0
    BY <2>1, <2>2, <2>3, <1>2, <1>3, <1>4, <1>5, <1>6 DEF Counted
  <2>4. CASE c # c0
    BY <2>1, <2>2, <2>4, <1>1, <1>2, <1>3, <1>4, <1>5, <1>6 DEF Counted
  <2> QED  BY <2>3, <2>4
<1>11. ASSUME NEW c \in 1..n, c \notin crossed PROVE Checked(c)'
  <2>1. Checked(c)
    BY <1>1, <1>11 DEF SInv
  <2>2. ASSUME NEW v \in Verifiers, work[v].code = c
        PROVE  c \notin R /\ c # c0 /\ Replacing(c)' = {}
    <3>1. c \notin R
      BY <2>2, <1>1, <1>3 DEF SInv, WorkHolds
    <3>2. Replacing(c)' \subseteq Replacing(c) /\ Replacing(c) = {}
      BY <2>1, <2>2, <1>1, <1>4, <1>5 DEF Replacing, Checked
    <3> QED  BY <3>1, <3>2, <1>2
  <2> QED  BY <2>1, <2>2, <1>2, <1>4, <1>5 DEF Checked
<1> QED  BY <1>2, <1>5, <1>7, <1>8, <1>9, <1>10, <1>11 DEF SInv

LEMMA CodeSteps ==
    ASSUME SInv,
           \/ \E kind \in {"otp", "reset"} : SendBegin(kind)
           \/ LoginMfa
           \/ \E c \in DOMAIN code : SendCommit(c) \/ SendAbort(c) \/ ResetWrong(c) \/ ResetRight(c)
    PROVE  SInv'
<1>0. /\ MaxTries \in Nat \ {0} /\ MaxCodes \in Nat
      /\ code \in [1..Len(code) -> Code] /\ DOMAIN code = 1..Len(code)
      /\ DOMAIN code \subseteq 1..MaxCodes
      /\ work \in [Verifiers -> WorkRecord]
      /\ wins \in [1..MaxCodes -> Nat] /\ wrong \in [1..MaxCodes -> Nat]
  BY Rows, SignInAssumption DEF SInv, CodesOK
<1>1. ASSUME NEW kind \in {"otp", "reset"}, SendBegin(kind) PROVE SInv'
  <2> DEFINE new == [kind |-> kind, state |-> "sending", attempts |-> 0,
                     replaces |-> Open(kind)]
  <2>1. new \in Code /\ new.kind = kind /\ new.attempts = 0 /\ new.state = "sending"
        /\ new.replaces = Open(kind)
    BY <1>0 DEF Code, Open
  <2>2. /\ Len(code) < MaxCodes /\ code' = Append(code, new)
        /\ crossed' = crossed \cup {c \in Open(kind) : Checking(c) # {}}
        /\ UNCHANGED <<work, wins, wrong>>
    BY <1>1 DEF SendBegin
  <2> HIDE DEF new
  <2> QED  BY <2>1, <2>2, NewRow
<1>2. ASSUME LoginMfa PROVE SInv'
  <2> DEFINE new == [kind |-> "mfa", state |-> "open", attempts |-> 0, replaces |-> {}]
  <2>1. new \in Code /\ new.kind = "mfa" /\ new.attempts = 0 /\ new.state = "open"
        /\ new.replaces = {}
    BY <1>0 DEF Code
  <2>2. /\ Len(code) < MaxCodes /\ code' = Append(code, new)
        /\ UNCHANGED <<work, wins, wrong, crossed>>
    BY <1>2 DEF LoginMfa
  <2> HIDE DEF new
  <2> QED  BY <2>1, <2>2, NewRow
<1>3. ASSUME NEW c \in DOMAIN code, SendAbort(c) PROVE SInv'
  <2>1. /\ code[c] \in Code /\ code[c].state = "sending" /\ RowHolds(c)
        /\ code' = [code EXCEPT ![c] = [code[c] EXCEPT !.state = "undone", !.replaces = {}]]
        /\ UNCHANGED <<work, wins, wrong, crossed>>
    BY <1>0, <1>3 DEF SendAbort, SInv
  <2>2. [code[c] EXCEPT !.state = "undone", !.replaces = {}] \in Code
    BY <2>1 DEF Code
  <2>3. /\ code' \in [1..Len(code) -> Code]
        /\ \A d \in DOMAIN code \ {c} : code'[d] = code[d]
        /\ code'[c].kind = code[c].kind /\ code'[c].replaces = {} /\ code'[c].state = "undone"
        /\ code'[c].attempts = code[c].attempts
    BY <1>0, <2>1, <2>2 DEF Code
  <2>4. code[c].attempts = 0 /\ wins[c] = 0 /\ wrong[c] = 0
    BY <2>1 DEF RowHolds
  <2>5. \A v \in Verifiers : work[v].code # c
    <3> SUFFICES ASSUME NEW v \in Verifiers, work[v].code = c PROVE FALSE
      OBVIOUS
    <3>1. WorkHolds(work[v]) /\ c # 0
      BY <1>0 DEF SInv
    <3> QED  BY <3>1, <2>1 DEF WorkHolds
  <2>6. UNCHANGED <<work, wins, wrong, crossed>>
    BY <2>1
  <2>7. RowMoves(c)
    BY <2>1, <2>3 DEF RowMoves
  <2>8. CountsMove(c)
    BY <1>0, <2>6 DEF CountsMove
  <2>9. CheckEnds(c)
    BY <1>0, <2>6 DEF CheckEnds
  <2>10. RowAddsUp(c)
    BY <2>1, <2>3, <2>4, <2>5, <2>6 DEF RowAddsUp
  <2> QED  BY <2>7, <2>8, <2>9, <2>10, OneRow
<1>4. ASSUME NEW c \in DOMAIN code, ResetWrong(c) PROVE SInv'
  <2>1. /\ code[c] \in Code /\ code[c].state = "open" /\ code[c].kind = "reset"
        /\ code[c].attempts < MaxTries /\ RowHolds(c) /\ c \notin crossed /\ Counted(c)
        /\ code[c].attempts \in 0..MaxTries
    BY <1>0, <1>4 DEF ResetWrong, Triable, Open, SInv, RowHolds, Code
  <2>2. /\ code' = [code EXCEPT ![c] = [code[c] EXCEPT !.attempts = @ + 1]]
        /\ wrong' = [wrong EXCEPT ![c] = @ + 1] /\ UNCHANGED <<work, wins, crossed>>
    BY <1>0, <1>4 DEF ResetWrong
  <2>3. [code[c] EXCEPT !.attempts = @ + 1] \in Code
    <3>1. code[c].attempts + 1 \in 0..MaxTries
      BY <2>1, <1>0
    <3> QED  BY <2>1, <3>1 DEF Code
  <2>4. /\ code' \in [1..Len(code) -> Code]
        /\ \A d \in DOMAIN code \ {c} : code'[d] = code[d]
        /\ code'[c].kind = code[c].kind /\ code'[c].replaces = code[c].replaces
        /\ code'[c].state = "open" /\ code'[c].attempts = code[c].attempts + 1
    BY <1>0, <2>1, <2>2, <2>3 DEF Code
  <2>5. /\ wrong' \in [1..MaxCodes -> Nat] /\ wrong'[c] = wrong[c] + 1
        /\ \A d \in 1..MaxCodes \ {c} : wrong'[d] = wrong[d]
    BY <1>0, <2>2
  <2>6. code'[c].attempts = wins[c] + wrong'[c] /\ wins[c] = 0
    BY <1>0, <2>1, <2>4, <2>5 DEF Counted
  <2>7. \A v \in Verifiers : work[v].code # c
    BY <1>0, <2>1 DEF SInv, WorkHolds
  <2>8. RowMoves(c)
    BY <2>1, <2>4 DEF RowMoves
  <2>9. CountsMove(c)
    BY <1>0, <2>2, <2>5 DEF CountsMove
  <2>10. CheckEnds(c)
    BY <1>0, <2>2 DEF CheckEnds
  <2>11. RowAddsUp(c)
    BY <2>1, <2>2, <2>4, <2>6, <2>7 DEF RowAddsUp
  <2> QED  BY <2>8, <2>9, <2>10, <2>11, OneRow
<1> QED  BY <1>1, <1>2, <1>3, <1>4, SendCommitStep, ResetRightStep

LEMMA CheckSteps ==
    ASSUME SInv, NEW v0 \in Verifiers,
           \/ \E c \in DOMAIN code :
                \/ \E right \in BOOLEAN : VerifyRead(v0, c, right)
                \/ \E f \in 1..MaxFactors : MfaRead(v0, c, f)
           \/ VerifyDiff(v0)
           \/ CheckAbort(v0)
    PROVE  SInv'
<1>0. /\ MaxTries \in Nat \ {0} /\ MaxCodes \in Nat /\ MaxFactors \in Nat
      /\ code \in [1..Len(code) -> Code] /\ DOMAIN code = 1..Len(code)
      /\ DOMAIN code \subseteq 1..MaxCodes
      /\ work \in [Verifiers -> WorkRecord] /\ crossed \subseteq DOMAIN code
      /\ 0 \notin DOMAIN code
  BY Rows, SignInAssumption DEF SInv, CodesOK
<1>1. ASSUME NEW c \in DOMAIN code, NEW right \in BOOLEAN, VerifyRead(v0, c, right) PROVE SInv'
  <2> DEFINE state == IF right THEN "consumed" ELSE "open"
             held == [NoWork EXCEPT !.stage = "save", !.code = c,
                                    !.attempts = code[c].attempts + 1, !.state = state]
  <2>1. /\ code[c] \in Code /\ code[c].state = "open" /\ code[c].kind = "otp"
        /\ code[c].attempts < MaxTries /\ code[c].attempts \in 0..MaxTries
        /\ work[v0] = NoWork
    BY <1>0, <1>1 DEF VerifyRead, Triable, Open, Code
  <2>a. /\ code[c].attempts + 1 \in 0..MaxTries /\ state \in {"open", "consumed"}
        /\ c \in 0..MaxCodes /\ 0 \in 0..MaxFactors
    BY <1>0, <2>1
  <2> HIDE DEF state
  <2>b. held \in WorkRecord /\ held.stage = "save" /\ held.code = c
        /\ held.attempts = code[c].attempts + 1
    BY <2>a DEF WorkRecord, NoWork
  <2>c. PICK w \in WorkRecord : w = held
    BY <2>b
  <2>2. w.stage = "save" /\ w.code = c /\ w.attempts = code[c].attempts + 1
    BY <2>b, <2>c
  <2>3. /\ work' = [work EXCEPT ![v0] = w] /\ UNCHANGED <<code, wins, wrong>>
        /\ crossed' = IF Checking(c) \cup Replacing(c) # {} THEN crossed \cup {c} ELSE crossed
    BY <1>1, <2>c DEF VerifyRead, state
  <2> HIDE DEF held
  <2>4. WorkHolds(w)'
    BY <2>1, <2>2, <2>3 DEF WorkHolds
  <2>5. c \notin crossed' => Replacing(c) = {} /\ \A v \in Verifiers : work[v].code # c
    BY <2>3 DEF Checking
  <2>6. crossed \subseteq crossed' /\ crossed' \subseteq crossed \cup {w.code}
    BY <2>2, <2>3
  <2> QED  BY <2>1, <2>2, <2>3, <2>4, <2>5, <2>6, OneCheck
<1>2. ASSUME NEW c \in DOMAIN code, NEW f \in 1..MaxFactors, MfaRead(v0, c, f) PROVE SInv'
  <2>1. /\ code[c].state = "open" /\ code[c].kind = "mfa" /\ code[c].attempts < MaxTries
        /\ RowHolds(c) /\ c \notin crossed
        /\ \A v \in Verifiers : work[v].code # c
    BY <1>0, <1>2 DEF MfaRead, Triable, Open, Checking, SInv, RowHolds
  <2>range. c \in 0..MaxCodes /\ f \in 0..MaxFactors /\ 0 \in 0..MaxTries
    BY <1>0
  <2>a. [NoWork EXCEPT !.stage = "mfa", !.code = c, !.factor = f] \in WorkRecord
    BY <2>range DEF WorkRecord, NoWork
  <2>b. PICK w \in WorkRecord : w = [NoWork EXCEPT !.stage = "mfa", !.code = c, !.factor = f]
    BY <2>a
  <2>2. w.stage = "mfa" /\ w.code = c
    BY <2>b DEF NoWork
  <2>3. work' = [work EXCEPT ![v0] = w] /\ UNCHANGED <<code, wins, wrong, crossed>>
    BY <1>2, <2>b DEF MfaRead
  <2>4. WorkHolds(w)'
    BY <2>1, <2>2, <2>3 DEF WorkHolds
  <2>5. Replacing(c) = {}
    BY <2>1, <1>0 DEF SInv, RowHolds, Replacing
  <2> QED  BY <2>1, <2>2, <2>3, <2>4, <2>5, OneCheck
<1>3. ASSUME VerifyDiff(v0) PROVE SInv'
  <2> DEFINE c == work[v0].code
             diff == {f \in {"attempts", "state"} : work[v0][f] # code[c][f]}
             held == [work[v0] EXCEPT !.stage = "update", !.diff = diff]
  <2>1. work[v0] \in WorkRecord /\ work[v0].stage = "save" /\ WorkHolds(work[v0])
    BY <1>0, <1>3 DEF VerifyDiff, SInv
  <2>a. /\ held \in WorkRecord /\ held.stage = "update" /\ held.code = c
        /\ held.attempts = work[v0].attempts /\ held.state = work[v0].state /\ held.diff = diff
    BY <2>1 DEF WorkRecord
  <2>b. PICK w \in WorkRecord : w = held
    BY <2>a
  <2>2. /\ w.stage = "update" /\ w.code = c
        /\ w.attempts = work[v0].attempts /\ w.state = work[v0].state /\ w.diff = diff
    BY <2>a, <2>b
  <2>3. work' = [work EXCEPT ![v0] = w] /\ UNCHANGED <<code, wins, wrong, crossed>>
    BY <1>0, <1>3, <2>b DEF VerifyDiff
  <2>4. c \in DOMAIN code /\ code[c].kind = "otp" /\ code[c].state \in {"open", "consumed"}
    BY <2>1, <1>0 DEF WorkHolds
  <2>5. /\ "attempts" \in diff <=> work[v0].attempts # code[c].attempts
        /\ "state" \in diff <=> work[v0].state # code[c].state
    OBVIOUS
  <2>6. work[v0].state \in {"open", "consumed"}
    BY <2>1 DEF WorkRecord
  <2> HIDE DEF held, diff
  <2>7. WorkHolds(w)'
    BY <2>2, <2>3, <2>4 DEF WorkHolds
  <2>8. ASSUME c \notin crossed
        PROVE  /\ \A v \in Verifiers \ {v0} : work[v].code # c
               /\ code[c].state = "open" /\ code[c].attempts < MaxTries
               /\ Replacing(c) = {} /\ w.attempts = code[c].attempts + 1
               /\ "attempts" \in w.diff
               /\ "state" \in w.diff <=> w.state = "consumed"
    <3>1. Checked(c) /\ code[c] \in Code
      BY <1>0, <2>4, <2>8 DEF SInv
    <3>2. code[c].attempts \in Nat
      BY <3>1, <1>0 DEF Code
    <3> QED  BY <3>1, <3>2, <2>1, <2>2, <2>5, <2>6 DEF Checked
  <2> QED  BY <2>2, <2>3, <2>4, <2>7, <2>8, OneCheck
<1>4. ASSUME CheckAbort(v0) PROVE SInv'
  <2>1. NoWork \in WorkRecord /\ NoWork.stage = "idle" /\ NoWork.code = 0
    BY <1>0 DEF WorkRecord, NoWork
  <2>2. work' = [work EXCEPT ![v0] = NoWork] /\ UNCHANGED <<code, wins, wrong, crossed>>
    BY <1>4 DEF CheckAbort
  <2>3. WorkHolds(NoWork)'
    BY <2>1 DEF WorkHolds, NoWork
  <2> QED  BY <1>0, <2>1, <2>2, <2>3, OneCheck
<1> QED  BY <1>1, <1>2, <1>3, <1>4

LEMMA AnswerSteps ==
    ASSUME SInv, NEW v0 \in Verifiers,
           VerifyUpdate(v0) \/ MfaWrong(v0) \/ \E q \in Requests : MfaCommit(v0, q)
    PROVE  SInv'
<1> DEFINE c == work[v0].code
           w == work[v0]
<1>0. /\ MaxTries \in Nat \ {0} /\ MaxCodes \in Nat
      /\ code \in [1..Len(code) -> Code] /\ DOMAIN code = 1..Len(code)
      /\ DOMAIN code \subseteq 1..MaxCodes
      /\ work \in [Verifiers -> WorkRecord] /\ w \in WorkRecord /\ WorkHolds(w)
      /\ wins \in [1..MaxCodes -> Nat] /\ wrong \in [1..MaxCodes -> Nat]
  BY Rows, SignInAssumption DEF SInv, CodesOK
<1>1. /\ w.stage \in {"update", "mfa"}
      /\ work' = [work EXCEPT ![v0] = NoWork] /\ crossed' = crossed
  BY DEF VerifyUpdate, MfaWrong, MfaCommit
<1>2. /\ c \in DOMAIN code /\ c \in 1..MaxCodes /\ code[c] \in Code
      /\ code[c].state \in {"open", "consumed"} /\ RowHolds(c)
      /\ c \notin crossed => Counted(c) /\ Checked(c)
  BY <1>0, <1>1 DEF WorkHolds, SInv
<1>3. NoWork \in WorkRecord /\ NoWork.code = 0
  BY <1>0, SignInAssumption DEF NoWork, WorkRecord
<1>4. CheckEnds(c)
  BY <1>0, <1>1, <1>3 DEF CheckEnds
<1>5. c \notin crossed =>
          /\ \A v \in Verifiers : work'[v].code # c
          /\ code[c].state = "open" /\ code[c].attempts < MaxTries /\ wins[c] = 0
          /\ code[c].kind # "mfa" => code[c].attempts = wins[c] + wrong[c]
  <2> SUFFICES ASSUME c \notin crossed
               PROVE  /\ \A v \in Verifiers : work'[v].code # c
                      /\ code[c].state = "open" /\ code[c].attempts < MaxTries /\ wins[c] = 0
                      /\ code[c].kind # "mfa" => code[c].attempts = wins[c] + wrong[c]
    OBVIOUS
  <2>1. code[c].state = "open" /\ code[c].attempts < MaxTries
        /\ \A v \in Verifiers : work[v].code = c => v = v0
    BY <1>2 DEF Checked
  <2>2. c # 0
    BY <1>0, <1>2
  <2> QED  BY <2>1, <2>2, <1>0, <1>1, <1>2, <1>3 DEF Counted
<1>6. code[c].attempts \in Nat /\ wins[c] \in Nat /\ wrong[c] \in Nat
  BY <1>0, <1>2 DEF Code
<1> HIDE DEF c
<1>7. CASE VerifyUpdate(v0)
  <2> DEFINE right == w.state = "consumed"
             r == [code[c] EXCEPT
                      !.attempts = IF "attempts" \in w.diff THEN w.attempts ELSE @,
                      !.state = IF "state" \in w.diff THEN w.state ELSE @]
  <2>1. /\ w.stage = "update" /\ code' = [code EXCEPT ![c] = r]
        /\ wins' = IF right THEN [wins EXCEPT ![c] = @ + 1] ELSE wins
        /\ wrong' = IF right THEN wrong ELSE [wrong EXCEPT ![c] = @ + 1]
    BY <1>0, <1>2, <1>7 DEF VerifyUpdate, c
  <2>2. code[c].kind = "otp" /\ w.state \in {"open", "consumed"} /\ w.attempts \in 0..MaxTries
    BY <1>0, <1>2, <2>1 DEF WorkHolds, WorkRecord, c
  <2>3. /\ r \in Code /\ r.kind = code[c].kind /\ r.replaces = code[c].replaces
        /\ r.attempts = (IF "attempts" \in w.diff THEN w.attempts ELSE code[c].attempts)
        /\ r.state = (IF "state" \in w.diff THEN w.state ELSE code[c].state)
    BY <1>2, <2>2 DEF Code
  <2> HIDE DEF r, right
  <2>4. RowMoves(c)
    <3>1. /\ code' \in [1..Len(code) -> Code] /\ code'[c] = r
          /\ \A d \in DOMAIN code \ {c} : code'[d] = code[d]
      BY <1>0, <1>2, <2>1, <2>3
    <3>2. r.state \in {"open", "consumed"}
      BY <1>2, <2>2, <2>3
    <3> QED  BY <3>1, <3>2, <2>3, <1>2 DEF RowMoves
  <2>5. CountsMove(c)
    BY <1>0, <1>2, <2>1 DEF CountsMove
  <2>6. RowAddsUp(c)
    <3> SUFFICES ASSUME c \notin crossed
                 PROVE  /\ code[c].kind # "mfa" => code'[c].attempts = wins'[c] + wrong'[c]
                        /\ code'[c].state # "consumed" => wins'[c] = 0
                        /\ wins'[c] <= 1
                        /\ code[c].state = "consumed" => code'[c].state = "consumed"
                        /\ \A v \in Verifiers : work'[v].code # c
      BY <1>1 DEF RowAddsUp
    <3>1. /\ w.attempts = code[c].attempts + 1 /\ "attempts" \in w.diff
          /\ "state" \in w.diff <=> right
      BY <1>2, <2>1 DEF Checked, c, right
    <3>2. code'[c] = r /\ r.attempts = code[c].attempts + 1
          /\ r.state = (IF right THEN "consumed" ELSE code[c].state)
      BY <1>0, <1>2, <2>1, <2>3, <3>1 DEF right
    <3>3. CASE right
      <4>1. wins'[c] = wins[c] + 1 /\ wrong'[c] = wrong[c]
        BY <1>0, <1>2, <2>1, <3>3
      <4> QED  BY <1>5, <1>6, <3>2, <3>3, <4>1
    <3>4. CASE ~right
      <4>1. wins'[c] = wins[c] /\ wrong'[c] = wrong[c] + 1
        BY <1>0, <1>2, <2>1, <3>4
      <4> QED  BY <1>5, <1>6, <3>2, <3>4, <4>1
    <3> QED  BY <3>3, <3>4
  <2> QED  BY <1>2, <1>4, <2>4, <2>5, <2>6, OneRow
<1>8. CASE \E q \in Requests : MfaCommit(v0, q)
  <2> DEFINE r == [code[c] EXCEPT !.state = "consumed", !.attempts = @ + 1]
  <2>1. /\ w.stage = "mfa" /\ code' = [code EXCEPT ![c] = r]
        /\ wins' = [wins EXCEPT ![c] = @ + 1] /\ wrong' = wrong
    BY <1>0, <1>2, <1>8 DEF MfaCommit, c
  <2>2. c \notin crossed /\ code[c].state = "open" /\ code[c].attempts + 1 \in 0..MaxTries
    <3>1. c \notin crossed
      BY <1>0, <1>2, <2>1 DEF WorkHolds, c
    <3> QED  BY <3>1, <1>0, <1>5, <1>6
  <2>3. /\ r \in Code /\ r.kind = code[c].kind /\ r.replaces = code[c].replaces
        /\ r.attempts = code[c].attempts + 1 /\ r.state = "consumed"
    BY <1>2, <2>2 DEF Code
  <2> HIDE DEF r
  <2>4. /\ code' \in [1..Len(code) -> Code] /\ code'[c] = r
        /\ \A d \in DOMAIN code \ {c} : code'[d] = code[d]
    BY <1>0, <1>2, <2>1, <2>3
  <2>5. RowMoves(c)
    BY <2>2, <2>3, <2>4 DEF RowMoves
  <2>6. CountsMove(c) /\ wins'[c] = wins[c] + 1
    BY <1>0, <1>2, <2>1 DEF CountsMove
  <2>7. RowAddsUp(c)
    BY <1>1, <1>5, <1>6, <2>1, <2>2, <2>3, <2>4, <2>6 DEF RowAddsUp
  <2> QED  BY <1>2, <1>4, <2>5, <2>6, <2>7, OneRow
<1>9. CASE MfaWrong(v0)
  <2>1. /\ w.stage = "mfa" /\ code' = code /\ wins' = wins
        /\ wrong' = [wrong EXCEPT ![c] = @ + 1]
    BY <1>9 DEF MfaWrong, c
  <2>2. c \notin crossed /\ code[c].kind = "mfa" /\ code[c].state = "open"
    <3>1. c \notin crossed /\ code[c].kind = "mfa"
      BY <1>0, <1>2, <2>1 DEF WorkHolds, c
    <3> QED  BY <3>1, <1>5
  <2>3. RowMoves(c)
    BY <1>0, <2>1, <2>2 DEF RowMoves
  <2>4. CountsMove(c)
    BY <1>0, <1>2, <2>1 DEF CountsMove
  <2>5. RowAddsUp(c)
    BY <1>1, <1>5, <2>1, <2>2 DEF RowAddsUp
  <2> QED  BY <1>2, <1>4, <2>3, <2>4, <2>5, OneRow
<1> QED  BY <1>7, <1>8, <1>9

LEMMA SInvStep == SInv /\ [SignInNext]_signInVars => SInv'
<1> SUFFICES ASSUME SInv, [SignInNext]_signInVars PROVE SInv'
  OBVIOUS
<1>1. ASSUME UNCHANGED challenges PROVE SInv'
  BY <1>1, SameChallenges
<1>2. ASSUME NEW q \in Requests, Register(q) \/ LoginPassword(q) PROVE SInv'
  BY <1>1, <1>2 DEF Register, LoginPassword
<1>3. ASSUME NEW v \in Verifiers, NEW right \in BOOLEAN,
             \/ BeginMfa(v) \/ VerifyMfa(v, right) \/ DisableMfa(v)
             \/ FactorSave(v) \/ FactorAbort(v)
      PROVE  SInv'
  BY <1>1, <1>3 DEF BeginMfa, VerifyMfa, DisableMfa, FactorRead, FactorSave, FactorAbort
<1>4. ASSUME UNCHANGED signInVars PROVE SInv'
  BY <1>1, <1>4 DEF signInVars
<1> QED
  BY <1>1, <1>2, <1>3, <1>4, CodeSteps, CheckSteps, AnswerSteps DEF SignInNext

\* A code is accepted at most once, a one-time code or a reset code within its tries, and
\* is consumed when it was accepted or replaced, for any number of codes, tries, wrong
\* answers and requests that check them, unless a one-time code was checked while it was
\* checked or replaced.
THEOREM CodesAreSpentForGood == SignInSpec => []CodesWinOnceWithinTries
<1>1. SInv => CodesWinOnceWithinTries
  <2> SUFFICES ASSUME SInv, NEW c \in DOMAIN code \ crossed
               PROVE  /\ wins[c] <= 1
                      /\ code[c].kind # "mfa" => wins[c] + wrong[c] <= MaxTries
                      /\ \/ wins[c] = 1
                         \/ \E d \in DOMAIN code :
                                code[d].state \in {"open", "consumed"} /\ c \in code[d].replaces
                         => code[c].state = "consumed"
    BY DEF CodesWinOnceWithinTries
  <2>1. Counted(c) /\ code[c] \in Code /\ code[c].attempts <= MaxTries
    BY Rows, SignInAssumption DEF SInv, Code
  <2> QED  BY <2>1 DEF Counted
<1> QED  BY <1>1, SInvInit, SInvStep, PTL DEF SignInSpec

\* Signing in is a way of using sessions: every step of it is one of Sessions or leaves
\* the sessions alone.
THEOREM SignInImplementsSessions == SignInSpec => Spec
<1>1. SignInInit => Init
  BY DEF SignInInit
<1>2. [SignInNext]_signInVars => [Next]_vars
  BY DEF SignInNext, signInVars, Next, SendBegin, SendCommit, SendAbort, ResetWrong, ResetRight,
         VerifyRead, MfaRead, VerifyDiff, VerifyUpdate, CheckAbort, MfaWrong, MfaCommit, Register,
         LoginPassword, LoginMfa, BeginMfa, VerifyMfa, DisableMfa, FactorRead,
         FactorSave, FactorAbort
<1> QED  BY <1>1, <1>2, PTL DEF SignInSpec, Spec

\* So what is proved of the sessions holds of the sessions of a vendor who registers,
\* signs in with a password or a second factor and resets the password.
THEOREM SessionsOfAVendor ==
    SignInSpec => []EachTokenIsSpentOnce /\ []LiveRowsHoldOneToken /\ RevokedStaysRevoked
BY SignInImplementsSessions, TokensBuyOneSuccessor, RowsHoldOneToken, RevokedForGood
=============================================================================
