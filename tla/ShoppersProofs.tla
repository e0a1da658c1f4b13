--------------------------- MODULE ShoppersProofs ---------------------------
(***************************************************************************)
(* The theorems of module Shoppers, for any callers, sessions, request     *)
(* identifiers and limits.                                                 *)
(***************************************************************************)
EXTENDS Shoppers, TLAPS

Resetting == {"reset", "updating", "inserting"}
Locking == {"login"} \cup Resetting

\* What the row of a code says is what happened to it: every guess is in attempts, an
\* accepted one is in consumed, and a row that is not there says nothing.
Counted(c) ==
    /\ tries[c] = challenges[c].attempts
    /\ wins[c] = 0 \/ (wins[c] = 1 /\ challenges[c].consumed)
    /\ challenges[c].purpose = "gone" => challenges[c] = NoChallenge
    /\ c > made => challenges[c].purpose = "gone"

\* What a call holds.  The login's code can still be guessed; a reset finds the account it
\* read, or its code was sent while that was deleted; a code in the making is not there
\* yet, and those it replaces are; a deletion has every code but those sent since; a
\* concern is about a check that is stored.
Holds(call) ==
    /\ call.op \in Locking => call.c \in Challenges /\ call.c \in call.held
    /\ call.op = "login" =>
          /\ challenges[call.c].purpose = "login" /\ ~challenges[call.c].consumed
          /\ challenges[call.c].attempts < MaxTries
    /\ call.op \in Resetting =>
          /\ challenges[call.c].purpose = "password_reset"
          /\ challenges[call.c].action # "done" /\ call.id # 0
    /\ call.op = "reset" => call.id = account.id \/ call.c \in meanwhile
    /\ call.op = "inserting" => call.c \in meanwhile
    /\ call.op = "replacing" =>
          /\ call.c \in Challenges /\ call.c <= made /\ challenges[call.c].purpose = "gone"
          /\ \A c \in call.held : challenges[c].purpose # "gone"
    /\ call.op = "erasing" => \A c \in Challenges :
          challenges[c].purpose = "gone" \/ c \in call.held \/ c \in meanwhile
    /\ call.op = "concern" => checks[call.r].stored

Holding == \A k \in Callers : Holds(calls[k])

\* A row is locked by one transaction at a time, and made by one.
Apart == \A j, k \in Callers : j # k =>
    /\ calls[j].held \cap calls[k].held = {}
    /\ calls[j].op = "replacing" /\ calls[k].op = "replacing" => calls[j].c # calls[k].c

\* An account has an identifier.
Known == account.id = 0 => account = NoAccount

Parts == (\A c \in Challenges : Counted(c)) /\ Holding /\ Apart /\ Known
IInv == TypeOK /\ Parts /\ RequestsAreDoneOnce

LEMMA Limits ==
    /\ MaxTries \in Nat \ {0} /\ MaxPerHour \in Nat \ {0} /\ MaxChallenges \in Nat \ {0}
    /\ MaxAccounts \in Nat \ {0} /\ MaxPassword \in Nat \ {0} /\ RequestIds # {}
  BY ShoppersAssumption

LEMMA Empty ==
    /\ Idle \in CallRow /\ Idle.op = "idle" /\ Idle.held = {}
    /\ NoChallenge \in ChallengeRow /\ NoChallenge.attempts = 0 /\ ~NoChallenge.consumed
    /\ NoChallenge.purpose = "gone"
    /\ NoAccount \in AccountRow /\ NoAccount.id = 0 /\ NoSession \in SessionRow
<1>1. Idle \in CallRow /\ Idle.op = "idle" /\ Idle.held = {}
  <2>1. (CHOOSE r \in RequestIds : TRUE) \in RequestIds
    BY Limits
  <2> QED  BY <2>1, Limits DEF Idle, CallRow, Ops, Kinds, Purposes
<1>2. NoChallenge \in ChallengeRow /\ NoChallenge.attempts = 0 /\ ~NoChallenge.consumed
      /\ NoChallenge.purpose = "gone"
  <2>1. 0 \in 0..MaxTries
    BY Limits
  <2>2. NoChallenge \in ChallengeRow
    BY <2>1 DEF NoChallenge, ChallengeRow, Purposes, Ages
  <2> QED  BY <2>2 DEF NoChallenge
<1>3. NoAccount \in AccountRow /\ NoAccount.id = 0 /\ NoSession \in SessionRow
  BY Limits DEF NoAccount, AccountRow, NoSession, SessionRow
<1> QED  BY <1>1, <1>2, <1>3

LEMMA InitIInv == Init => IInv
<1> SUFFICES ASSUME Init PROVE IInv
  OBVIOUS
<1>1. TypeOK
  <2>1. 0 \in 0..MaxChallenges /\ 0 \in 0..MaxAccounts
    BY Limits
  <2>2. checks \in [RequestIds -> CheckRow]
    BY DEF Init, CheckRow
  <2> QED  BY <2>1, <2>2, Empty DEF Init, TypeOK
<1>2. Parts
  BY Empty DEF Init, Parts, Counted, Holding, Holds, Apart, Known, Locking, Resetting
<1>3. RequestsAreDoneOnce
  BY DEF Init, RequestsAreDoneOnce, Kinds
<1> QED  BY <1>1, <1>2, <1>3 DEF IInv

\* A step that moves a call and changes no row.
LEMMA CallMoves ==
    ASSUME IInv, NEW k \in Callers, NEW call \in CallRow,
           calls' = [calls EXCEPT ![k] = call], UNCHANGED <<rows, records, tries, wins>>,
           Holds(call), call.op # "replacing",
           \A c \in call.held : c \in calls[k].held \/ RowFree(c)
    PROVE  IInv'
<1> USE DEF IInv
<1>1. TypeOK'
  BY DEF TypeOK, rows, records
<1>2. ASSUME NEW j \in Callers
      PROVE  calls'[j] = IF j = k THEN call ELSE calls[j]
  BY DEF TypeOK
<1>3. Holding'
  BY <1>2 DEF Parts, Holding, Holds, rows, records
<1>4. Apart'
  <2> SUFFICES ASSUME NEW i \in Callers, NEW j \in Callers, i # j
               PROVE  /\ calls'[i].held \cap calls'[j].held = {}
                      /\ calls'[i].op = "replacing" /\ calls'[j].op = "replacing" =>
                            calls'[i].c # calls'[j].c
    BY DEF Apart
  <2>1. \A a \in Callers \ {k} : call.held \cap calls[a].held = {}
    BY DEF Parts, Apart, RowFree
  <2> QED  BY <2>1, <1>2 DEF Parts, Apart
<1>5. Known' /\ \A c \in Challenges : Counted(c)'
  BY DEF Parts, Known, Counted, rows
<1>6. RequestsAreDoneOnce'
  BY DEF RequestsAreDoneOnce, records
<1> QED  BY <1>1, <1>3, <1>4, <1>5, <1>6 DEF Parts

LEMMA BeginKeeps ==
    ASSUME IInv, NEW k \in Callers, NEW call \in CallRow, Begin(k, call),
           Holds(call), call.op # "replacing", \A c \in call.held : RowFree(c)
    PROVE  IInv'
  BY CallMoves DEF Begin

LEMMA AbortKeeps == ASSUME IInv, NEW k \in Callers, Abort(k) PROVE IInv'
  BY CallMoves, Empty DEF Abort, End, Holds, Locking, Resetting

LEMMA BeginsKeep ==
    ASSUME IInv, NEW k \in Callers,
           \/ \E purpose \in Purposes : RequestChallenge(k, purpose)
           \/ \E c \in Challenges : Login(k, c) \/ ResetPassword(k, c)
           \/ PasswordLogin(k) \/ FindAccount(k)
           \/ DeleteAccount(k) \/ LockAccount(k) \/ DeleteChallenges(k)
           \/ \E r \in RequestIds :
                 \/ Report(k, r) \/ HandleConcern(k, r)
                 \/ \E id \in {0} \cup Ids : Check(k, r, id) \/ ContactSupport(k, r, id)
    PROVE  IInv'
<1>t. TypeOK /\ account.id \in {0} \cup Ids /\ account.password \in 0..MaxPassword
  BY DEF IInv, TypeOK, AccountRow
<1>o. /\ {"challenge", "login", "password", "reset", "updating", "inserting", "delete",
          "deleting", "erasing", "handle"} \subseteq Ops
      /\ Kinds \subseteq Ops /\ Kinds = {"check", "concern", "support"}
  BY DEF Ops, Kinds
<1>1. ASSUME NEW purpose \in Purposes, RequestChallenge(k, purpose) PROVE IInv'
  <2> DEFINE call == [Idle EXCEPT !.op = "challenge", !.purpose = purpose]
  <2>1. call \in CallRow /\ call.op = "challenge" /\ call.held = {}
    BY Empty, <1>o DEF CallRow
  <2> QED  BY <1>1, <2>1, BeginKeeps DEF RequestChallenge, Holds, Locking, Resetting
<1>2. ASSUME NEW c \in Challenges, Login(k, c) PROVE IInv'
  <2> DEFINE call == [Idle EXCEPT !.op = "login", !.c = c, !.held = {c}]
  <2>1. call \in CallRow /\ call.op = "login" /\ call.c = c /\ call.held = {c}
    BY Empty, <1>o DEF CallRow
  <2>2. Begin(k, call) /\ Holds(call) /\ RowFree(c)
    BY <1>2, <2>1 DEF Login, Guessable, Holds, Resetting
  <2> QED  BY <2>1, <2>2, BeginKeeps
<1>3. ASSUME NEW c \in Challenges, ResetPassword(k, c) PROVE IInv'
  <2> DEFINE call == [Idle EXCEPT !.op = "reset", !.c = c, !.id = account.id,
                          !.password = account.password, !.held = {c}]
  <2>1. /\ call \in CallRow /\ call.op = "reset" /\ call.c = c /\ call.id = account.id
        /\ call.held = {c}
    BY Empty, <1>o, <1>t DEF CallRow
  <2>2. Begin(k, call) /\ Holds(call) /\ RowFree(c)
    BY <1>3, <2>1 DEF ResetPassword, Holds, IInv, Parts, Known
  <2> QED  BY <2>1, <2>2, BeginKeeps
<1>4. CASE PasswordLogin(k)
  <2> DEFINE call == [Idle EXCEPT !.op = "password", !.id = account.id,
                          !.password = account.password]
  <2>1. call \in CallRow /\ call.op = "password" /\ call.held = {}
    BY Empty, <1>o, <1>t DEF CallRow
  <2> QED  BY <1>4, <2>1, BeginKeeps DEF PasswordLogin, Holds, Locking, Resetting
<1>5. CASE DeleteAccount(k)
  <2> DEFINE call == [Idle EXCEPT !.op = "delete", !.id = account.id]
  <2>1. call \in CallRow /\ call.op = "delete" /\ call.held = {}
    BY Empty, <1>o, <1>t DEF CallRow
  <2> QED  BY <1>5, <2>1, BeginKeeps DEF DeleteAccount, Holds, Locking, Resetting
<1>6. CASE LockAccount(k)
  <2> DEFINE call == [calls[k] EXCEPT !.op = "deleting"]
  <2>1. call \in CallRow /\ call.op = "deleting" /\ call.held = calls[k].held
    BY <1>o, <1>t DEF CallRow, TypeOK
  <2>2. calls' = [calls EXCEPT ![k] = call] /\ UNCHANGED <<rows, records, tries, wins>>
    BY <1>6 DEF LockAccount
  <2> QED  BY <2>1, <2>2, CallMoves DEF Holds, Locking, Resetting
<1>9. CASE DeleteChallenges(k)
  <2> DEFINE call == [calls[k] EXCEPT !.op = "erasing", !.held = DeletedChallenges]
  <2>1. call \in CallRow /\ call.op = "erasing" /\ call.held = DeletedChallenges
    BY <1>o, <1>t DEF CallRow, TypeOK, DeletedChallenges, Mailed
  <2>2. /\ calls' = [calls EXCEPT ![k] = call] /\ UNCHANGED <<rows, records, tries, wins>>
        /\ \A c \in call.held : RowFree(c)
    BY <1>9, <2>1 DEF DeleteChallenges
  <2>3. Holds(call)
    BY <2>1 DEF Holds, Locking, Resetting, DeletedChallenges, Mailed
  <2> QED  BY <2>1, <2>2, <2>3, CallMoves
<1>10. CASE FindAccount(k)
  <2> DEFINE op == IF account.id = calls[k].id THEN "updating" ELSE "inserting"
             call == [calls[k] EXCEPT !.op = op]
  <2>1. /\ call \in CallRow /\ call.op = op /\ call.held = calls[k].held
        /\ call.c = calls[k].c /\ call.id = calls[k].id
    BY <1>o, <1>t DEF CallRow, TypeOK
  <2>2. calls' = [calls EXCEPT ![k] = call] /\ UNCHANGED <<rows, records, tries, wins>>
        /\ calls[k].op = "reset"
    BY <1>10 DEF FindAccount
  <2>3. Holds(calls[k])
    BY DEF IInv, Parts, Holding
  <2>4. Holds(call)
    BY <2>1, <2>2, <2>3 DEF Holds, Locking, Resetting
  <2>5. call.op # "replacing" /\ \A c \in call.held : c \in calls[k].held
    BY <2>1
  <2> HIDE DEF op, call
  <2> QED  BY <2>1, <2>2, <2>4, <2>5, CallMoves
<1>7. ASSUME NEW kind \in Kinds, NEW r \in RequestIds, NEW id \in {0} \cup Ids,
             Submit(k, kind, r, id), kind = "concern" => checks[r].stored
      PROVE  IInv'
  <2> DEFINE call == [Idle EXCEPT !.op = kind, !.r = r, !.id = id]
  <2>1. call \in CallRow /\ call.op = kind /\ call.r = r /\ call.held = {}
    BY Empty, <1>o DEF CallRow
  <2>2. Begin(k, call) /\ Holds(call) /\ call.op # "replacing"
    BY <1>7, <1>o, <2>1 DEF Submit, Holds, Locking, Resetting
  <2> QED  BY <2>1, <2>2, BeginKeeps
<1>8. ASSUME NEW r \in RequestIds, HandleConcern(k, r) PROVE IInv'
  <2> DEFINE call == [Idle EXCEPT !.op = "handle", !.r = r]
  <2>1. call \in CallRow /\ call.op = "handle" /\ call.held = {}
    BY Empty, <1>o DEF CallRow
  <2> QED  BY <1>8, <2>1, BeginKeeps DEF HandleConcern, Holds, Locking, Resetting
<1> QED
  BY <1>1, <1>2, <1>3, <1>4, <1>5, <1>6, <1>7, <1>8, <1>9, <1>10, <1>o
  DEF Report, Check, ContactSupport

-----------------------------------------------------------------------------
(* Steps that change rows.                                                 *)

\* A call ends; the others go on as they were.
LEMMA Ended ==
    ASSUME TypeOK, NEW k \in Callers, End(k)
    PROVE  /\ calls' \in [Callers -> CallRow] /\ calls'[k] = Idle
           /\ \A j \in Callers \ {k} : calls'[j] = calls[j]
  BY Empty DEF TypeOK, End

\* What is left of Apart when a call ends.
LEMMA ApartKept ==
    ASSUME TypeOK, Apart, NEW k \in Callers, End(k)
    PROVE  Apart'
  BY Ended, Empty DEF Apart

\* One row of a code changes, and nobody else holds it.
LEMMA RowChanges ==
    ASSUME TypeOK, NEW c \in Challenges, NEW row \in ChallengeRow, NEW k,
           challenges' = [challenges EXCEPT ![c] = row], row.purpose = challenges[c].purpose,
           \A j \in Callers \ {k} : c \notin calls[j].held,
           \A j \in Callers \ {k} : calls'[j] = calls[j],
           \A j \in Callers \ {k} : calls[j].op = "reset" =>
               account'.id = account.id \/ calls[j].c \in meanwhile,
           checks' = checks, made' = made, meanwhile' = meanwhile, Holding
    PROVE  /\ challenges' \in [Challenges -> ChallengeRow]
           /\ \A j \in Callers \ {k} : Holds(calls[j])'
<1>1. challenges' \in [Challenges -> ChallengeRow]
  BY DEF TypeOK
<1>2. /\ \A d \in Challenges \ {c} : challenges'[d] = challenges[d]
      /\ \A d \in Challenges : challenges'[d].purpose = challenges[d].purpose
  BY DEF TypeOK
<1>3. ASSUME NEW j \in Callers \ {k} PROVE Holds(calls[j])'
  <2>1. /\ Holds(calls[j]) /\ calls[j].held \subseteq Challenges
        /\ calls[j].op \in Locking => calls[j].c # c
    BY DEF Holding, Holds, TypeOK, CallRow
  <2> QED  BY <2>1, <1>2 DEF Holds, Locking, Resetting
<1> QED  BY <1>1, <1>3

\* A guess is counted, and the row says what became of it.
LEMMA GuessCounts ==
    ASSUME IInv, NEW c \in Challenges, NEW right \in BOOLEAN,
           NEW action \in {"none", "open", "late", "done"},
           challenges' = [challenges EXCEPT ![c] = Guessed(@, right, action)],
           ~challenges[c].consumed, challenges[c].attempts < MaxTries,
           challenges[c].purpose # "gone", Count(c, right), made' = made
    PROVE  /\ Guessed(challenges[c], right, action) \in ChallengeRow
           /\ Guessed(challenges[c], right, action).purpose = challenges[c].purpose
           /\ tries' \in [Challenges -> Nat] /\ wins' \in [Challenges -> Nat]
           /\ \A d \in Challenges : Counted(d)'
<1>t. TypeOK /\ Counted(c)
  BY DEF IInv, Parts
<1>1. challenges[c] \in ChallengeRow /\ challenges[c].attempts + 1 \in 0..MaxTries
  <2>1. challenges[c] \in ChallengeRow /\ challenges[c].attempts \in 0..MaxTries
    BY <1>t DEF TypeOK, ChallengeRow
  <2> QED  BY <2>1, Limits
<1> DEFINE row == Guessed(challenges[c], right, action)
<1>2. /\ row \in ChallengeRow /\ row.purpose = challenges[c].purpose
      /\ row.attempts = challenges[c].attempts + 1 /\ row.consumed = right
  BY <1>1 DEF Guessed, ChallengeRow
<1> HIDE DEF row
<1>3. challenges' = [challenges EXCEPT ![c] = row]
  BY DEF row
<1>4. /\ tries' = [tries EXCEPT ![c] = tries[c] + 1]
      /\ wins' = [wins EXCEPT ![c] = wins[c] + IF right THEN 1 ELSE 0]
  BY DEF Count
<1>5. tries' \in [Challenges -> Nat] /\ wins' \in [Challenges -> Nat]
  BY <1>t, <1>4 DEF TypeOK
<1>6. Counted(c)'
  <2>1. challenges'[c] = row /\ tries'[c] = tries[c] + 1
    BY <1>t, <1>3, <1>4 DEF TypeOK
  <2>2. wins[c] = 0 /\ (wins'[c] = 0 \/ (wins'[c] = 1 /\ right))
    BY <1>t, <1>4 DEF TypeOK, Counted
  <2> QED  BY <2>1, <2>2, <1>2, <1>t DEF Counted
<1>7. ASSUME NEW d \in Challenges \ {c} PROVE Counted(d)'
  <2>1. challenges'[d] = challenges[d] /\ tries'[d] = tries[d] /\ wins'[d] = wins[d]
    BY <1>t, <1>3, <1>4 DEF TypeOK
  <2> QED  BY <2>1 DEF Counted, IInv, Parts
<1> QED  BY <1>2, <1>5, <1>6, <1>7 DEF row

LEMMA DoneUntouched == ASSUME RequestsAreDoneOnce, UNCHANGED records PROVE RequestsAreDoneOnce'
  BY DEF RequestsAreDoneOnce, records

LEMMA AgeKeeps ==
    ASSUME IInv, NEW c \in Challenges, Age(c) \/ ActionExpires(c)
    PROVE  IInv'
<1>t. TypeOK /\ Parts /\ challenges[c] \in ChallengeRow /\ challenges[c].purpose # "gone"
  <2>1. TypeOK /\ Parts /\ challenges[c] \in ChallengeRow
    BY DEF IInv, TypeOK
  <2>2. challenges[c].action = "open" => challenges[c].purpose # "gone"
    BY <2>1 DEF Parts, Counted, NoChallenge
  <2> QED  BY <2>1, <2>2 DEF Age, ActionExpires
<1>1. PICK row \in ChallengeRow :
         /\ challenges' = [challenges EXCEPT ![c] = row]
         /\ row.purpose = challenges[c].purpose /\ row.attempts = challenges[c].attempts
         /\ row.consumed = challenges[c].consumed
         /\ row.action = "done" => challenges[c].action = "done"
  <2>1. CASE Age(c)
    <3>1. PICK age \in Ages : challenges' = [challenges EXCEPT ![c] = [challenges[c] EXCEPT !.age = age]]
      BY <2>1 DEF Age
    <3> DEFINE row == [challenges[c] EXCEPT !.age = age]
    <3>2. /\ row \in ChallengeRow /\ row.purpose = challenges[c].purpose
          /\ row.attempts = challenges[c].attempts /\ row.consumed = challenges[c].consumed
          /\ row.action = "done" => challenges[c].action = "done"
      BY <1>t DEF ChallengeRow
    <3> QED  BY <3>1, <3>2
  <2>2. CASE ActionExpires(c)
    <3>1. challenges' = [challenges EXCEPT ![c] = [challenges[c] EXCEPT !.action = "late"]]
      BY <2>2 DEF ActionExpires
    <3> DEFINE row == [challenges[c] EXCEPT !.action = "late"]
    <3>2. /\ row \in ChallengeRow /\ row.purpose = challenges[c].purpose
          /\ row.attempts = challenges[c].attempts /\ row.consumed = challenges[c].consumed
          /\ row.action = "done" => challenges[c].action = "done"
      BY <1>t DEF ChallengeRow
    <3> QED  BY <3>1, <3>2
  <2> QED  BY <2>1, <2>2
<1>2. UNCHANGED <<made, account, accounts, sessions, meanwhile, records, calls, tries, wins>>
  BY DEF Age, ActionExpires
<1>3. \A d \in Challenges :
         /\ challenges'[d].purpose = challenges[d].purpose
         /\ challenges'[d].attempts = challenges[d].attempts
         /\ challenges'[d].consumed = challenges[d].consumed
         /\ challenges'[d].action = "done" => challenges[d].action = "done"
         /\ d # c => challenges'[d] = challenges[d]
  BY <1>1, <1>t DEF TypeOK
<1>4. TypeOK'
  BY <1>1, <1>2, <1>t DEF TypeOK, records
<1>5. ASSUME NEW d \in Challenges PROVE Counted(d)'
  BY <1>2, <1>3, <1>t DEF Parts, Counted
<1>6. ASSUME NEW j \in Callers PROVE Holds(calls[j])'
  <2>1. Holds(calls[j]) /\ calls[j].held \subseteq Challenges
    BY <1>t DEF Parts, Holding, TypeOK, CallRow
  <2>2. calls[j].op \in Locking => calls[j].c \in Challenges
    BY <2>1 DEF Holds
  <2> QED  BY <2>1, <2>2, <1>2, <1>3 DEF Holds, Locking, Resetting, records
<1>7. Holding' /\ Apart' /\ Known'
  BY <1>2, <1>6, <1>t DEF Parts, Holding, Apart, Known
<1> QED  BY <1>2, <1>4, <1>5, <1>7, DoneUntouched DEF IInv, Parts

LEMMA VerifyKeeps ==
    ASSUME IInv, NEW c \in Challenges, NEW purpose \in Purposes, NEW right \in BOOLEAN,
           VerifyAction(c, purpose, right)
    PROVE  IInv'
<1>t. TypeOK /\ Parts
  BY DEF IInv
<1> DEFINE action == IF right THEN "open" ELSE "none"
           row == Guessed(challenges[c], right, action)
<1>1. /\ challenges' = [challenges EXCEPT ![c] = Guessed(@, right, action)]
      /\ ~challenges[c].consumed /\ challenges[c].attempts < MaxTries
      /\ challenges[c].purpose # "gone" /\ Count(c, right) /\ RowFree(c)
      /\ UNCHANGED <<made, account, accounts, sessions, meanwhile, records, calls>>
  BY DEF VerifyAction, Guessable, Purposes
<1>2. /\ row \in ChallengeRow /\ row.purpose = challenges[c].purpose
      /\ tries' \in [Challenges -> Nat] /\ wins' \in [Challenges -> Nat]
      /\ \A d \in Challenges : Counted(d)'
  BY <1>1, GuessCounts
<1> HIDE DEF row
<1>3. challenges' = [challenges EXCEPT ![c] = row]
  BY <1>1 DEF row
<1>4. challenges' \in [Challenges -> ChallengeRow] /\ \A j \in Callers : Holds(calls[j])'
  <2> DEFINE nobody == CHOOSE k : k \notin Callers
  <2>1. nobody \notin Callers /\ Callers \ {nobody} = Callers
    BY NoSetContainsEverything
  <2> HIDE DEF nobody
  <2>2. \A j \in Callers : calls[j].op = "reset" => account'.id = account.id \/ calls[j].c \in meanwhile
    BY <1>1
  <2> QED  BY <2>1, <2>2, <1>1, <1>2, <1>3, <1>t, RowChanges DEF RowFree, Parts, records
<1>5. TypeOK'
  BY <1>1, <1>2, <1>4, <1>t DEF TypeOK, records
<1>6. Holding' /\ Apart' /\ Known'
  BY <1>1, <1>4, <1>t DEF Parts, Holding, Holds, Apart, Known, records
<1> QED  BY <1>1, <1>2, <1>5, <1>6, DoneUntouched DEF IInv, Parts

LEMMA LoginWrongKeeps ==
    ASSUME IInv, NEW k \in Callers, LoginWrong(k)
    PROVE  IInv'
<1>t. TypeOK /\ Parts /\ Holds(calls[k])
  BY DEF IInv, Parts, Holding
<1> DEFINE c == calls[k].c
           row == Guessed(challenges[c], FALSE, "none")
<1>1. /\ c \in Challenges /\ challenges' = [challenges EXCEPT ![c] = Guessed(@, FALSE, "none")]
      /\ ~challenges[c].consumed /\ challenges[c].attempts < MaxTries
      /\ challenges[c].purpose # "gone" /\ Count(c, FALSE) /\ End(k)
      /\ calls[k].op \in Locking
      /\ c \in calls[k].held
      /\ UNCHANGED <<made, account, accounts, sessions, meanwhile, records>>
  BY <1>t DEF LoginWrong, Holds, Locking
<1>2. /\ row \in ChallengeRow /\ row.purpose = challenges[c].purpose
      /\ tries' \in [Challenges -> Nat] /\ wins' \in [Challenges -> Nat]
      /\ \A d \in Challenges : Counted(d)'
  BY <1>1, GuessCounts
<1> HIDE DEF row
<1>3. challenges' = [challenges EXCEPT ![c] = row]
  BY <1>1 DEF row
<1>e. calls' \in [Callers -> CallRow] /\ calls'[k] = Idle /\ \A j \in Callers \ {k} : calls'[j] = calls[j]
  BY <1>1, <1>t, Ended
<1>4. challenges' \in [Challenges -> ChallengeRow] /\ \A j \in Callers \ {k} : Holds(calls[j])'
  <2>1. \A j \in Callers \ {k} : c \notin calls[j].held
    BY <1>1, <1>t DEF Parts, Apart
  <2> HIDE DEF c
  <2> QED  BY <2>1, <1>1, <1>2, <1>3, <1>e, <1>t, RowChanges DEF records, Parts
<1>5. TypeOK'
  BY <1>1, <1>2, <1>4, <1>e, <1>t DEF TypeOK, records
<1>6. Holding'
  BY <1>4, <1>e, Empty DEF Holding, Holds, Locking, Resetting
<1>7. Apart' /\ Known'
  BY <1>1, <1>t, ApartKept DEF Parts, Known
<1> QED  BY <1>1, <1>2, <1>5, <1>6, <1>7, DoneUntouched DEF IInv, Parts

LEMMA LogoutKeeps == ASSUME IInv, NEW t \in Tokens, Logout(t) PROVE IInv'
<1>1. TypeOK'
  BY Empty DEF IInv, TypeOK, Logout, records
<1>2. Parts'
  BY DEF IInv, Parts, Counted, Holding, Holds, Apart, Known, Logout, records
<1>3. RequestsAreDoneOnce'
  BY DoneUntouched DEF IInv, Logout
<1> QED  BY <1>1, <1>2, <1>3 DEF IInv

\* The steps that write no row of a code.
LEMMA AccountsKeep ==
    ASSUME IInv, NEW k \in Callers, CommitPasswordLogin(k)
    PROVE  IInv'
<1>t. TypeOK /\ Parts /\ calls[k] \in CallRow
  BY DEF IInv, TypeOK
<1>1. End(k) /\ UNCHANGED <<challenges, made, account, accounts, meanwhile, records, tries, wins>>
  BY DEF CommitPasswordLogin
<1>2. sessions' \in [Tokens -> SessionRow]
  <2>1. [id |-> calls[k].id, password |-> calls[k].password] \in SessionRow
    BY <1>t DEF CallRow, SessionRow, AccountRow
  <2> QED  BY <2>1, <1>t DEF CommitPasswordLogin, IssueSession, TypeOK
<1>e. calls' \in [Callers -> CallRow] /\ calls'[k] = Idle /\ \A j \in Callers \ {k} : calls'[j] = calls[j]
  BY <1>1, <1>t, Ended
<1>3. TypeOK'
  BY <1>1, <1>2, <1>e, <1>t DEF TypeOK, records
<1>4. Holding'
  BY <1>1, <1>e, <1>t, Empty DEF Parts, Holding, Holds, Locking, Resetting, records
<1>5. Apart' /\ Known' /\ \A c \in Challenges : Counted(c)'
  BY <1>1, <1>t, ApartKept DEF Parts, Known, Counted
<1> QED  BY <1>1, <1>3, <1>4, <1>5, DoneUntouched DEF IInv, Parts

\* A code in the making gets the next number, and locks those it replaces.
LEMMA ReplaceKeeps ==
    ASSUME IInv, NEW k \in Callers, ReplaceChallenges(k)
    PROVE  IInv'
<1>t. TypeOK /\ Parts /\ calls[k] \in CallRow /\ made \in Nat /\ MaxChallenges \in Nat
  BY Limits DEF IInv, TypeOK
<1> DEFINE live == {c \in ForPurpose(calls[k].purpose) : ~challenges[c].consumed}
           call == [calls[k] EXCEPT !.op = "replacing", !.c = made + 1, !.held = live]
<1>1. /\ calls[k].op = "challenge" /\ made < MaxChallenges /\ made' = made + 1
      /\ \A c \in live : RowFree(c)
      /\ calls' = [calls EXCEPT ![k] = call]
      /\ UNCHANGED <<challenges, account, accounts, sessions, meanwhile, records, tries, wins>>
  BY DEF ReplaceChallenges
<1>2. made + 1 \in Challenges /\ made' \in 0..MaxChallenges /\ live \subseteq Challenges
      /\ \A c \in live : challenges[c].purpose # "gone"
  BY <1>1, <1>t DEF Challenges, ForPurpose, Mailed
<1> HIDE DEF live
<1>3. call \in CallRow /\ call.op = "replacing" /\ call.c = made + 1 /\ call.held = live
  BY <1>2, <1>t DEF CallRow, Ops
<1> HIDE DEF call
<1>4. calls' \in [Callers -> CallRow] /\ calls'[k] = call
      /\ \A j \in Callers \ {k} : calls'[j] = calls[j]
  BY <1>1, <1>3, <1>t DEF TypeOK
<1>5. TypeOK'
  BY <1>1, <1>2, <1>4, <1>t DEF TypeOK, records
<1>6. \A c \in Challenges : Counted(c) /\ c \in Nat
  BY <1>t DEF Parts, Challenges
<1>7. ASSUME NEW c \in Challenges PROVE Counted(c)'
  BY <1>1, <1>6, <1>t DEF Counted
<1>8. Holds(calls[k])'
  <2>1. challenges[made + 1].purpose = "gone" /\ made + 1 <= made'
    BY <1>1, <1>2, <1>6, <1>t DEF Counted
  <2>2. calls'[k].op = "replacing" /\ calls'[k].c = made + 1 /\ calls'[k].held = live
    BY <1>3, <1>4
  <2> QED  BY <2>1, <2>2, <1>1, <1>2 DEF Holds, Locking, Resetting
<1>9. ASSUME NEW j \in Callers \ {k} PROVE Holds(calls[j])' /\ (calls[j].op = "replacing" => calls[j].c < made + 1)
  <2>1. Holds(calls[j])
    BY <1>t DEF Parts, Holding
  <2>2. calls[j].op = "replacing" => calls[j].c \in Nat /\ calls[j].c <= made
    BY <2>1, <1>6 DEF Holds
  <2>3. calls[j].op = "replacing" => calls[j].c <= made' /\ calls[j].c < made + 1
    BY <2>2, <1>1, <1>t
  <2> QED  BY <2>1, <2>3, <1>1, <1>4 DEF Holds, records
<1>10. Holding'
  BY <1>4, <1>8, <1>9 DEF Holding
<1>11. Apart'
  <2> SUFFICES ASSUME NEW i \in Callers, NEW j \in Callers, i # j
               PROVE  /\ calls'[i].held \cap calls'[j].held = {}
                      /\ calls'[i].op = "replacing" /\ calls'[j].op = "replacing" =>
                            calls'[i].c # calls'[j].c
    BY DEF Apart
  <2>1. \A a \in Callers \ {k} : call.held \cap calls[a].held = {}
    BY <1>1, <1>3 DEF RowFree
  <2>2. \A a \in Callers \ {k} : calls[a].op = "replacing" => calls[a].c # call.c
    BY <1>3, <1>9, <1>t
  <2> QED  BY <2>1, <2>2, <1>4, <1>t DEF Parts, Apart
<1> QED  BY <1>1, <1>5, <1>7, <1>10, <1>11, <1>t, DoneUntouched DEF IInv, Parts, Known

LEMMA CommitChallengeKeeps ==
    ASSUME IInv, NEW k \in Callers, CommitChallenge(k)
    PROVE  IInv'
<1>t. TypeOK /\ Parts /\ calls[k] \in CallRow /\ Holds(calls[k])
  BY DEF IInv, TypeOK, Parts, Holding
<1> DEFINE n == calls[k].c
           held == calls[k].held
           row == [NoChallenge EXCEPT !.purpose = calls[k].purpose]
           erasing == \E j \in Callers : calls[j].op = "erasing"
<1>1. /\ End(k) /\ calls[k].op = "replacing"
      /\ challenges' = [c \in Challenges |->
            IF c = n THEN row
            ELSE IF c \in held THEN [challenges[c] EXCEPT !.consumed = TRUE] ELSE challenges[c]]
      /\ meanwhile' = IF erasing THEN meanwhile \cup {n} ELSE meanwhile
      /\ UNCHANGED <<made, account, accounts, sessions, records, tries, wins>>
  BY DEF CommitChallenge
<1>2. /\ n \in Challenges /\ n \in Nat /\ n <= made /\ made \in Nat
      /\ challenges[n].purpose = "gone" /\ held \subseteq Challenges /\ n \notin held
      /\ \A c \in held : challenges[c].purpose # "gone"
  BY <1>1, <1>t DEF Holds, TypeOK, CallRow, Challenges
<1>3. /\ row \in ChallengeRow /\ row.purpose # "gone" /\ row.attempts = 0 /\ ~row.consumed
  BY <1>t, Empty DEF CallRow, ChallengeRow, Purposes
<1>r. \A j \in Callers \ {k} :
         /\ calls[j].held \cap held = {}
         /\ calls[j].op = "replacing" => calls[j].c # n
  BY <1>1, <1>t DEF Parts, Apart
<1>a. /\ account' = account /\ made' = made /\ checks' = checks /\ meanwhile \subseteq meanwhile'
      /\ \A j \in Callers : calls[j].op = "erasing" => n \in meanwhile'
  BY <1>1 DEF records
<1> HIDE DEF n, held, row
<1>5. ASSUME NEW c \in Challenges
      PROVE  /\ challenges'[c] \in ChallengeRow
             /\ c = n => challenges'[c] = row
             /\ c # n /\ c \notin held => challenges'[c] = challenges[c]
             /\ c # n => challenges'[c].purpose = challenges[c].purpose
             /\ c \in held =>
                   challenges'[c].attempts = challenges[c].attempts /\ challenges'[c].consumed
  <2>1. /\ challenges[c] \in ChallengeRow
        /\ challenges'[c] = IF c = n THEN row
              ELSE IF c \in held THEN [challenges[c] EXCEPT !.consumed = TRUE] ELSE challenges[c]
    BY <1>1, <1>t DEF TypeOK
  <2>2. CASE c = n
    BY <2>1, <2>2, <1>2, <1>3
  <2>3. CASE c # n /\ c \in held
    BY <2>1, <2>3 DEF ChallengeRow
  <2>4. CASE c # n /\ c \notin held
    BY <2>1, <2>4
  <2> QED  BY <2>2, <2>3, <2>4
<1>e. calls' \in [Callers -> CallRow] /\ calls'[k] = Idle /\ \A j \in Callers \ {k} : calls'[j] = calls[j]
  BY <1>1, <1>t, Ended
<1>7. TypeOK'
  <2>1. challenges' \in [Challenges -> ChallengeRow] /\ meanwhile' \subseteq Challenges
    BY <1>1, <1>2, <1>5, <1>t DEF TypeOK
  <2> QED  BY <2>1, <1>1, <1>e, <1>t DEF TypeOK, records
<1>9. ASSUME NEW c \in Challenges PROVE Counted(c)'
  <2>1. Counted(c) /\ tries'[c] = tries[c] /\ wins'[c] = wins[c]
    BY <1>1, <1>t DEF Parts
  <2>2. CASE c = n
    <3>1. tries[c] = 0 /\ wins[c] = 0 /\ ~(c > made')
      BY <2>1, <2>2, <1>2, <1>a, Empty DEF Counted
    <3> QED  BY <2>1, <2>2, <3>1, <1>3, <1>5 DEF Counted
  <2>3. CASE c \in held
    BY <2>1, <2>3, <1>2, <1>5, <1>a DEF Counted
  <2>4. CASE c # n /\ c \notin held
    BY <2>1, <2>4, <1>5, <1>a DEF Counted
  <2> QED  BY <2>2, <2>3, <2>4
<1>10. Holding'
  <2>1. ASSUME NEW j \in Callers \ {k} PROVE Holds(calls[j])'
    <3>1. Holds(calls[j]) /\ calls[j].held \subseteq Challenges
      BY <1>t DEF Parts, Holding, TypeOK, CallRow
    <3>2. calls[j].op \in Locking => challenges'[calls[j].c] = challenges[calls[j].c]
      <4>1. CASE calls[j].op \in Locking
        <5>1. calls[j].c \in calls[j].held /\ calls[j].c \in Challenges
              /\ challenges[calls[j].c].purpose # "gone"
          BY <3>1, <4>1 DEF Holds, Locking
        <5>2. calls[j].c # n /\ calls[j].c \notin held
          BY <5>1, <1>2, <1>r
        <5> QED  BY <5>1, <5>2, <1>5
      <4> QED  BY <4>1
    <3>3. calls[j].op = "replacing" =>
              challenges'[calls[j].c].purpose = challenges[calls[j].c].purpose
      BY <3>1, <1>5, <1>r DEF Holds
    <3>4. \A c \in Challenges : challenges[c].purpose # "gone" => challenges'[c].purpose # "gone"
      BY <1>2, <1>5
    <3>5. calls[j].op = "erasing" => \A c \in Challenges :
              challenges'[c].purpose = "gone" \/ c \in calls[j].held \/ c \in meanwhile'
      BY <3>1, <1>5, <1>a DEF Holds
    <3>6. /\ calls[j].op \in Locking => calls[j].c \in Challenges /\ calls[j].c \in calls[j].held
          /\ calls[j].op = "reset" => calls[j].id = account'.id \/ calls[j].c \in meanwhile'
          /\ calls[j].op = "inserting" => calls[j].c \in meanwhile'
          /\ calls[j].op = "concern" => checks'[calls[j].r].stored
      BY <3>1, <1>a DEF Holds
    <3>7. calls[j].op = "replacing" =>
              /\ calls[j].c \in Challenges /\ calls[j].c <= made'
              /\ challenges'[calls[j].c].purpose = "gone"
              /\ \A c \in calls[j].held : challenges'[c].purpose # "gone"
      BY <3>1, <3>3, <3>4, <1>a DEF Holds
    <3> QED  BY <3>1, <3>2, <3>5, <3>6, <3>7, <1>e DEF Holds, Locking, Resetting
  <2> QED  BY <2>1, <1>e, Empty DEF Holding, Holds, Locking, Resetting
<1>11. Apart' /\ Known'
  BY <1>1, <1>t, ApartKept DEF Parts, Known
<1> QED  BY <1>1, <1>7, <1>9, <1>10, <1>11, DoneUntouched DEF IInv, Parts

\* An account is made where there is none, with an identifier of its own.
LEMMA MakesAccount ==
    ASSUME TypeOK, NEW password \in 0..MaxPassword, NewAccount(password)
    PROVE  /\ account' \in AccountRow /\ accounts' \in 0..MaxAccounts
           /\ account'.id = accounts + 1 /\ account'.id # 0
<1>1. accounts \in Nat /\ accounts + 1 \in Ids /\ accounts + 1 # 0 /\ accounts + 1 \in 0..MaxAccounts
  BY Limits DEF TypeOK, NewAccount, Ids
<1> QED  BY <1>1 DEF NewAccount, AccountRow

LEMMA LoginRightKeeps ==
    ASSUME IInv, NEW k \in Callers, LoginRight(k)
    PROVE  IInv'
<1>t. TypeOK /\ Parts /\ Holds(calls[k])
  BY DEF IInv, Parts, Holding
<1> DEFINE c == calls[k].c
           row == Guessed(challenges[c], TRUE, "none")
<1>1. /\ c \in Challenges /\ challenges' = [challenges EXCEPT ![c] = Guessed(@, TRUE, "none")]
      /\ ~challenges[c].consumed /\ challenges[c].attempts < MaxTries
      /\ challenges[c].purpose # "gone" /\ Count(c, TRUE) /\ End(k)
      /\ calls[k].op \in Locking
      /\ c \in calls[k].held
      /\ UNCHANGED <<made, meanwhile, records>>
  BY <1>t DEF LoginRight, Holds, Locking
<1>2. /\ row \in ChallengeRow /\ row.purpose = challenges[c].purpose
      /\ tries' \in [Challenges -> Nat] /\ wins' \in [Challenges -> Nat]
      /\ \A d \in Challenges : Counted(d)'
  BY <1>1, GuessCounts
<1> HIDE DEF row
<1>3. challenges' = [challenges EXCEPT ![c] = row]
  BY <1>1 DEF row
<1>a. /\ account' \in AccountRow /\ accounts' \in 0..MaxAccounts /\ Known'
      /\ account # NoAccount => account' = account
      /\ account = NoAccount => account'.id # 0
  <2>1. CASE account = NoAccount
    <3>1. NewAccount(0) /\ 0 \in 0..MaxPassword
      BY <2>1, Limits DEF LoginRight
    <3> QED  BY <2>1, <3>1, <1>t, MakesAccount DEF Known
  <2>2. CASE account # NoAccount
    BY <2>2, <1>t DEF LoginRight, TypeOK, Parts, Known
  <2> QED  BY <2>1, <2>2
<1>s. sessions' \in [Tokens -> SessionRow]
  <2>1. [id |-> account'.id, password |-> 0] \in SessionRow
    BY <1>a, Limits DEF SessionRow, AccountRow
  <2> QED  BY <2>1, <1>t DEF LoginRight, IssueSession, TypeOK
<1>e. calls' \in [Callers -> CallRow] /\ calls'[k] = Idle /\ \A j \in Callers \ {k} : calls'[j] = calls[j]
  BY <1>1, <1>t, Ended
<1>4. challenges' \in [Challenges -> ChallengeRow] /\ \A j \in Callers \ {k} : Holds(calls[j])'
  <2>1. \A j \in Callers \ {k} : c \notin calls[j].held
    BY <1>1, <1>t DEF Parts, Apart
  <2>2. \A j \in Callers \ {k} : calls[j].op = "reset" =>
            account'.id = account.id \/ calls[j].c \in meanwhile
    BY <1>a, <1>t, Empty DEF Parts, Holding, Holds, Resetting
  <2> HIDE DEF c
  <2> QED  BY <2>1, <2>2, <1>1, <1>2, <1>3, <1>e, <1>t, RowChanges DEF records, Parts
<1>5. TypeOK'
  BY <1>1, <1>2, <1>4, <1>a, <1>s, <1>e, <1>t DEF TypeOK, records
<1>6. Holding'
  BY <1>4, <1>e, Empty DEF Holding, Holds, Locking, Resetting
<1>7. Apart'
  BY <1>1, <1>t, ApartKept DEF Parts
<1> QED  BY <1>1, <1>2, <1>5, <1>6, <1>7, <1>a, DoneUntouched DEF IInv, Parts

LEMMA RegistrationKeeps ==
    ASSUME IInv, NEW c \in Challenges, CompleteRegistration(c)
    PROVE  IInv'
<1>t. TypeOK /\ Parts /\ challenges[c] \in ChallengeRow
  BY DEF IInv, TypeOK
<1> DEFINE row == [challenges[c] EXCEPT !.action = "done"]
<1>1. /\ row \in ChallengeRow /\ row.purpose = challenges[c].purpose /\ row.purpose # "gone"
      /\ row.attempts = challenges[c].attempts /\ row.consumed = challenges[c].consumed
  BY <1>t DEF ChallengeRow, CompleteRegistration
<1> HIDE DEF row
<1>2. /\ challenges' = [challenges EXCEPT ![c] = row] /\ RowFree(c)
      /\ account = NoAccount /\ UNCHANGED <<made, meanwhile, records, calls, tries, wins>>
  BY DEF CompleteRegistration, row
<1>3. \A d \in Challenges :
         /\ challenges'[d].purpose = challenges[d].purpose
         /\ challenges'[d].attempts = challenges[d].attempts
         /\ challenges'[d].consumed = challenges[d].consumed
         /\ d # c => challenges'[d] = challenges[d]
  BY <1>1, <1>2, <1>t DEF TypeOK
<1>a. account' \in AccountRow /\ accounts' \in 0..MaxAccounts /\ account'.id # 0
  <2>1. NewAccount(1) /\ 1 \in 0..MaxPassword
    BY Limits DEF CompleteRegistration
  <2> QED  BY <2>1, <1>t, MakesAccount
<1>s. sessions' \in [Tokens -> SessionRow]
  <2>1. [id |-> account'.id, password |-> 1] \in SessionRow
    BY <1>a, Limits DEF SessionRow, AccountRow
  <2> QED  BY <2>1, <1>t DEF CompleteRegistration, IssueSession, TypeOK
<1>4. TypeOK'
  BY <1>1, <1>2, <1>a, <1>s, <1>t DEF TypeOK, records
<1>5. ASSUME NEW d \in Challenges PROVE Counted(d)'
  BY <1>1, <1>2, <1>3, <1>t DEF Parts, Counted
<1>6. \A j \in Callers : calls[j].op = "reset" => calls[j].c \in meanwhile
  BY <1>2, <1>t, Empty DEF Parts, Holding, Holds, Resetting
<1>7. Holding' /\ Apart' /\ Known'
  <2> DEFINE nobody == CHOOSE k : k \notin Callers
  <2>1. nobody \notin Callers /\ Callers \ {nobody} = Callers
    BY NoSetContainsEverything
  <2> HIDE DEF nobody
  <2>2. \A j \in Callers : Holds(calls[j])'
    BY <2>1, <1>1, <1>2, <1>6, <1>t, RowChanges DEF RowFree, Parts, records
  <2> QED  BY <2>2, <1>2, <1>a, <1>t DEF Parts, Holding, Apart, Known
<1> QED  BY <1>2, <1>4, <1>5, <1>7, DoneUntouched DEF IInv, Parts

\* What the save of a reset does: only one whose code was sent while the account was
\* deleted can insert it.
LEMMA ResetSaves ==
    ASSUME IInv, NEW k \in Callers, CommitReset(k)
    PROVE  /\ calls[k].c \in Challenges /\ calls[k].c \in calls[k].held
           /\ challenges[calls[k].c].purpose = "password_reset"
           /\ challenges[calls[k].c].action # "done"
           /\ \/ account'.id = account.id
              \/ calls[k].c \in meanwhile /\ account = NoAccount
           /\ account' \in AccountRow /\ Known'
<1>1. TypeOK /\ Parts /\ calls[k] \in CallRow /\ Holds(calls[k]) /\ account \in AccountRow
  BY DEF IInv, TypeOK, Parts, Holding
<1>2. /\ calls[k].op \in {"updating", "inserting"} /\ SaveAccount(calls[k])
      /\ calls[k].password < MaxPassword
  BY DEF CommitReset
<1>3. /\ calls[k].c \in Challenges /\ calls[k].c \in calls[k].held
      /\ challenges[calls[k].c].purpose = "password_reset"
      /\ challenges[calls[k].c].action # "done" /\ calls[k].id # 0
      /\ calls[k].op = "inserting" => calls[k].c \in meanwhile
  BY <1>1, <1>2 DEF Holds, Locking, Resetting
<1>4. calls[k].password + 1 \in 0..MaxPassword /\ calls[k].id \in {0} \cup Ids
  BY <1>1, <1>2, Limits DEF CallRow
<1>5. CASE calls[k].op = "updating" /\ account.id = calls[k].id
  <2>1. account' = [account EXCEPT !.password = calls[k].password + 1]
    BY <1>2, <1>5 DEF SaveAccount
  <2> QED  BY <2>1, <1>1, <1>3, <1>4, <1>5 DEF AccountRow, Known
<1>6. CASE calls[k].op = "updating" /\ account.id # calls[k].id
  <2>1. account' = account
    BY <1>2, <1>6 DEF SaveAccount
  <2> QED  BY <2>1, <1>1, <1>3 DEF Parts, Known
<1>7. CASE calls[k].op = "inserting"
  <2>1. /\ account = NoAccount
        /\ account' = [id |-> calls[k].id, password |-> calls[k].password + 1]
    BY <1>2, <1>7 DEF SaveAccount
  <2> QED  BY <2>1, <1>3, <1>4, <1>7 DEF AccountRow, Known
<1> QED  BY <1>2, <1>5, <1>6, <1>7

LEMMA CommitResetKeeps ==
    ASSUME IInv, NEW k \in Callers, CommitReset(k)
    PROVE  IInv'
<1>t. TypeOK /\ Parts /\ calls[k] \in CallRow
  BY DEF IInv, TypeOK
<1> DEFINE c == calls[k].c
           row == [challenges[c] EXCEPT !.action = "done"]
<1>0. /\ c \in Challenges /\ c \in calls[k].held
      /\ challenges[c].purpose = "password_reset"
      /\ account'.id = account.id \/ account = NoAccount
      /\ account' \in AccountRow /\ Known'
  BY ResetSaves
<1>1. /\ End(k) /\ UNCHANGED <<made, accounts, meanwhile, records, tries, wins>>
      /\ sessions' = [t \in Tokens |->
            IF sessions[t].id = calls[k].id THEN NoSession ELSE sessions[t]]
      /\ challenges' = [challenges EXCEPT ![c].action = "done"]
  BY DEF CommitReset
<1>2. /\ row \in ChallengeRow /\ row.purpose = challenges[c].purpose
      /\ row.attempts = challenges[c].attempts /\ row.consumed = challenges[c].consumed
  BY <1>0, <1>t DEF TypeOK, ChallengeRow
<1>3. challenges' = [challenges EXCEPT ![c] = row]
  BY <1>1
<1> HIDE DEF row
<1>s. sessions' \in [Tokens -> SessionRow]
  BY <1>1, <1>t, Empty DEF TypeOK
<1>e. calls' \in [Callers -> CallRow] /\ calls'[k] = Idle /\ \A j \in Callers \ {k} : calls'[j] = calls[j]
  BY <1>1, <1>t, Ended
<1>4. challenges' \in [Challenges -> ChallengeRow] /\ \A j \in Callers \ {k} : Holds(calls[j])'
  <2>1. \A j \in Callers \ {k} : c \notin calls[j].held
    BY <1>0, <1>t DEF Parts, Apart
  <2>2. c \in Challenges
    BY <1>0
  <2>3. \A j \in Callers \ {k} : calls[j].op = "reset" =>
            account'.id = account.id \/ calls[j].c \in meanwhile
    BY <1>0, <1>t, Empty DEF Parts, Holding, Holds, Resetting
  <2> HIDE DEF c
  <2> QED  BY <2>1, <2>2, <2>3, <1>1, <1>2, <1>3, <1>e, <1>t, RowChanges DEF records, Parts
<1>5. TypeOK'
  BY <1>0, <1>1, <1>4, <1>s, <1>e, <1>t DEF TypeOK, records
<1>6. Holding'
  BY <1>4, <1>e, Empty DEF Holding, Holds, Locking, Resetting
<1>7. ASSUME NEW d \in Challenges PROVE Counted(d)'
  <2>1. CASE d = c
    <3>1. challenges'[d] = row
      BY <2>1, <1>3, <1>t DEF TypeOK
    <3> QED  BY <2>1, <3>1, <1>0, <1>1, <1>2, <1>t DEF Parts, Counted
  <2>2. CASE d # c
    <3>1. challenges'[d] = challenges[d]
      BY <2>2, <1>3, <1>t DEF TypeOK
    <3> QED  BY <3>1, <1>1, <1>t DEF Parts, Counted
  <2> QED  BY <2>1, <2>2
<1>8. Apart'
  BY <1>1, <1>t, ApartKept DEF Parts
<1> QED  BY <1>0, <1>1, <1>5, <1>6, <1>7, <1>8, DoneUntouched DEF IInv, Parts

LEMMA CommitDeleteKeeps ==
    ASSUME IInv, NEW k \in Callers, CommitDelete(k)
    PROVE  IInv'
<1>t. TypeOK /\ Parts /\ Holds(calls[k]) /\ calls[k] \in CallRow
  BY DEF IInv, TypeOK, Parts, Holding
<1> DEFINE id == calls[k].id
           gone == calls[k].held
           owned == {r \in RequestIds : checks[r].owner = id}
<1>1. /\ End(k) /\ UNCHANGED <<made, accounts, meanwhile, support, done>>
      /\ account' = NoAccount
      /\ calls[k].op = "erasing"
      /\ challenges' = [c \in Challenges |->
            IF c \in gone THEN NoChallenge ELSE challenges[c]]
      /\ sessions' = [t \in Tokens |-> IF sessions[t].id = id THEN NoSession ELSE sessions[t]]
      /\ concerns' = [r \in RequestIds |->
            IF r \in owned /\ concerns[r] # "none" THEN "erased" ELSE concerns[r]]
      /\ checks' = [r \in RequestIds |-> IF r \in owned THEN [checks[r] EXCEPT !.owner = 0] ELSE checks[r]]
      /\ tries' = [c \in Challenges |-> IF c \in gone THEN 0 ELSE tries[c]]
      /\ wins' = [c \in Challenges |-> IF c \in gone THEN 0 ELSE wins[c]]
  BY DEF CommitDelete
<1>2. /\ \A c \in Challenges :
            challenges[c].purpose = "gone" \/ c \in gone \/ c \in meanwhile
      /\ \A j \in Callers \ {k} : calls[j].held \cap gone = {}
  BY <1>1, <1>t DEF Holds, Parts, Apart
<1>p. \A c \in Challenges :
         /\ c \notin gone => challenges'[c] = challenges[c]
         /\ challenges[c].purpose = "gone" => challenges'[c].purpose = "gone"
         /\ challenges'[c].purpose = "gone" \/ challenges'[c] = challenges[c]
  BY <1>1, Empty
<1> HIDE DEF gone
<1>e. calls' \in [Callers -> CallRow] /\ calls'[k] = Idle /\ \A j \in Callers \ {k} : calls'[j] = calls[j]
  BY <1>1, <1>t, Ended
<1>3. \A r \in RequestIds : checks'[r] \in CheckRow /\ checks'[r].stored = checks[r].stored
  <2>1. \A r \in RequestIds : checks[r] \in CheckRow
    BY <1>t DEF TypeOK
  <2>2. \A r \in RequestIds : LET x == [checks[r] EXCEPT !.owner = 0] IN
           x \in CheckRow /\ x.stored = checks[r].stored
    BY <2>1 DEF CheckRow
  <2> QED  BY <2>1, <2>2, <1>1
<1>4. checks' \in [RequestIds -> CheckRow]
  BY <1>1, <1>3
<1>5. TypeOK'
  <2>1. challenges' \in [Challenges -> ChallengeRow] /\ sessions' \in [Tokens -> SessionRow]
        /\ account' \in AccountRow
    BY <1>1, <1>t, Empty DEF TypeOK
  <2>2. concerns' \in [RequestIds -> {"none", "new", "handled", "erased"}]
    BY <1>1, <1>t DEF TypeOK
  <2>3. tries' \in [Challenges -> Nat] /\ wins' \in [Challenges -> Nat]
    BY <1>1, <1>t DEF TypeOK
  <2> QED  BY <2>1, <2>2, <2>3, <1>1, <1>4, <1>e, <1>t DEF TypeOK
<1>6. ASSUME NEW c \in Challenges PROVE Counted(c)'
  <2>1. CASE c \in gone
    BY <2>1, <1>1, Empty DEF Counted
  <2>2. CASE c \notin gone
    BY <2>2, <1>1, <1>t DEF Counted, Parts
  <2> QED  BY <2>1, <2>2
<1>7. Holding'
  <2>1. ASSUME NEW j \in Callers \ {k} PROVE Holds(calls[j])'
    <3>1. Holds(calls[j]) /\ calls[j] \in CallRow /\ calls[j].held \subseteq Challenges
      BY <1>t DEF Parts, Holding, TypeOK, CallRow
    <3>2. \A c \in calls[j].held : challenges'[c] = challenges[c]
      BY <3>1, <1>2, <1>p
    <3>3. calls[j].op = "reset" => calls[j].c \in meanwhile
      BY <3>1, <1>2 DEF Holds, Locking, Resetting
    <3>4. calls[j].op = "concern" => checks'[calls[j].r].stored
      BY <3>1, <1>3 DEF Holds, CallRow
    <3>5. calls[j].op = "erasing" => \A c \in Challenges :
              challenges'[c].purpose = "gone" \/ c \in calls[j].held \/ c \in meanwhile
      BY <3>1, <1>p DEF Holds
    <3>6. calls[j].op = "replacing" => challenges'[calls[j].c].purpose = "gone"
      BY <3>1, <1>p DEF Holds
    <3> QED  BY <3>1, <3>2, <3>3, <3>4, <3>5, <3>6, <1>1, <1>e DEF Holds, Locking, Resetting
  <2> QED  BY <2>1, <1>e, Empty DEF Holding, Holds, Locking, Resetting
<1>8. Apart' /\ Known'
  BY <1>1, <1>t, ApartKept DEF Parts, Known
<1>9. RequestsAreDoneOnce'
  <2>1. \A r \in RequestIds : concerns'[r] = "new" => concerns[r] = "new"
    BY <1>1
  <2> QED  BY <2>1, <1>1, <1>3 DEF IInv, RequestsAreDoneOnce
<1> QED  BY <1>5, <1>6, <1>7, <1>8, <1>9 DEF IInv, Parts

-----------------------------------------------------------------------------
(* Requests with an identifier.                                            *)

\* A check, a concern or a message is stored, or the concern is changed: the codes and
\* the account are as they were, and no check is unstored.
LEMMA RecordsKeep ==
    ASSUME IInv, NEW k \in Callers, End(k), UNCHANGED <<rows, tries, wins>>,
           \A r \in RequestIds : checks[r].stored => checks'[r].stored
    PROVE  Parts' /\ calls' \in [Callers -> CallRow]
<1>t. TypeOK /\ Parts
  BY DEF IInv
<1>e. calls' \in [Callers -> CallRow] /\ calls'[k] = Idle /\ \A j \in Callers \ {k} : calls'[j] = calls[j]
  BY <1>t, Ended
<1>1. Holding'
  <2>1. ASSUME NEW j \in Callers \ {k} PROVE Holds(calls[j])'
    <3>1. Holds(calls[j]) /\ calls[j].r \in RequestIds
      BY <1>t DEF Parts, Holding, TypeOK, CallRow
    <3> QED  BY <3>1, <1>e DEF Holds, rows
  <2> QED  BY <2>1, <1>e, Empty DEF Holding, Holds, Locking, Resetting
<1>2. Apart' /\ Known' /\ \A c \in Challenges : Counted(c)'
  BY <1>t, ApartKept DEF Parts, Known, Counted, rows
<1> QED  BY <1>1, <1>2, <1>e DEF Parts

\* The effects that a row stored under an identifier has had.
LEMMA InsertDoes ==
    ASSUME TypeOK, NEW k \in Callers, NEW kind \in Kinds, Insert(k, kind)
    PROVE  LET r == calls[k].r IN
           /\ r \in RequestIds /\ calls[k].op = kind /\ End(k)
           /\ UNCHANGED <<rows, tries, wins>>
           /\ done' \in [Kinds -> [RequestIds -> Nat]]
           /\ done'[kind][r] = done[kind][r] + (IF Stored(kind, r) THEN 0 ELSE 1)
           /\ \A other \in Kinds, q \in RequestIds :
                 other # kind \/ q # r => done'[other][q] = done[other][q]
<1> DEFINE r == calls[k].r
<1>1. r \in RequestIds
  BY DEF TypeOK, CallRow
<1>2. /\ calls[k].op = kind /\ End(k) /\ UNCHANGED <<rows, tries, wins>>
      /\ done' = IF ~Stored(kind, r) THEN [done EXCEPT ![kind][r] = @ + 1] ELSE done
  BY DEF Insert, Insertable
<1> HIDE DEF r
<1>3. done \in [Kinds -> [RequestIds -> Nat]] /\ done[kind] \in [RequestIds -> Nat]
      /\ done[kind][r] \in Nat
  BY <1>1 DEF TypeOK
<1>4. CASE ~Stored(kind, r)
  <2> DEFINE f == [done[kind] EXCEPT ![r] = done[kind][r] + 1]
  <2>1. done' = [done EXCEPT ![kind] = f]
    BY <1>2, <1>4
  <2>2. f \in [RequestIds -> Nat] /\ f[r] = done[kind][r] + 1
        /\ \A q \in RequestIds \ {r} : f[q] = done[kind][q]
    BY <1>1, <1>3
  <2> HIDE DEF f
  <2>3. done' \in [Kinds -> [RequestIds -> Nat]] /\ done'[kind] = f
        /\ \A other \in Kinds \ {kind} : done'[other] = done[other]
    BY <2>1, <2>2, <1>3
  <2> QED  BY <2>2, <2>3, <1>1, <1>2, <1>4 DEF r
<1>5. CASE Stored(kind, r)
  <2>1. done' = done
    BY <1>2, <1>5
  <2> QED  BY <2>1, <1>1, <1>2, <1>3, <1>5 DEF r
<1> QED  BY <1>4, <1>5

LEMMA CommitCheckKeeps ==
    ASSUME IInv, NEW k \in Callers, CommitCheck(k)
    PROVE  IInv'
<1>t. TypeOK /\ RequestsAreDoneOnce /\ calls[k] \in CallRow
  BY DEF IInv, TypeOK
<1> DEFINE r == calls[k].r
           check == [stored |-> TRUE, owner |-> calls[k].id]
<1>k. "check" \in Kinds /\ "support" \in Kinds
  BY DEF Kinds
<1>i. Insert(k, "check") /\ UNCHANGED <<concerns, support>>
  BY DEF CommitCheck
<1>1. /\ r \in RequestIds /\ End(k) /\ UNCHANGED <<rows, tries, wins>>
      /\ done' \in [Kinds -> [RequestIds -> Nat]]
      /\ done'["check"][r] = done["check"][r] + (IF Stored("check", r) THEN 0 ELSE 1)
      /\ \A other \in Kinds, q \in RequestIds :
            other # "check" \/ q # r => done'[other][q] = done[other][q]
  BY <1>i, <1>t, <1>k, InsertDoes
<1>2. /\ checks' = IF ~Stored("check", r) THEN [checks EXCEPT ![r] = check] ELSE checks
      /\ Stored("check", r) <=> checks[r].stored
  BY DEF CommitCheck, Insertable, Stored
<1>3. check \in CheckRow /\ check.stored
  BY <1>t DEF CallRow, CheckRow
<1> HIDE DEF r, check
<1>4. /\ checks' \in [RequestIds -> CheckRow] /\ checks'[r].stored
      /\ \A q \in RequestIds \ {r} : checks'[q] = checks[q]
  <2>1. checks \in [RequestIds -> CheckRow] /\ r \in RequestIds
    BY <1>1, <1>t DEF TypeOK
  <2>2. CASE Stored("check", r)
    BY <2>1, <2>2, <1>2
  <2>3. CASE ~Stored("check", r)
    BY <2>1, <2>3, <1>2, <1>3
  <2> QED  BY <2>2, <2>3
<1>5. Parts' /\ calls' \in [Callers -> CallRow]
  <2>1. \A q \in RequestIds : checks[q].stored => checks'[q].stored
    BY <1>4
  <2> QED  BY <2>1, <1>1, RecordsKeep
<1>6. TypeOK'
  BY <1>i, <1>1, <1>4, <1>5, <1>t DEF TypeOK, rows
<1>7. RequestsAreDoneOnce'
  <2> SUFFICES ASSUME NEW q \in RequestIds
               PROVE  /\ done'["check"][q] = (IF checks'[q].stored THEN 1 ELSE 0)
                      /\ done'["support"][q] = (IF support'[q] THEN 1 ELSE 0)
                      /\ concerns'[q] = "new" => done'["check"][q] = 1
    BY DEF RequestsAreDoneOnce
  <2>1. done'["support"][q] = (IF support'[q] THEN 1 ELSE 0)
    BY <1>i, <1>1, <1>k, <1>t DEF RequestsAreDoneOnce
  <2>2. CASE q = r
    <3>1. done["check"][r] = (IF checks[r].stored THEN 1 ELSE 0)
      BY <1>1, <1>t DEF RequestsAreDoneOnce
    <3>2. done'["check"][r] = 1
      BY <3>1, <1>1, <1>2
    <3> QED  BY <2>1, <2>2, <3>2, <1>4
  <2>3. CASE q # r
    <3>1. done'["check"][q] = done["check"][q] /\ checks'[q] = checks[q] /\ concerns' = concerns
      BY <2>3, <1>i, <1>1, <1>4, <1>k
    <3> QED  BY <2>1, <3>1, <1>t DEF RequestsAreDoneOnce
  <2> QED  BY <2>2, <2>3
<1> QED  BY <1>5, <1>6, <1>7 DEF IInv

LEMMA CommitReportKeeps ==
    ASSUME IInv, NEW k \in Callers, CommitReport(k)
    PROVE  IInv'
<1>t. TypeOK /\ RequestsAreDoneOnce /\ Holds(calls[k])
  BY DEF IInv, Parts, Holding
<1> DEFINE r == calls[k].r
<1>k. "check" \in Kinds /\ "support" \in Kinds /\ "concern" \in Kinds
  BY DEF Kinds
<1>1. /\ r \in RequestIds /\ End(k) /\ UNCHANGED <<rows, tries, wins>>
      /\ done' \in [Kinds -> [RequestIds -> Nat]] /\ calls[k].op = "concern"
      /\ \A other \in Kinds, q \in RequestIds :
            other # "concern" \/ q # r => done'[other][q] = done[other][q]
  BY <1>t, <1>k, InsertDoes DEF CommitReport
<1>2. UNCHANGED <<checks, support>> /\ checks[r].stored
      /\ concerns' \in [RequestIds -> {"none", "new", "handled", "erased"}]
      /\ \A q \in RequestIds \ {r} : concerns'[q] = concerns[q]
  BY <1>1, <1>t DEF CommitReport, TypeOK, Holds
<1>5. Parts' /\ calls' \in [Callers -> CallRow]
  BY <1>1, <1>2, RecordsKeep
<1>6. TypeOK'
  BY <1>1, <1>2, <1>5, <1>t DEF TypeOK, rows
<1>7. RequestsAreDoneOnce'
  BY <1>1, <1>2, <1>k, <1>t DEF RequestsAreDoneOnce
<1> QED  BY <1>5, <1>6, <1>7 DEF IInv

LEMMA CommitSupportKeeps ==
    ASSUME IInv, NEW k \in Callers, CommitSupport(k)
    PROVE  IInv'
<1>t. TypeOK /\ RequestsAreDoneOnce
  BY DEF IInv
<1> DEFINE r == calls[k].r
<1>k. "check" \in Kinds /\ "support" \in Kinds
  BY DEF Kinds
<1>1. /\ r \in RequestIds /\ End(k) /\ UNCHANGED <<rows, tries, wins>>
      /\ done' \in [Kinds -> [RequestIds -> Nat]]
      /\ done'["support"][r] = done["support"][r] + (IF support[r] THEN 0 ELSE 1)
      /\ \A other \in Kinds, q \in RequestIds :
            other # "support" \/ q # r => done'[other][q] = done[other][q]
  BY <1>t, <1>k, InsertDoes DEF CommitSupport, Stored
<1> HIDE DEF r
<1>2. /\ UNCHANGED <<checks, concerns>> /\ support' \in [RequestIds -> BOOLEAN]
      /\ support'[r] /\ \A q \in RequestIds \ {r} : support'[q] = support[q]
  BY <1>1, <1>t DEF CommitSupport, TypeOK, r
<1>5. Parts' /\ calls' \in [Callers -> CallRow]
  BY <1>1, <1>2, RecordsKeep
<1>6. TypeOK'
  BY <1>1, <1>2, <1>5, <1>t DEF TypeOK, rows
<1>7. RequestsAreDoneOnce'
  BY <1>1, <1>2, <1>k, <1>t DEF RequestsAreDoneOnce
<1> QED  BY <1>5, <1>6, <1>7 DEF IInv

LEMMA CommitHandleKeeps ==
    ASSUME IInv, NEW k \in Callers, CommitHandle(k)
    PROVE  IInv'
<1>t. TypeOK /\ RequestsAreDoneOnce
  BY DEF IInv
<1>1. End(k) /\ UNCHANGED <<rows, checks, support, done, tries, wins>>
  BY DEF CommitHandle
<1>2. /\ concerns' \in [RequestIds -> {"none", "new", "handled", "erased"}]
      /\ \A q \in RequestIds : concerns'[q] = "new" => concerns[q] = "new"
  BY <1>t DEF CommitHandle, TypeOK
<1>5. Parts' /\ calls' \in [Callers -> CallRow]
  BY <1>1, RecordsKeep
<1>6. TypeOK'
  BY <1>1, <1>2, <1>5, <1>t DEF TypeOK, rows
<1>7. RequestsAreDoneOnce'
  BY <1>1, <1>2, <1>t DEF RequestsAreDoneOnce
<1> QED  BY <1>5, <1>6, <1>7 DEF IInv

-----------------------------------------------------------------------------
LEMMA StepIInv == IInv /\ [Next]_vars => IInv'
<1> SUFFICES ASSUME IInv, [Next]_vars PROVE IInv'
  OBVIOUS
<1>1. ASSUME NEW k \in Callers,
             \/ Abort(k) \/ ReplaceChallenges(k) \/ CommitChallenge(k)
             \/ LoginWrong(k) \/ LoginRight(k)
             \/ CommitPasswordLogin(k) \/ CommitReset(k) \/ CommitDelete(k)
             \/ CommitCheck(k) \/ CommitReport(k) \/ CommitSupport(k) \/ CommitHandle(k)
      PROVE  IInv'
  BY <1>1, AbortKeeps, ReplaceKeeps, CommitChallengeKeeps, LoginWrongKeeps, LoginRightKeeps, AccountsKeep,
     CommitResetKeeps, CommitDeleteKeeps, CommitCheckKeeps, CommitReportKeeps,
     CommitSupportKeeps, CommitHandleKeeps
<1>2. ASSUME NEW k \in Callers,
             \/ \E purpose \in Purposes : RequestChallenge(k, purpose)
             \/ \E c \in Challenges : Login(k, c) \/ ResetPassword(k, c)
             \/ PasswordLogin(k) \/ FindAccount(k)
             \/ DeleteAccount(k) \/ LockAccount(k) \/ DeleteChallenges(k)
             \/ \E r \in RequestIds :
                   \/ Report(k, r) \/ HandleConcern(k, r)
                   \/ \E id \in {0} \cup Ids : Check(k, r, id) \/ ContactSupport(k, r, id)
      PROVE  IInv'
  BY <1>2, BeginsKeep
<1>3. ASSUME NEW c \in Challenges,
             \/ Age(c) \/ ActionExpires(c) \/ CompleteRegistration(c)
             \/ \E purpose \in Purposes, right \in BOOLEAN : VerifyAction(c, purpose, right)
      PROVE  IInv'
  BY <1>3, AgeKeeps, RegistrationKeeps, VerifyKeeps
<1>4. ASSUME NEW t \in Tokens, Logout(t) PROVE IInv'
  BY <1>4, LogoutKeeps
<1>5. CASE UNCHANGED vars
  <2>1. TypeOK' /\ RequestsAreDoneOnce'
    BY <1>5 DEF vars, rows, records, IInv, TypeOK, RequestsAreDoneOnce
  <2>2. Parts'
    BY <1>5 DEF vars, rows, records, IInv, Parts, Counted, Holding, Holds, Apart, Known
  <2> QED  BY <2>1, <2>2 DEF IInv
<1> QED  BY <1>1, <1>2, <1>3, <1>4, <1>5 DEF Next

LEMMA Always == Spec => []IInv
  BY InitIInv, StepIInv, PTL DEF Spec

\* Every row, call and count has its type, for any number of callers, codes and accounts.
THEOREM TypeCorrect == Spec => []TypeOK
<1>1. IInv => TypeOK
  BY DEF IInv
<1> QED  BY <1>1, Always, PTL

\* A mailed code is accepted once and compared at most MaxTries times, however many
\* guesses of it arrive together: login and verifyAction count and judge under the lock
\* of the code's row, and what the row says is what was counted.
THEOREM CodesWinOnce == Spec => []ACodeWinsOnce
<1>1. IInv => ACodeWinsOnce
  <2> SUFFICES ASSUME IInv, NEW c \in Challenges PROVE wins[c] <= 1 /\ tries[c] <= MaxTries
    BY DEF ACodeWinsOnce
  <2>1. challenges[c].attempts \in 0..MaxTries /\ Counted(c)
    BY DEF IInv, TypeOK, ChallengeRow, Parts
  <2> QED  BY <2>1, Limits DEF Counted
<1> QED  BY <1>1, Always, PTL

\* A request sent again under its identifier, at once or later, has one effect.
THEOREM RetriesCountOnce == Spec => []RequestsAreDoneOnce
<1>1. IInv => RequestsAreDoneOnce
  BY DEF IInv
<1> QED  BY <1>1, Always, PTL

\* A deleted account returns only with a code sent while it was being deleted: the reset,
\* which saves an account it read without a lock, otherwise holds a code that
\* deleteAccount would have to delete first.
THEOREM DeletedAccountsStayDeleted == Spec => DeletedStaysDeleted
<1> DEFINE Late == \E c \in meanwhile :
                      challenges[c].action # "done" /\ challenges'[c].action = "done"
<1>1. IInv /\ [Next]_vars =>
        [account'.id # account.id /\ account'.id # 0 => account'.id > accounts \/ Late]_vars
  <2> SUFFICES ASSUME IInv, Next, account'.id # account.id, account'.id # 0
               PROVE  account'.id > accounts \/ Late
    OBVIOUS
  <2>1. account' # account
    OBVIOUS
  <2>2. \/ \E k \in Callers : LoginRight(k) \/ CommitReset(k) \/ CommitDelete(k)
        \/ \E c \in Challenges : CompleteRegistration(c)
    BY <2>1 DEF Next, Abort, ReplaceChallenges, CommitChallenge, LoginWrong, PasswordLogin,
       CommitPasswordLogin, FindAccount, DeleteAccount, LockAccount, DeleteChallenges, CommitCheck,
       CommitReport, CommitSupport, CommitHandle, RequestChallenge, Login, ResetPassword, Report,
       HandleConcern, Check, ContactSupport, Submit, Insert, Begin, Age, ActionExpires,
       VerifyAction, Logout, rows
  <2>3. ASSUME NEW k \in Callers, CommitDelete(k) PROVE FALSE
    BY <2>3, Empty DEF CommitDelete
  <2>4. ASSUME NEW k \in Callers, CommitReset(k) PROVE Late
    <3>1. /\ calls[k].c \in Challenges /\ calls[k].c \in meanwhile
          /\ challenges[calls[k].c].action # "done"
      BY <2>4, ResetSaves
    <3>2. challenges'[calls[k].c].action = "done"
      BY <2>4, <3>1 DEF CommitReset, IInv, TypeOK, ChallengeRow
    <3> QED  BY <3>1, <3>2
  <2>5. ASSUME NEW k \in Callers, LoginRight(k) PROVE NewAccount(0)
    BY <2>1, <2>5 DEF LoginRight
  <2>6. ASSUME NEW c \in Challenges, CompleteRegistration(c) PROVE NewAccount(1)
    BY <2>6 DEF CompleteRegistration
  <2>7. CASE NewAccount(0) \/ NewAccount(1)
    BY <2>7 DEF NewAccount, IInv, TypeOK
  <2> QED  BY <2>2, <2>3, <2>4, <2>5, <2>6, <2>7
<1> QED  BY <1>1, Always, PTL DEF Spec, DeletedStaysDeleted
=============================================================================
