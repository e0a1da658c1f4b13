------------------------------ MODULE Shoppers ------------------------------
(***************************************************************************)
(* The shoppers of one e-mail address (src/customer): the codes mailed to  *)
(* it (shopper_challenges), the account and its sessions, and what a       *)
(* shopper or a guest leaves behind under a request identifier of his      *)
(* own: a check of a code, a concern about it, a message to the support.   *)
(*                                                                         *)
(* A call is as many steps as it has reads that another call may overtake; *)
(* a row read FOR UPDATE stays locked until the call's last step, and a    *)
(* statement that needs a locked row waits.  Left out: guests' other       *)
(* addresses, the texts and attachments of messages, what the check        *)
(* answers (module Scans).                                                 *)
(***************************************************************************)
EXTENDS Naturals, FiniteSets

CONSTANTS
    Callers,         \* calls in flight
    Tokens,          \* tokens of shopper_sessions
    RequestIds,      \* identifiers made by clients
    MaxTries,        \* guesses of a code: 5
    MaxPerHour,      \* codes mailed to one address in an hour: 5
    MaxChallenges,   \* bound: rows of shopper_challenges ever made
    MaxAccounts,     \* bound: rows of shoppers ever made
    MaxPassword      \* bound: passwords set for one account

ASSUME ShoppersAssumption ==
    /\ {MaxTries, MaxPerHour, MaxChallenges, MaxAccounts, MaxPassword} \subseteq Nat \ {0}
    /\ RequestIds # {}

Purposes == {"login", "registration", "password_reset"}
\* Since the code was made: less than 30 seconds, 30 minutes, 1 hour, or more.
Ages == {"new", "valid", "expired", "old"}
Younger(age) == CASE age = "new" -> {} [] age = "valid" -> {"new"}
                  [] age = "expired" -> {"new", "valid"}
                  [] OTHER -> {"new", "valid", "expired"}
Challenges == 1..MaxChallenges
\* action: the action token is not issued, can be used, is too old, or was used.
ChallengeRow == [purpose: Purposes \cup {"gone"}, attempts: 0..MaxTries,
                 consumed: BOOLEAN, age: Ages, action: {"none", "open", "late", "done"}]
\* The row is not there, before it is made as after the account is deleted.
NoChallenge == [purpose |-> "gone", attempts |-> 0, consumed |-> FALSE,
                age |-> "new", action |-> "none"]

Ids == 1..MaxAccounts
\* id 0: no account; password 0: none was ever set.
AccountRow == [id: {0} \cup Ids, password: 0..MaxPassword]
NoAccount == [id |-> 0, password |-> 0]
SessionRow == AccountRow
NoSession == NoAccount
CheckRow == [stored: BOOLEAN, owner: {0} \cup Ids]

VARIABLES
    challenges,  \* challenges[c], in the order of their transactions
    made,        \* the number of transactions that made one
    account,     \* the row of shoppers with this e-mail
    accounts,    \* the number of accounts made, and so the identifier of the last
    sessions,    \* sessions[t], with the password it was opened with, 0 for a code
    checks,      \* checks[r], whose owner 0 is a NULL shopperId
    concerns,    \* concerns[r], about the check r
    support,     \* support[r]: the message is stored
    calls,       \* calls[k]: what a call has read and holds
    tries,       \* history, tries[c]: guesses compared with the code c while it exists
    wins,        \* history, wins[c]: guesses accepted
    done,        \* history, done[kind][r]: scans counted, concerns filed, mails sent
    meanwhile    \* history: codes sent after a deletion under way had deleted the codes

rows == <<challenges, made, account, accounts, sessions, meanwhile>>
records == <<checks, concerns, support, done>>
vars == <<rows, records, calls, tries, wins>>

Kinds == {"check", "concern", "support"}
Ops == {"idle", "challenge", "replacing", "login", "password", "reset", "updating",
        "inserting", "delete", "deleting", "erasing", "handle"} \cup Kinds
\* purpose, challenge, account and password it read, request identifier, and the rows
\* of challenges it holds locked.
CallRow == [op: Ops, purpose: Purposes, c: {0} \cup Challenges, id: {0} \cup Ids,
            password: 0..MaxPassword, r: RequestIds, held: SUBSET Challenges]
Idle == [op |-> "idle", purpose |-> "login", c |-> 0, id |-> 0, password |-> 0,
         r |-> CHOOSE r \in RequestIds : TRUE, held |-> {}]

Init ==
    /\ challenges = [c \in Challenges |-> NoChallenge]
    /\ made = 0
    /\ account = NoAccount
    /\ accounts = 0
    /\ sessions = [t \in Tokens |-> NoSession]
    /\ checks = [r \in RequestIds |-> [stored |-> FALSE, owner |-> 0]]
    /\ concerns = [r \in RequestIds |-> "none"]
    /\ support = [r \in RequestIds |-> FALSE]
    /\ calls = [k \in Callers |-> Idle]
    /\ tries = [c \in Challenges |-> 0]
    /\ wins = [c \in Challenges |-> 0]
    /\ done = [kind \in Kinds |-> [r \in RequestIds |-> 0]]
    /\ meanwhile = {}

Begin(k, call) ==
    /\ calls[k] = Idle
    /\ calls' = [calls EXCEPT ![k] = call]
    /\ UNCHANGED <<rows, records, tries, wins>>

End(k) == calls' = [calls EXCEPT ![k] = Idle]

\* The process stops, the caller gives up, or PostgreSQL breaks a deadlock: a
\* transaction is rolled back.
Abort(k) ==
    /\ calls[k] # Idle
    /\ End(k)
    /\ UNCHANGED <<rows, records, tries, wins>>

\* Mutant of RowFree: challenges are read without a lock.
RowUnlocked(c) == TRUE

\* No transaction holds the row of the challenge c.
RowFree(c) == \A k \in Callers : c \notin calls[k].held

\* No transaction holds the row of the account.
AccountFree == \A k \in Callers : calls[k].op \notin {"deleting", "erasing"}

-----------------------------------------------------------------------------
(* Codes.                                                                  *)

\* A challenge is as old as those made before it, or younger: the transaction that
\* makes one is over within the 30 seconds.
Age(c) ==
    /\ challenges[c].purpose # "gone"
    /\ \A k \in Callers : calls[k].op = "replacing" => calls[k].c > c
    /\ \E age \in Ages \ {"new"} :
          /\ challenges[c].age \in Younger(age)
          /\ \A d \in 1..(c - 1) :
                challenges[d].purpose = "gone" \/ challenges[d].age \notin Younger(age)
          /\ challenges' = [challenges EXCEPT ![c].age = age]
    /\ UNCHANGED <<made, account, accounts, sessions, meanwhile, records, calls, tries, wins>>

\* The ten minutes of an action token end.
ActionExpires(c) ==
    /\ challenges[c].action = "open"
    /\ challenges' = [challenges EXCEPT ![c].action = "late"]
    /\ UNCHANGED <<made, account, accounts, sessions, meanwhile, records, calls, tries, wins>>

Mailed == {c \in Challenges : challenges[c].purpose # "gone"}
ForPurpose(purpose) == {c \in Mailed : challenges[c].purpose = purpose}

\* requestLogin, requestRegistration and requestPasswordReset up to the transaction.
RequestChallenge(k, purpose) ==
    /\ purpose = "registration" => account = NoAccount
    /\ \A c \in ForPurpose(purpose) : challenges[c].age # "new"
    /\ Cardinality({c \in Mailed : challenges[c].age # "old"}) < MaxPerHour
    /\ Begin(k, [Idle EXCEPT !.op = "challenge", !.purpose = purpose])

\* The UPDATE of its transaction ends the codes it finds, and waits for those locked.
ReplaceChallenges(k) ==
    LET live == {c \in ForPurpose(calls[k].purpose) : ~challenges[c].consumed} IN
    /\ calls[k].op = "challenge" /\ made < MaxChallenges
    /\ \A c \in live : RowFree(c)
    /\ made' = made + 1
    /\ calls' = [calls EXCEPT ![k].op = "replacing", ![k].c = made + 1, ![k].held = live]
    /\ UNCHANGED <<challenges, account, accounts, sessions, meanwhile, records, tries, wins>>

\* The insert and the commit: a request whose UPDATE came first leaves the new code open.
CommitChallenge(k) ==
    LET call == calls[k] IN
    /\ call.op = "replacing"
    /\ challenges' = [c \in Challenges |->
          IF c = call.c THEN [NoChallenge EXCEPT !.purpose = call.purpose]
          ELSE IF c \in call.held THEN [challenges[c] EXCEPT !.consumed = TRUE]
          ELSE challenges[c]]
    /\ meanwhile' = IF \E j \in Callers : calls[j].op = "erasing"
                    THEN meanwhile \cup {call.c} ELSE meanwhile
    /\ End(k)
    /\ UNCHANGED <<made, account, accounts, sessions, records, tries, wins>>

\* A code can be tried: not used or replaced, not expired, not tried too often.
Guessable(c, purpose) ==
    /\ challenges[c].purpose = purpose /\ ~challenges[c].consumed
    /\ challenges[c].age \in {"new", "valid"} /\ challenges[c].attempts < MaxTries
    /\ RowFree(c)

\* The row once a guess was compared with the code.
Guessed(row, right, action) ==
    [row EXCEPT !.attempts = @ + 1, !.consumed = right, !.action = action]
Count(c, right) ==
    /\ tries' = [tries EXCEPT ![c] = @ + 1]
    /\ wins' = [wins EXCEPT ![c] = @ + (IF right THEN 1 ELSE 0)]

\* verifyRegistration and verifyPasswordReset: a right guess issues an action token.
VerifyAction(c, purpose, right) ==
    /\ purpose # "login" /\ Guessable(c, purpose)
    /\ challenges' = [challenges EXCEPT ![c] = Guessed(@, right, IF right THEN "open" ELSE "none")]
    /\ Count(c, right)
    /\ UNCHANGED <<made, account, accounts, sessions, meanwhile, records, calls>>

-----------------------------------------------------------------------------
(* Accounts and sessions.                                                  *)

IssueSession(row) ==
    \E t \in Tokens : sessions[t] = NoSession /\ sessions' = [sessions EXCEPT ![t] = row]

NewAccount(password) ==
    /\ accounts < MaxAccounts
    /\ accounts' = accounts + 1
    /\ account' = [id |-> accounts + 1, password |-> password]

\* login locks the challenge while it compares the guess.
Login(k, c) ==
    /\ Guessable(c, "login")
    /\ Begin(k, [Idle EXCEPT !.op = "login", !.c = c, !.held = {c}])

\* The failed attempt is committed; the error is raised afterwards.
LoginWrong(k) ==
    LET c == calls[k].c IN
    /\ calls[k].op = "login"
    /\ challenges' = [challenges EXCEPT ![c] = Guessed(@, FALSE, "none")]
    /\ Count(c, FALSE)
    /\ End(k)
    /\ UNCHANGED <<made, account, accounts, sessions, meanwhile, records>>

\* The upsert by e-mail takes the account there is, once it is not locked.
LoginRight(k) ==
    LET c == calls[k].c IN
    /\ calls[k].op = "login" /\ AccountFree
    /\ challenges' = [challenges EXCEPT ![c] = Guessed(@, TRUE, "none")]
    /\ IF account = NoAccount THEN NewAccount(0) ELSE UNCHANGED <<account, accounts>>
    /\ IssueSession([id |-> account'.id, password |-> 0])
    /\ Count(c, TRUE)
    /\ End(k)
    /\ UNCHANGED <<made, meanwhile, records>>

\* Where an account has appeared since, completeRegistration throws.
CompleteRegistration(c) ==
    /\ challenges[c].purpose = "registration" /\ challenges[c].action = "open"
    /\ RowFree(c) /\ account = NoAccount
    /\ NewAccount(1)
    /\ challenges' = [challenges EXCEPT ![c].action = "done"]
    /\ IssueSession([id |-> account'.id, password |-> 1])
    /\ UNCHANGED <<made, meanwhile, records, calls, tries, wins>>

\* passwordLogin compares the password with the row it read.
PasswordLogin(k) ==
    /\ account.password # 0
    /\ Begin(k, [Idle EXCEPT !.op = "password", !.id = account.id,
                    !.password = account.password])

\* The foreign key waits for a deletion under way, and fails after it.
CommitPasswordLogin(k) ==
    /\ calls[k].op = "password" /\ AccountFree
    /\ IF account.id = calls[k].id
       THEN IssueSession([id |-> calls[k].id, password |-> calls[k].password])
       ELSE UNCHANGED sessions
    /\ End(k)
    /\ UNCHANGED <<challenges, made, account, accounts, meanwhile, records, tries, wins>>

\* completePasswordReset locks the challenge and reads the account without a lock.
ResetPassword(k, c) ==
    /\ challenges[c].purpose = "password_reset" /\ challenges[c].action = "open"
    /\ RowFree(c) /\ account # NoAccount
    /\ Begin(k, [Idle EXCEPT !.op = "reset", !.c = c, !.id = account.id,
                    !.password = account.password, !.held = {c}])

\* The SELECT of save, which does not wait, finds that account or not.
FindAccount(k) ==
    /\ calls[k].op = "reset"
    /\ calls' = [calls EXCEPT ![k].op = IF account.id = calls[k].id THEN "updating" ELSE "inserting"]
    /\ UNCHANGED <<rows, records, tries, wins>>

\* Its UPDATE waits for a deletion under way, and then updates no row; its INSERT of
\* the account that was gone fails where another one took its place.
SaveAccount(call) ==
    \/ call.op = "updating" /\ account.id = call.id
       /\ account' = [account EXCEPT !.password = call.password + 1]
    \/ call.op = "updating" /\ account.id # call.id /\ UNCHANGED account
    \/ call.op = "inserting" /\ account = NoAccount
       /\ account' = [id |-> call.id, password |-> call.password + 1]

\* And the sessions end, the challenge is used up, and the transaction commits.
CommitReset(k) ==
    LET call == calls[k] IN
    /\ call.op \in {"updating", "inserting"} /\ AccountFree /\ call.password < MaxPassword
    /\ SaveAccount(call)
    /\ sessions' = [t \in Tokens |->
          IF sessions[t].id = call.id THEN NoSession ELSE sessions[t]]
    /\ challenges' = [challenges EXCEPT ![call.c].action = "done"]
    /\ End(k)
    /\ UNCHANGED <<made, accounts, meanwhile, records, tries, wins>>

Logout(t) ==
    /\ sessions[t] # NoSession
    /\ sessions' = [sessions EXCEPT ![t] = NoSession]
    /\ UNCHANGED <<challenges, made, account, accounts, meanwhile, records, calls, tries, wins>>

\* shopper(header): the account of a session.
SignedIn(id) == account.id = id /\ \E t \in Tokens : sessions[t].id = id

\* deleteAccount: the session, then the locked account and its password.  A wrong
\* password is only written to the audit log.
DeleteAccount(k) ==
    /\ account # NoAccount /\ SignedIn(account.id)
    /\ Begin(k, [Idle EXCEPT !.op = "delete", !.id = account.id])

LockAccount(k) ==
    /\ calls[k].op = "delete" /\ AccountFree
    /\ account.id = calls[k].id /\ account.password # 0
    /\ calls' = [calls EXCEPT ![k].op = "deleting"]
    /\ UNCHANGED <<rows, records, tries, wins>>

\* Mutant of DeletedChallenges: only the codes that can still be guessed go.
LiveChallenges == {c \in Mailed : ~challenges[c].consumed}

\* The challenges deleted with the account.
DeletedChallenges == Mailed

\* The DELETE of the challenges waits for those locked, which may wait for the account
\* in turn, and holds the rows it found.  Concerns and checks were changed before it.
DeleteChallenges(k) ==
    /\ calls[k].op = "deleting"
    /\ \A c \in DeletedChallenges : RowFree(c)
    /\ calls' = [calls EXCEPT ![k].op = "erasing", ![k].held = DeletedChallenges]
    /\ UNCHANGED <<rows, records, tries, wins>>

\* The sessions and the account go, and the transaction commits; until then the account
\* and the challenges can still be read.
CommitDelete(k) ==
    LET id == calls[k].id
        gone == calls[k].held
        owned == {r \in RequestIds : checks[r].owner = id}
    IN
    /\ calls[k].op = "erasing"
    /\ challenges' = [c \in Challenges |-> IF c \in gone THEN NoChallenge ELSE challenges[c]]
    /\ sessions' = [t \in Tokens |-> IF sessions[t].id = id THEN NoSession ELSE sessions[t]]
    /\ account' = NoAccount
    /\ concerns' = [r \in RequestIds |->
          IF r \in owned /\ concerns[r] # "none" THEN "erased" ELSE concerns[r]]
    /\ checks' = [r \in RequestIds |-> IF r \in owned THEN [checks[r] EXCEPT !.owner = 0] ELSE checks[r]]
    /\ tries' = [c \in Challenges |-> IF c \in gone THEN 0 ELSE tries[c]]
    /\ wins' = [c \in Challenges |-> IF c \in gone THEN 0 ELSE wins[c]]
    /\ End(k)
    /\ UNCHANGED <<made, accounts, meanwhile, support, done>>

-----------------------------------------------------------------------------
(* Requests with an identifier: check, report and contactSupport.          *)

Stored(kind, r) ==
    CASE kind = "check" -> checks[r].stored
      [] kind = "concern" -> concerns[r] \in {"new", "handled"}
      [] kind = "support" -> support[r]

\* A call for which nothing is stored under its identifier yet.  id 0: a guest.  A
\* row found is answered from, or refused, without a change.
Submit(k, kind, r, id) ==
    /\ ~Stored(kind, r)
    /\ id # 0 => SignedIn(id)
    /\ Begin(k, [Idle EXCEPT !.op = kind, !.r = r, !.id = id])

Check(k, r, id) == Submit(k, "check", r, id)
\* Anybody who has the receipt of a check may report a concern.
Report(k, r) == checks[r].stored /\ Submit(k, "concern", r, 0)
ContactSupport(k, r, id) == Submit(k, "support", r, id)

\* Mutant of Insertable: the unique index on the identifier is gone.
InsertableTwice(kind, r) == TRUE

\* The unique index on the identifier.
Insertable(kind, r) == ~Stored(kind, r)

\* The insert and what goes with it.  A call that comes second answers from the row
\* of the first, or fails: nothing changes.
Insert(k, kind) ==
    LET r == calls[k].r IN
    /\ calls[k].op = kind
    /\ done' = IF Insertable(kind, r) THEN [done EXCEPT ![kind][r] = @ + 1] ELSE done
    /\ End(k)
    /\ UNCHANGED <<rows, tries, wins>>

\* The check is inserted before its scan is counted in the same transaction.  The
\* foreign key waits for a deletion of the account, and fails after it.
CommitCheck(k) ==
    LET r == calls[k].r
        id == calls[k].id
    IN
    /\ id # 0 => AccountFree /\ account.id = id
    /\ Insert(k, "check")
    /\ checks' = IF Insertable("check", r)
                 THEN [checks EXCEPT ![r] = [stored |-> TRUE, owner |-> id]]
                 ELSE checks
    /\ UNCHANGED <<concerns, support>>

CommitReport(k) ==
    LET r == calls[k].r IN
    /\ Insert(k, "concern")
    /\ concerns' = IF Insertable("concern", r) THEN [concerns EXCEPT ![r] = "new"] ELSE concerns
    /\ UNCHANGED <<checks, support>>

\* The message, its mails to the administrators and the receipt.  Where there is no
\* active administrator the transaction is rolled back.
CommitSupport(k) ==
    LET r == calls[k].r IN
    /\ Insert(k, "support")
    /\ support' = [support EXCEPT ![r] = TRUE]
    /\ UNCHANGED <<checks, concerns>>

\* The vendor's update of a concern reads the row ...
HandleConcern(k, r) ==
    /\ Stored("concern", r)
    /\ Begin(k, [Idle EXCEPT !.op = "handle", !.r = r])

\* ... and saves it whole: an insert when it is gone.
CommitHandle(k) ==
    /\ calls[k].op = "handle"
    /\ concerns' = [concerns EXCEPT ![calls[k].r] = "handled"]
    /\ End(k)
    /\ UNCHANGED <<rows, checks, support, done, tries, wins>>

-----------------------------------------------------------------------------
Next ==
    \/ \E k \in Callers :
          \/ Abort(k) \/ ReplaceChallenges(k) \/ CommitChallenge(k)
          \/ LoginWrong(k) \/ LoginRight(k)
          \/ PasswordLogin(k) \/ CommitPasswordLogin(k) \/ FindAccount(k) \/ CommitReset(k)
          \/ DeleteAccount(k) \/ LockAccount(k) \/ DeleteChallenges(k) \/ CommitDelete(k)
          \/ CommitCheck(k) \/ CommitReport(k) \/ CommitSupport(k) \/ CommitHandle(k)
          \/ \E purpose \in Purposes : RequestChallenge(k, purpose)
          \/ \E c \in Challenges : Login(k, c) \/ ResetPassword(k, c)
          \/ \E r \in RequestIds :
                \/ Report(k, r) \/ HandleConcern(k, r)
                \/ \E id \in {0} \cup Ids : Check(k, r, id) \/ ContactSupport(k, r, id)
    \/ \E c \in Challenges :
          \/ Age(c) \/ ActionExpires(c) \/ CompleteRegistration(c)
          \/ \E purpose \in Purposes, right \in BOOLEAN : VerifyAction(c, purpose, right)
    \/ \E t \in Tokens : Logout(t)

Spec == Init /\ [][Next]_vars

-----------------------------------------------------------------------------
\* Every variable keeps its type; a guess is counted before its answer is given.
TypeOK ==
    /\ challenges \in [Challenges -> ChallengeRow]
    /\ made \in 0..MaxChallenges
    /\ account \in AccountRow /\ accounts \in 0..MaxAccounts
    /\ sessions \in [Tokens -> SessionRow]
    /\ checks \in [RequestIds -> CheckRow]
    /\ concerns \in [RequestIds -> {"none", "new", "handled", "erased"}]
    /\ support \in [RequestIds -> BOOLEAN]
    /\ calls \in [Callers -> CallRow]
    /\ tries \in [Challenges -> Nat] /\ wins \in [Challenges -> Nat]
    /\ done \in [Kinds -> [RequestIds -> Nat]]
    /\ meanwhile \subseteq Challenges

\* A mailed code opens at most one session or yields one action token, however many
\* guesses of it arrive together, and no more than MaxTries guesses are compared
\* with it (login and verifyAction lock the challenge).
ACodeWinsOnce == \A c \in Challenges : wins[c] <= 1 /\ tries[c] <= MaxTries

\* A deleted account returns at most with a code mailed while it was being deleted: an
\* account that appears has an identifier of its own, unless a password was reset with
\* a code sent after the DELETE of the codes and before the deletion's commit.
\* completePasswordReset saves an account it read without a lock, and for every code
\* mailed earlier the delete of the locked challenge keeps deleteAccount from overtaking
\* it.
DeletedStaysDeleted ==
    [][account'.id # account.id /\ account'.id # 0 =>
          \/ account'.id > accounts
          \/ \E c \in meanwhile : challenges[c].action # "done" /\ challenges'[c].action = "done"]_vars

\* A client that sends a request again, in parallel or after a lost answer, does not
\* count a second scan or send a second set of mails: there is one effect for the row
\* stored under the identifier, and none without it.  And a concern nobody has handled
\* yet is about a check that was counted.
RequestsAreDoneOnce ==
    \A r \in RequestIds :
       /\ done["check"][r] = (IF checks[r].stored THEN 1 ELSE 0)
       /\ done["support"][r] = (IF support[r] THEN 1 ELSE 0)
       /\ concerns[r] = "new" => done["check"][r] = 1
=============================================================================
