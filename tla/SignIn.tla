-------------------------------- MODULE SignIn --------------------------------
(***************************************************************************)
(* How the vendor of one e-mail address gets the sessions of Sessions: the *)
(* one-time code and the registration, the password with or without a      *)
(* second factor, and the code that resets the password                    *)
(* (src/auth/auth.service.ts, src/governance/governance.service.ts).       *)
(*                                                                         *)
(* The codes of the three tables are one sequence, in the order of their   *)
(* createdAt, which is the start of the transaction that sends them.  A    *)
(* code is sent in two steps: the UPDATE that replaces the open codes, and *)
(* the commit.  verifyOtp takes no lock and is three steps: it reads the   *)
(* row, save finds the columns that differ, and save writes them.  A       *)
(* reset and a second factor are checked under a lock on their row; the    *)
(* count of a wrong code of a second factor is saved in the transaction    *)
(* that the exception of the wrong code rolls back.  A code that expires,  *)
(* and an answer that names no open code, are refused and change nothing   *)
(* but the audit log: they are no steps.                                   *)
(***************************************************************************)
EXTENDS Sessions, Sequences

CONSTANTS
    Verifiers,  \* concurrent requests that check a code or change a factor
    MaxTries,   \* otp.maxAttempts and PASSWORD_RESET_MAX_ATTEMPTS
    MaxCodes,   \* bound of the number of codes sent
    MaxFactors, \* bound of the number of second factors enrolled
    MaxGuesses  \* bound of the wrong codes answered for one MFA challenge

ASSUME SignInAssumption ==
    /\ MaxTries \in Nat \ {0} /\ MaxCodes \in Nat /\ MaxFactors \in Nat
    /\ MaxGuesses \in Nat

VARIABLES
    account,  \* the users row with this address exists
    factors,  \* the status of each row of user_mfa_factors, in order of creation
    edit,     \* edit[v]: what a request of the settings will write to factors
    code,     \* the rows of the three tables of challenges
    work,     \* work[v]: what a request that checks a code holds
    proved,   \* the client holds a registration proof
    wins,     \* history: wins[c], how often code c was accepted
    wrong,    \* history: wrong[c], how often another one was answered for it
    crossed   \* history: codes checked while they were checked or replaced

challenges == <<code, work, proved, wins, wrong, crossed>>
second == <<factors, edit>>
signInVars == <<vars, account, second, challenges>>

Code == [kind: {"otp", "reset", "mfa"}, state: {"sending", "open", "consumed", "undone"},
         attempts: 0..MaxTries, replaces: SUBSET (1..MaxCodes)]
NoWork == [stage |-> "idle", code |-> 0, state |-> "open", attempts |-> 0, diff |-> {}, factor |-> 0]

NoEdit == [row |-> 0, status |-> "none"]

Open(kind) == {c \in DOMAIN code : code[c].kind = kind /\ code[c].state = "open"}
IsNewest(c, S) == c \in S /\ \A d \in S : d <= c
Checking(c) == {v \in Verifiers : work[v].code = c}
Replacing(c) == {d \in DOMAIN code : code[d].state = "sending" /\ c \in code[d].replaces}

SignInInit ==
    /\ Init
    /\ account = FALSE
    /\ factors = <<>>
    /\ edit = [v \in Verifiers |-> NoEdit]
    /\ code = <<>>
    /\ work = [v \in Verifiers |-> NoWork]
    /\ proved = FALSE
    /\ wins = [c \in 1..MaxCodes |-> 0]
    /\ wrong = [c \in 1..MaxCodes |-> 0]
    /\ crossed = {}

-----------------------------------------------------------------------------
(* Sending a code.                                                         *)

\* Mutant of Replaced: the open codes are left as they are.
NotReplaced(c) == {}

\* The codes that the commit of c consumes: those its UPDATE found open.
Replaced(c) == code[c].replaces

\* The transaction of requestOtp (which identifyLogin runs too) or forgotPassword
\* starts, and its UPDATE finds the open codes.
SendBegin(kind) ==
    /\ kind = "otp" => ~account
    /\ kind = "reset" => account /\ active
    /\ Len(code) < MaxCodes
    /\ code' = Append(code, [kind |-> kind, state |-> "sending", attempts |-> 0,
                             replaces |-> Open(kind)])
    /\ crossed' = crossed \cup {c \in Open(kind) : Checking(c) # {}}
    /\ UNCHANGED <<vars, account, second, work, proved, wins, wrong>>

SendCommit(c) ==
    /\ code[c].state = "sending"
    /\ code' = [d \in DOMAIN code |->
           CASE d = c -> [code[d] EXCEPT !.state = "open"]
             [] d \in Replaced(c) -> [code[d] EXCEPT !.state = "consumed"]
             [] OTHER -> code[d]]
    /\ UNCHANGED <<vars, account, second, work, proved, wins, wrong, crossed>>

\* The e-mail cannot be queued, or the process stops.
SendAbort(c) ==
    /\ code[c].state = "sending"
    /\ code' = [code EXCEPT ![c].state = "undone", ![c].replaces = {}]
    /\ UNCHANGED <<vars, account, second, work, proved, wins, wrong, crossed>>

-----------------------------------------------------------------------------
(* verifyOtp and register.                                                 *)

Triable(c, kind) == c \in Open(kind) /\ code[c].attempts < MaxTries

VerifyRead(v, c, right) ==
    /\ work[v] = NoWork
    /\ Triable(c, "otp")
    /\ work' = [work EXCEPT ![v] =
           [NoWork EXCEPT !.stage = "save", !.code = c, !.attempts = code[c].attempts + 1,
                          !.state = IF right THEN "consumed" ELSE "open"]]
    /\ crossed' = IF Checking(c) \cup Replacing(c) # {} THEN crossed \cup {c} ELSE crossed
    /\ UNCHANGED <<vars, account, second, code, proved, wins, wrong>>

\* The SELECT of save.
VerifyDiff(v) ==
    /\ work[v].stage = "save"
    /\ work' = [work EXCEPT ![v].stage = "update", ![v].diff =
           {f \in {"attempts", "state"} : work[v][f] # code[work[v].code][f]}]
    /\ UNCHANGED <<vars, account, second, code, proved, wins, wrong, crossed>>

\* The UPDATE of save, and the answer.
VerifyUpdate(v) ==
    LET c == work[v].code
        right == work[v].state = "consumed"
    IN
    /\ work[v].stage = "update"
    /\ code' = [code EXCEPT
           ![c].attempts = IF "attempts" \in work[v].diff THEN work[v].attempts ELSE @,
           ![c].state = IF "state" \in work[v].diff THEN work[v].state ELSE @]
    /\ proved' = (proved \/ right)
    /\ wins' = IF right THEN [wins EXCEPT ![c] = @ + 1] ELSE wins
    /\ wrong' = IF right THEN wrong ELSE [wrong EXCEPT ![c] = @ + 1]
    /\ work' = [work EXCEPT ![v] = NoWork]
    /\ UNCHANGED <<vars, account, second, crossed>>

\* The request fails before its UPDATE or its commit.
CheckAbort(v) ==
    /\ work[v] # NoWork
    /\ work' = [work EXCEPT ![v] = NoWork]
    /\ UNCHANGED <<vars, account, second, code, proved, wins, wrong, crossed>>

\* register inserts the user, whose e-mail is unique, and goes on to issueTokens.
Register(q) ==
    /\ proved /\ ~account
    /\ account' = TRUE
    /\ LoginRead(q)
    /\ UNCHANGED <<second, challenges>>

-----------------------------------------------------------------------------
(* login, resetPassword and the second factor.                             *)

ActiveFactors == {f \in DOMAIN factors : factors[f] = "active"}

LoginPassword(q) ==
    /\ account /\ ActiveFactors = {}
    /\ LoginRead(q)
    /\ UNCHANGED <<account, second, challenges>>

\* beginLoginMfa: the password was right, and the client gets a challenge.
LoginMfa ==
    /\ account /\ active /\ ActiveFactors # {}
    /\ Len(code) < MaxCodes
    /\ code' = Append(code, [kind |-> "mfa", state |-> "open", attempts |-> 0, replaces |-> {}])
    /\ UNCHANGED <<vars, account, second, work, proved, wins, wrong, crossed>>

\* completeLoginMfa locks the challenge and reads the newest factor.
MfaRead(v, c, f) ==
    /\ work[v] = NoWork
    /\ Triable(c, "mfa") /\ Checking(c) = {}
    /\ IsNewest(f, ActiveFactors)
    /\ work' = [work EXCEPT ![v] = [NoWork EXCEPT !.stage = "mfa", !.code = c, !.factor = f]]
    /\ UNCHANGED <<vars, account, second, code, proved, wins, wrong, crossed>>

\* The code is wrong: the attempt is counted and saved, and the exception that follows
\* rolls the count back with the rest of the transaction, so the challenge stays as it was.
MfaWrong(v) ==
    /\ work[v].stage = "mfa" /\ wrong[work[v].code] < MaxGuesses
    /\ wrong' = [wrong EXCEPT ![work[v].code] = @ + 1]
    /\ work' = [work EXCEPT ![v] = NoWork]
    /\ UNCHANGED <<vars, account, second, code, proved, wins, crossed>>

\* The code is right: it saves both rows, the factor with the status it was read with, and
\* verifyLoginMfa signs the user in, unless the account is inactive or its vendor is
\* not approved yet (here it asks for isActive, where login does not).
MfaCommit(v, q) ==
    LET c == work[v].code IN
    /\ work[v].stage = "mfa"
    /\ code' = [code EXCEPT ![c].state = "consumed", ![c].attempts = @ + 1]
    /\ factors' = [factors EXCEPT ![work[v].factor] = "active"]
    /\ wins' = [wins EXCEPT ![c] = @ + 1]
    /\ work' = [work EXCEPT ![v] = NoWork]
    /\ LoginRead(q) \/ UNCHANGED vars
    /\ UNCHANGED <<account, edit, proved, wrong, crossed>>

\* resetPassword with a wrong code for the newest open one, under its lock.
ResetWrong(c) ==
    /\ IsNewest(c, Open("reset")) /\ Triable(c, "reset")
    /\ code' = [code EXCEPT ![c].attempts = @ + 1]
    /\ wrong' = [wrong EXCEPT ![c] = @ + 1]
    /\ UNCHANGED <<vars, account, second, work, proved, wins, crossed>>

\* And with the right one: every open code of the user goes with it.
ResetRight(c) ==
    /\ IsNewest(c, Open("reset")) /\ Triable(c, "reset")
    /\ ResetPassword
    /\ code' = [d \in DOMAIN code |->
           IF d \in Open("reset")
           THEN [code[d] EXCEPT !.state = "consumed", !.attempts = IF d = c THEN @ + 1 ELSE @]
           ELSE code[d]]
    /\ wins' = [wins EXCEPT ![c] = @ + 1]
    /\ UNCHANGED <<account, second, work, proved, wrong, crossed>>

\* beginMfa supersedes the pending rows, and inserts its own in another statement.
BeginMfa(v) ==
    /\ SignedIn # {} /\ edit[v] = NoEdit
    /\ factors' = [f \in DOMAIN factors |->
                      IF factors[f] = "pending" THEN "superseded" ELSE factors[f]]
    /\ edit' = [edit EXCEPT ![v].status = "pending"]
    /\ UNCHANGED <<vars, account, challenges>>

\* The newest row of one status is read without a lock, to be saved with another.
FactorRead(v, from, to) ==
    /\ SignedIn # {} /\ edit[v] = NoEdit
    /\ \E f \in DOMAIN factors :
        /\ IsNewest(f, {g \in DOMAIN factors : factors[g] = from})
        /\ edit' = [edit EXCEPT ![v] = [row |-> f, status |-> to]]
    /\ UNCHANGED <<vars, account, factors, challenges>>

\* verifyMfa, which saves the row of a wrong code too, and disableMfa.
VerifyMfa(v, right) == FactorRead(v, "pending", IF right THEN "active" ELSE "pending")
DisableMfa(v) == FactorRead(v, "active", "disabled")

FactorSave(v) ==
    /\ edit[v] # NoEdit
    /\ \/ edit[v].row = 0 /\ Len(factors) < MaxFactors /\ factors' = Append(factors, edit[v].status)
       \/ edit[v].row # 0 /\ factors' = [factors EXCEPT ![edit[v].row] = edit[v].status]
    /\ edit' = [edit EXCEPT ![v] = NoEdit]
    /\ UNCHANGED <<vars, account, challenges>>

FactorAbort(v) ==
    /\ edit[v] # NoEdit
    /\ edit' = [edit EXCEPT ![v] = NoEdit]
    /\ UNCHANGED <<vars, account, factors, challenges>>

-----------------------------------------------------------------------------
SignInNext ==
    \/ SessionStep /\ UNCHANGED <<account, second, challenges>>
    \/ account /\ SetActive /\ UNCHANGED <<account, second, challenges>>
    \/ \E kind \in {"otp", "reset"} : SendBegin(kind)
    \/ \E c \in DOMAIN code :
        \/ SendCommit(c)
        \/ SendAbort(c)
        \/ ResetWrong(c)
        \/ ResetRight(c)
    \/ \E v \in Verifiers :
        \/ \E c \in DOMAIN code :
            \/ \E right \in BOOLEAN : VerifyRead(v, c, right)
            \/ \E f \in 1..MaxFactors : MfaRead(v, c, f)
        \/ VerifyDiff(v)
        \/ VerifyUpdate(v)
        \/ CheckAbort(v)
        \/ MfaWrong(v)
        \/ \E q \in Requests : MfaCommit(v, q)
        \/ BeginMfa(v)
        \/ \E right \in BOOLEAN : VerifyMfa(v, right)
        \/ DisableMfa(v)
        \/ FactorSave(v)
        \/ FactorAbort(v)
    \/ \E q \in Requests :
        \/ Register(q)
        \/ LoginPassword(q)
    \/ LoginMfa

SignInSpec == SignInInit /\ [][SignInNext]_signInVars

-----------------------------------------------------------------------------
(* Properties.                                                             *)

\* A code is accepted at most once, and a one-time code or a reset code within its
\* tries; once it was accepted, or a later one of its kind was sent, it is consumed:
\* whichever requests send, check and replace codes at once, wherever they fail, unless
\* a one-time code of a registration was checked while it was checked or replaced
\* (verifyOtp, which takes no lock).  The challenge of a second factor has no number of
\* tries: it may be accepted after any number of wrong codes (completeLoginMfa), but
\* only once.
CodesWinOnceWithinTries ==
    \A c \in DOMAIN code \ crossed :
        /\ wins[c] <= 1
        /\ code[c].kind # "mfa" => wins[c] + wrong[c] <= MaxTries
        /\ \/ wins[c] = 1
           \/ \E d \in DOMAIN code : code[d].state \in {"open", "consumed"} /\ c \in code[d].replaces
           => code[c].state = "consumed"
=============================================================================
