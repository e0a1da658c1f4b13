------------------------------- MODULE Sessions -------------------------------
(***************************************************************************)
(* The login sessions of one user (src/auth/auth.service.ts): sign-in,     *)
(* rotation of the refresh token, sign-out, revocation of one session, and *)
(* the password reset that revokes them all.                               *)
(*                                                                         *)
(* refresh, login and revokeSession take no lock.  They read or insert a   *)
(* row of auth_sessions, change the entity in memory and save it, which is *)
(* a SELECT that finds the columns that differ and then an UPDATE of these *)
(* columns: one action for each.  logout, logoutAll and resetPassword run  *)
(* a single UPDATE.  A token is what its claims distinguish: the rotation  *)
(* and the second it was issued in.  expiresAt is left out, because a      *)
(* token's own expiry is never later than that of its session.             *)
(***************************************************************************)
EXTENDS Naturals, FiniteSets

CONSTANTS
    SessionIds,   \* rows of auth_sessions
    Requests,     \* concurrent refresh, login and revokeSession requests
    Stamps,       \* seconds in which tokens are issued
    MaxRotation,  \* bound of the rotation counter
    MaxResets,    \* bound of the number of password resets
    None

Tokens == [rotation: 0..MaxRotation, stamp: Stamps]

ASSUME SessionsAssumption ==
    /\ MaxRotation \in Nat /\ MaxResets \in Nat
    /\ None \notin SessionIds \cup Tokens

VARIABLES
    row,       \* row[s]: the row of a session
    active,    \* the user may sign in: isActive, or an administrator in onboarding
    resets,    \* how often the password has been reset
    req,       \* the requests in flight
    issued,    \* issued[s]: the tokens that have reached the client
    spent,     \* history: spent[s][t], how often a refresh accepted a token
    overlapped \* history: sessions of which two refreshes were in flight at once

history == <<spent, overlapped>>
vars == <<row, active, resets, req, issued, history>>

Row == [state: {"absent", "live", "revoked"}, rotation: 0..MaxRotation,
        hash: Tokens \cup {None}]
Columns == {"revokedAt", "rotation", "refreshTokenHash"}

NoRow == [state |-> "absent", rotation |-> 0, hash |-> None]
Idle == [kind |-> "none", stage |-> "idle", session |-> None, row |-> NoRow,
         token |-> None, diff |-> {}]

InFlight(s) == {q \in Requests : req[q].session = s}

Init ==
    /\ row = [s \in SessionIds |-> NoRow]
    /\ active = TRUE
    /\ resets = 0
    /\ req = [q \in Requests |-> Idle]
    /\ issued = [s \in SessionIds |-> {}]
    /\ spent = [s \in SessionIds |-> [t \in Tokens |-> 0]]
    /\ overlapped = {}

-----------------------------------------------------------------------------
(* What save does.                                                         *)

\* The SELECT.  A revokedAt that was set in memory is a new date, so it differs
\* from any that is stored; a null that was read differs from a stored date.
SaveDiff(q) ==
    LET mine == req[q].row
        now == row[req[q].session]
    IN
    /\ req[q].stage = "save"
    /\ req' = [req EXCEPT ![q].stage = "update", ![q].diff =
           {f \in Columns :
              \/ f = "revokedAt" /\ "revoked" \in {mine.state, now.state}
              \/ f = "rotation" /\ mine.rotation # now.rotation
              \/ f = "refreshTokenHash" /\ mine.hash # now.hash}]
    /\ UNCHANGED <<row, active, resets, issued, history>>

Overwritten(now, mine, diff) ==
    [state    |-> IF "revokedAt" \in diff THEN mine.state ELSE now.state,
     rotation |-> IF "rotation" \in diff THEN mine.rotation ELSE now.rotation,
     hash     |-> IF "refreshTokenHash" \in diff THEN mine.hash ELSE now.hash]

\* The UPDATE, and the answer, which may get lost.
SaveUpdate(q, answered) ==
    LET s == req[q].session
        t == req[q].token
    IN
    /\ req[q].stage = "update"
    /\ row' = [row EXCEPT ![s] = Overwritten(@, req[q].row, req[q].diff)]
    /\ issued' = IF answered /\ req[q].kind \in {"refresh", "login"}
                 THEN [issued EXCEPT ![s] = @ \cup {req[q].row.hash}] ELSE issued
    /\ spent' = IF req[q].kind = "refresh" THEN [spent EXCEPT ![s][t] = @ + 1] ELSE spent
    /\ req' = [req EXCEPT ![q] = Idle]
    /\ UNCHANGED <<active, resets, overlapped>>

-----------------------------------------------------------------------------
(* refresh.                                                                *)

\* Mutant of Refreshable: the condition revokedAt IS NULL is missing.
RefreshableAtAll(s) == row[s].state # "absent"

\* findOneBy with revokedAt IS NULL.
Refreshable(s) == row[s].state = "live"

\* The token is the one whose hash and rotation the row holds.
Current(t, r) == r.rotation = t.rotation /\ r.hash = t

\* Mutants of Rotated: the counter stays; the token is signed before it moves.
NotRotated(r, stamp) ==
    [r EXCEPT !.hash = [rotation |-> r.rotation, stamp |-> stamp]]
SignedBeforeRotation(r, stamp) ==
    [r EXCEPT !.rotation = @ + 1, !.hash = [rotation |-> r.rotation, stamp |-> stamp]]

\* The entity after rotation += 1 and issueTokens.
Rotated(r, stamp) ==
    [r EXCEPT !.rotation = @ + 1,
              !.hash = [rotation |-> r.rotation + 1, stamp |-> stamp]]

\* Any token that the client ever got is presented.  One that is not current is
\* a replay, and the session is to be revoked.
RefreshRead(q, s, t) ==
    /\ req[q].stage = "idle"
    /\ t \in issued[s]
    /\ Refreshable(s)
    /\ req' = [req EXCEPT ![q] =
           [kind |-> IF Current(t, row[s]) THEN "refresh" ELSE "replay",
            stage |-> IF Current(t, row[s]) THEN "user" ELSE "save",
            session |-> s, token |-> t, diff |-> {},
            row |-> IF Current(t, row[s]) THEN row[s]
                    ELSE [row[s] EXCEPT !.state = "revoked"]]]
    /\ overlapped' = IF \E p \in InFlight(s) : req[p].kind \in {"refresh", "replay"}
                     THEN overlapped \cup {s} ELSE overlapped
    /\ UNCHANGED <<row, active, resets, issued, spent>>

\* The user is read, and the request ends here when the account is inactive.
RefreshUser(q, stamp) ==
    /\ req[q].stage = "user"
    /\ req[q].row.rotation < MaxRotation
    /\ req' = IF active
              THEN [req EXCEPT ![q].stage = "save",
                               ![q].row = Rotated(req[q].row, stamp)]
              ELSE [req EXCEPT ![q] = Idle]
    /\ UNCHANGED <<row, active, resets, issued, history>>

-----------------------------------------------------------------------------
(* The other operations.                                                   *)

\* login reads the user and verifies the password.
LoginRead(q) ==
    /\ req[q].stage = "idle"
    /\ active
    /\ req' = [req EXCEPT ![q] = [Idle EXCEPT !.stage = "insert"]]
    /\ UNCHANGED <<row, active, resets, issued, history>>

\* The INSERT of issueTokens, whose hash is still 'pending'.
LoginInsert(q, s, stamp) ==
    /\ req[q].stage = "insert"
    /\ row[s].state = "absent"
    /\ row' = [row EXCEPT ![s].state = "live"]
    /\ req' = [req EXCEPT ![q] =
           [kind |-> "login", stage |-> "save", session |-> s, token |-> None, diff |-> {},
            row |-> [state |-> "live", rotation |-> 0,
                     hash |-> [rotation |-> 0, stamp |-> stamp]]]]
    /\ UNCHANGED <<active, resets, issued, history>>

\* The sessions whose access token the client holds and JwtStrategy lets through.
SignedIn == {s \in SessionIds : row[s].state = "live" /\ issued[s] # {} /\ active}

RevokeRead(q, s) ==
    /\ req[q].stage = "idle"
    /\ SignedIn # {}
    /\ row[s].state # "absent"
    /\ req' = [req EXCEPT ![q] =
           [kind |-> "revoke", stage |-> "save", session |-> s, token |-> None,
            diff |-> {}, row |-> [row[s] EXCEPT !.state = "revoked"]]]
    /\ UNCHANGED <<row, active, resets, issued, history>>

\* UPDATE auth_sessions SET revokedAt = now WHERE revokedAt IS NULL, of some rows.
EndSessions(ended) ==
    /\ row' = [s \in SessionIds |-> IF s \in ended THEN [row[s] EXCEPT !.state = "revoked"]
                                                   ELSE row[s]]

Live == {s \in SessionIds : row[s].state = "live"}

Logout(s) ==
    /\ s \in SignedIn
    /\ EndSessions({s})
    /\ UNCHANGED <<active, resets, req, issued, spent, overlapped>>

LogoutAll ==
    /\ SignedIn # {}
    /\ EndSessions(Live)
    /\ UNCHANGED <<active, resets, req, issued, spent, overlapped>>

\* resetPassword with a valid code: one transaction that ends with the UPDATE.
ResetPassword ==
    /\ active
    /\ resets < MaxResets
    /\ resets' = resets + 1
    /\ EndSessions(Live)
    /\ UNCHANGED <<active, req, issued, spent, overlapped>>

\* Team administration deactivates or reactivates the account.
SetActive ==
    /\ active' = ~active
    /\ UNCHANGED <<row, resets, req, issued, history>>

\* The process stops, or a statement fails, before the UPDATE.
Abort(q) ==
    /\ req[q].stage # "idle"
    /\ req' = [req EXCEPT ![q] = Idle]
    /\ UNCHANGED <<row, active, resets, issued, history>>

\* All but the steps that need the account, its password or a code: see SignIn.
SessionStep ==
    \/ \E q \in Requests :
        \/ \E s \in SessionIds :
            \/ \E t \in Tokens : RefreshRead(q, s, t)
            \/ \E stamp \in Stamps : LoginInsert(q, s, stamp)
            \/ RevokeRead(q, s)
        \/ \E stamp \in Stamps : RefreshUser(q, stamp)
        \/ SaveDiff(q)
        \/ \E answered \in BOOLEAN : SaveUpdate(q, answered)
        \/ Abort(q)
    \/ \E s \in SessionIds : Logout(s)
    \/ LogoutAll

Next ==
    \/ SessionStep
    \/ \E q \in Requests : LoginRead(q)
    \/ ResetPassword
    \/ SetActive

Spec == Init /\ [][Next]_vars

-----------------------------------------------------------------------------
(* Properties.                                                             *)

\* The shape of the rows and of the requests; a row about to be saved with a new
\* token names a token of its own rotation.
TypeOK ==
    /\ row \in [SessionIds -> Row]
    /\ active \in BOOLEAN
    /\ resets \in 0..MaxResets
    /\ req \in [Requests ->
            [kind: {"none", "refresh", "replay", "login", "revoke"},
             stage: {"idle", "user", "insert", "save", "update"},
             session: SessionIds \cup {None}, row: Row,
             token: Tokens \cup {None}, diff: SUBSET Columns]]
    /\ issued \in [SessionIds -> SUBSET Tokens]
    /\ spent \in [SessionIds -> [Tokens -> Nat]]
    /\ overlapped \subseteq SessionIds
    /\ \A q \in Requests : req[q].kind \in {"refresh", "login"} =>
            Current(req[q].row.hash, req[q].row)

\* Refresh and login requests that hold the row of a session in memory as it was
\* before the session was revoked.
Holders(s) == {q \in InFlight(s) : req[q].kind \in {"refresh", "login"}}

\* A session that is revoked while no such request is in flight is revoked for
\* good: no later refresh, replay, revocation or lost answer makes it live, and
\* no refresh of it gets as far as holding its row.
RevokedStaysRevoked ==
    [][\A s \in SessionIds :
        row[s].state = "revoked" /\ Holders(s) = {} =>
            row'[s].state = "revoked" /\ Holders(s)' = {}]_vars

\* "Replace the old refresh token after every successful refresh": as long
\* as a client sends one refresh at a time, a token buys at most one successor, although
\* answers get lost, old tokens are presented again, and revokeSession writes
\* back the rotation and the hash that it read earlier.
EachTokenIsSpentOnce ==
    \A s \in SessionIds \ overlapped, t \in Tokens : spent[s][t] <= 1

\* The rotation and the hash of a live row belong together, so that the newest
\* token of a client that sends one refresh at a time is not taken for a replay.
LiveRowsHoldOneToken ==
    \A s \in SessionIds \ overlapped :
        row[s].state = "live" /\ row[s].hash # None => Current(row[s].hash, row[s])
=============================================================================
