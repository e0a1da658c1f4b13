--------------------------- MODULE ActivationLimits ---------------------------
(***************************************************************************)
(* The attempt limits of reveal and activate                               *)
(* (src/codes/batch-activation.service.ts: vendorAccess, lockLimit,        *)
(* failedAttempt).  Each request counts against three rows of              *)
(* batch_activation_limits: its vendor's, its source address's and its     *)
(* batch's.  It locks the first two in the order of their hashed keys,     *)
(* then the batch and the batch's own row, and keeps the locks until its   *)
(* transaction ends.  Time passes between any two steps.                   *)
(***************************************************************************)
EXTENDS Integers, FiniteSets, Sequences

CONSTANTS
    Requests,     \* reveal and activate requests running concurrently
    Vendors,      \* organisations
    Sources,      \* client addresses
    Batches,      \* batches, which stand for their rows of the limits table too
    Owner,        \* the vendor of each batch
    Rank,         \* order of the hashed keys of vendors and sources
    Window,       \* windowMs
    Cooldown,     \* COOLDOWN_MS
    MaxAttempts,  \* maxAttempts
    MaxTime,      \* bound of the clock
    None

Scopes == Vendors \cup Sources
Keys == Scopes \cup Batches

ASSUME LimitsAssumption ==
    /\ Window \in Nat \ {0} /\ Cooldown \in Nat \ {0}
    /\ MaxAttempts \in Nat \ {0} /\ MaxTime \in Nat
    /\ Owner \in [Batches -> Vendors]
    /\ Rank \in [Scopes -> Nat]
    /\ \A j, k \in Scopes : Rank[j] = Rank[k] => j = k
    /\ Vendors \cap Sources = {} /\ Scopes \cap Batches = {}

VARIABLES
    now,            \* Date.now(), one clock for all API instances
    failures,       \* failures[k]: the times kept in the row
    cooldownUntil,  \* cooldownUntil[k], 0 for NULL
    req,            \* the requests: their scopes and the rows they have locked
    recorded        \* history: every failure ever counted against a key

limits == <<failures, cooldownUntil, recorded>>
vars == <<now, limits, req>>

NoReq == [stage |-> "idle", vendor |-> None, source |-> None, batch |-> None,
          held |-> {}]

\* The three rows a request counts against.
KeysOf(r) == {req[r].vendor, req[r].source, req[r].batch}

\* No other request has locked the row.
Free(k) == \A r \in Requests : k \notin req[r].held

\* Mutant of NextScope: both rows are asked for at once (Promise.all).
AnyScope(r, k) == k \in {req[r].vendor, req[r].source} \ req[r].held

\* The first of the request's scopes, in key order, that it has not locked yet.
NextScope(r, k) ==
    LET missing == {req[r].vendor, req[r].source} \ req[r].held
    IN k \in missing /\ \A j \in missing : Rank[k] <= Rank[j]

\* Mutant of CoolingDown: the cooldown of the address is not looked at.
VendorCoolingDown(r) ==
    \E k \in {req[r].vendor, req[r].batch} : cooldownUntil[k] > now

CoolingDown(r) == \E k \in KeysOf(r) : cooldownUntil[k] > now

\* filter(time => time > start).  A row is written in the order of time, so that what
\* the filter keeps is what follows the last failure that is too old.
After(times, start) ==
    LET old == CHOOSE n \in 0..Len(times) :
                  \A i \in 1..Len(times) : times[i] > start <=> i > n
    IN  SubSeq(times, old + 1, Len(times))

\* Mutant of Kept: the oldest instant is kept as well.
KeptTooLong(times) == After(times, now - Window - 1)

\* The failures of a row that are still inside the window.
Kept(times) == After(times, now - Window)

\* Mutant of Reached: one failure more than allowed.
Exceeded(times) == Len(times) > MaxAttempts

Reached(times) == Len(times) >= MaxAttempts

Init ==
    /\ now = 0
    /\ failures = [k \in Keys |-> <<>>]
    /\ cooldownUntil = [k \in Keys |-> 0]
    /\ req = [r \in Requests |-> NoReq]
    /\ recorded = [k \in Keys |-> <<>>]

Begin(r, v, s, b) ==
    /\ req[r].stage = "idle"
    /\ req' = [req EXCEPT ![r] = [stage |-> "locking", vendor |-> v, source |-> s,
                                  batch |-> b, held |-> {}]]
    /\ UNCHANGED <<now, limits>>

\* lockLimit of one of the two scopes.
LockScope(r, k) ==
    /\ req[r].stage = "locking"
    /\ NextScope(r, k)
    /\ Free(k)
    /\ req' = [req EXCEPT ![r].held = @ \cup {k}]
    /\ UNCHANGED <<now, limits>>

\* Every way of ending the transaction releases all its locks.
End(r) == req' = [req EXCEPT ![r] = NoReq]

\* Both scopes are locked and findBatch gets the batch's row.
AtBatch(r) ==
    /\ req[r].stage = "locking"
    /\ {req[r].vendor, req[r].source} \subseteq req[r].held
    /\ Free(req[r].batch)

\* BATCH_NOT_FOUND: not looked at for a cooldown, and not counted.
RejectStranger(r) ==
    /\ AtBatch(r)
    /\ Owner[req[r].batch] # req[r].vendor
    /\ End(r)
    /\ UNCHANGED <<now, limits>>

\* ACTIVATION_COOLDOWN: the rows stay as they are.
RejectCooldown(r) ==
    /\ AtBatch(r)
    /\ Owner[req[r].batch] = req[r].vendor
    /\ CoolingDown(r)
    /\ End(r)
    /\ UNCHANGED <<now, limits>>

Admit(r) ==
    /\ AtBatch(r)
    /\ Owner[req[r].batch] = req[r].vendor
    /\ ~CoolingDown(r)
    /\ req' = [req EXCEPT ![r].stage = "admitted", ![r].held = KeysOf(r)]
    /\ UNCHANGED <<now, limits>>

\* A PIN or a password that does not match: failedAttempt.
Fail(r) ==
    /\ req[r].stage = "admitted"
    /\ failures' = [k \in Keys |-> IF k \in KeysOf(r)
                                   THEN Append(Kept(failures[k]), now)
                                   ELSE failures[k]]
    /\ cooldownUntil' = [k \in Keys |-> IF k \in KeysOf(r) /\ Reached(failures'[k])
                                        THEN now + Cooldown ELSE cooldownUntil[k]]
    /\ recorded' = [k \in Keys |-> IF k \in KeysOf(r) THEN Append(recorded[k], now)
                                                      ELSE recorded[k]]
    /\ End(r)
    /\ UNCHANGED now

\* Success, or a rejection for another reason: neither touches the rows.
Finish(r) ==
    /\ req[r].stage = "admitted"
    /\ End(r)
    /\ UNCHANGED <<now, limits>>

\* The connection or the process is lost: the transaction is rolled back.
Abort(r) ==
    /\ req[r].stage # "idle"
    /\ End(r)
    /\ UNCHANGED <<now, limits>>

Tick ==
    /\ now < MaxTime
    /\ now' = now + 1
    /\ UNCHANGED <<limits, req>>

EnterBatch(r) == RejectStranger(r) \/ RejectCooldown(r) \/ Admit(r)

Next ==
    \/ \E r \in Requests :
        \/ \E v \in Vendors, s \in Sources, b \in Batches : Begin(r, v, s, b)
        \/ \E k \in Scopes : LockScope(r, k)
        \/ EnterBatch(r)
        \/ Fail(r)
        \/ Finish(r)
        \/ Abort(r)
    \/ Tick

\* PostgreSQL grants a row lock to its waiters in turn (SF), and a transaction
\* that waits for nothing runs to its end (WF).  Requests need not arrive, nor
\* time pass.
Fairness ==
    \A r \in Requests :
        /\ SF_vars(\E k \in Scopes : LockScope(r, k))
        /\ SF_vars(EnterBatch(r))
        /\ WF_vars(Fail(r) \/ Finish(r))

Spec == Init /\ [][Next]_vars /\ Fairness

-----------------------------------------------------------------------------
(* Properties.                                                             *)

\* The shape of the rows, and no row locked by two requests.
TypeOK ==
    /\ now \in 0..MaxTime
    /\ failures \in [Keys -> Seq(0..MaxTime)]
    /\ cooldownUntil \in [Keys -> 0..(MaxTime + Cooldown)]
    /\ recorded \in [Keys -> Seq(0..MaxTime)]
    /\ req \in [Requests ->
            [stage: {"idle", "locking", "admitted"}, vendor: Vendors \cup {None},
             source: Sources \cup {None}, batch: Batches \cup {None},
             held: SUBSET Keys]]
    /\ \A r, s \in Requests : r # s => req[r].held \cap req[s].held = {}

Counter(k) == INSTANCE RollingLimit WITH recorded <- recorded[k],
                                         blockedUntil <- cooldownUntil[k]

\* Each of the rows is the rolling limit of the document, for any interleaving
\* of the requests that share it: dropping old failures when a new one is
\* written (failedAttempt) loses none that still counts.
EveryCounterIsARollingLimit ==
    /\ \A k \in Keys : Counter(k)!Init
    /\ [][\A k \in Keys : [Counter(k)!Next]_(Counter(k)!vars)]_vars

\* Within the width of a window that is no longer than a cooldown, no vendor,
\* source or batch gets more than maxAttempts wrong tries counted, although
\* requests on other rows run concurrently and time passes between the check in
\* vendorAccess and the count in failedAttempt.
NeverMoreThanMaxAttempts ==
    LET width == IF Window <= Cooldown THEN Window ELSE Cooldown
    IN \A k \in Keys, end \in 0..now :
            Counter(k)!CountWithin(recorded[k], end, width) <= MaxAttempts

\* "A fixed 15-minute cooldown; blocked requests do not extend it": while a
\* cooldown runs on a row, no request sharing the row changes its end.
CooldownIsFixed ==
    [][\A k \in Keys : cooldownUntil[k] > now =>
            cooldownUntil'[k] = cooldownUntil[k]]_vars

\* Every request ends, however the locks of vendors and sources are contended:
\* the order of the hashed keys leaves no circle of waiting transactions.
EveryRequestEnds ==
    \A r \in Requests : req[r].stage # "idle" ~> req[r].stage = "idle"
=============================================================================
