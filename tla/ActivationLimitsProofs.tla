------------------------ MODULE ActivationLimitsProofs ------------------------
(***************************************************************************)
(* Proofs about ActivationLimits, for any vendors, addresses, batches,     *)
(* requests, windows and cooldowns.  An admitted request has checked three *)
(* rows and still holds their locks, so that what it checked is still true *)
(* when it counts its failure: IInv says that the locks exclude each other *)
(* and that no row of an admitted request is cooling down.  Rows relates   *)
(* each row to all failures of its key: the row is the end of the history, *)
(* and what it has lost is too old to count; a history that fills a window *)
(* has started a cooldown; and no more than MaxAttempts failures are close *)
(* together.  That each counter is the rolling limit of the documentation  *)
(* follows step by step from both.                                         *)
(***************************************************************************)
EXTENDS ActivationLimits, FiniteSetTheorems, SequenceTheorems, WellFoundedInduction, TLAPS

ReqRecord ==
    [stage: {"idle", "locking", "admitted"}, vendor: Vendors \cup {None},
     source: Sources \cup {None}, batch: Batches \cup {None}, held: SUBSET Keys]

LocksOK ==
    /\ now \in Nat
    /\ cooldownUntil \in [Keys -> Nat]
    /\ req \in [Requests -> ReqRecord]
    /\ \A r \in Requests : req[r].stage # "idle" =>
            req[r].vendor \in Vendors /\ req[r].source \in Sources /\ req[r].batch \in Batches

\* FOR UPDATE: no row is locked by two transactions.
LocksExclude == \A r, s \in Requests : r # s => req[r].held \cap req[s].held = {}

\* What vendorAccess found is true until the transaction ends.
AdmittedMayFail ==
    \A r \in Requests : req[r].stage = "admitted" =>
        /\ req[r].held = KeysOf(r)
        /\ \A k \in KeysOf(r) : cooldownUntil[k] <= now

IInv == LocksOK /\ LocksExclude /\ AdmittedMayFail

-----------------------------------------------------------------------------
(* The steps.                                                              *)

\* The rows of a request in progress are keys.
LEMMA KeysOfRequest ==
    ASSUME LocksOK, NEW r \in Requests, req[r].stage # "idle"
    PROVE  KeysOf(r) \subseteq Keys
BY DEF LocksOK, KeysOf, Keys, Scopes

\* Ending a transaction releases its locks and changes no other request.
LEMMA EndKeeps ==
    ASSUME IInv, NEW r \in Requests, End(r), UNCHANGED <<now, limits>>
    PROVE  IInv'
<1>1. NoReq \in ReqRecord /\ NoReq.stage = "idle" /\ NoReq.held = {}
  BY DEF NoReq, ReqRecord
<1>2. \A s \in Requests : req'[s] = IF s = r THEN NoReq ELSE req[s]
  BY DEF IInv, LocksOK, End
<1>3. LocksOK'
  BY <1>1, <1>2 DEF IInv, LocksOK, End, limits
<1>4. LocksExclude'
  BY <1>1, <1>2 DEF IInv, LocksExclude
<1>5. AdmittedMayFail'
  BY <1>1, <1>2 DEF IInv, AdmittedMayFail, KeysOf, limits
<1> QED
  BY <1>3, <1>4, <1>5 DEF IInv

\* Counting a failure touches only rows that the request holds.
LEMMA FailKeeps ==
    ASSUME IInv, NEW r \in Requests, Fail(r)
    PROVE  IInv'
<1>1. NoReq \in ReqRecord /\ NoReq.stage = "idle" /\ NoReq.held = {}
  BY DEF NoReq, ReqRecord
<1>2. \A s \in Requests : req'[s] = IF s = r THEN NoReq ELSE req[s]
  BY DEF IInv, LocksOK, End, Fail
<1>3. LocksOK'
  <2>1. now + Cooldown \in Nat
    BY LimitsAssumption DEF IInv, LocksOK
  <2>2. cooldownUntil' \in [Keys -> Nat]
    BY <2>1 DEF IInv, LocksOK, Fail
  <2> QED
    BY <1>1, <1>2, <2>2 DEF IInv, LocksOK, Fail, End
<1>4. LocksExclude'
  BY <1>1, <1>2 DEF IInv, LocksExclude
<1>5. ASSUME NEW s \in Requests, req'[s].stage = "admitted"
      PROVE  req'[s].held = KeysOf(s)' /\ \A k \in KeysOf(s)' : cooldownUntil'[k] <= now'
  <2>1. s # r /\ req'[s] = req[s]
    BY <1>1, <1>2, <1>5
  <2>2. KeysOf(s)' = KeysOf(s) /\ req[s].held = KeysOf(s) /\ req[r].held = KeysOf(r)
    BY <1>5, <2>1 DEF IInv, AdmittedMayFail, KeysOf, Fail
  <2>3. \A k \in KeysOf(s) : k \notin KeysOf(r)
    BY <2>1, <2>2 DEF IInv, LocksExclude
  <2>4. KeysOf(s) \subseteq Keys
    BY <1>5, <2>1, KeysOfRequest DEF IInv
  <2>5. \A k \in KeysOf(s) : cooldownUntil'[k] = cooldownUntil[k]
    BY <2>3, <2>4 DEF Fail
  <2> QED
    BY <1>5, <2>1, <2>2, <2>5 DEF IInv, AdmittedMayFail, Fail
<1> QED
  BY <1>3, <1>4, <1>5 DEF IInv, AdmittedMayFail

\* Taking a lock, or the last two with the admission, keeps locks exclusive.
LEMMA LockKeeps ==
    ASSUME IInv, NEW r \in Requests, UNCHANGED <<now, limits>>,
           (\E k \in Scopes : LockScope(r, k)) \/ Admit(r)
    PROVE  IInv'
<1>1. ASSUME NEW k \in Scopes, LockScope(r, k) PROVE IInv'
  <2>1. req' = [req EXCEPT ![r] = [req[r] EXCEPT !.held = req[r].held \cup {k}]]
    BY <1>1 DEF LockScope
  <2>2. \A s \in Requests : s # r => req'[s] = req[s] /\ k \notin req[s].held
    BY <1>1, <2>1 DEF IInv, LocksOK, LockScope, Free
  <2>3. /\ req'[r].held = req[r].held \cup {k}
        /\ req'[r].stage = "locking"
        /\ req'[r].vendor = req[r].vendor /\ req'[r].source = req[r].source
        /\ req'[r].batch = req[r].batch
        /\ req'[r] \in ReqRecord
    BY <1>1, <2>1 DEF IInv, LocksOK, LockScope, ReqRecord, Keys
  <2>4. LocksOK'
    BY <1>1, <2>1, <2>2, <2>3 DEF IInv, LocksOK, limits, LockScope
  <2>5. LocksExclude'
    BY <2>2, <2>3 DEF IInv, LocksExclude
  <2>6. AdmittedMayFail'
    BY <2>2, <2>3 DEF IInv, AdmittedMayFail, KeysOf, limits
  <2> QED
    BY <2>4, <2>5, <2>6 DEF IInv
<1>2. ASSUME Admit(r) PROVE IInv'
  <2>0. KeysOf(r) \subseteq Keys
    BY <1>2, KeysOfRequest DEF IInv, Admit, AtBatch
  <2>1. req' = [req EXCEPT ![r] = [req[r] EXCEPT !.stage = "admitted", !.held = KeysOf(r)]]
    BY <1>2 DEF Admit, IInv, LocksOK, ReqRecord
  <2>2. \A s \in Requests : s # r => req'[s] = req[s] /\ KeysOf(s)' = KeysOf(s)
    BY <2>1 DEF IInv, LocksOK, KeysOf
  <2>3. /\ req'[r].held = KeysOf(r) /\ req'[r].stage = "admitted"
        /\ req'[r].vendor = req[r].vendor /\ req'[r].source = req[r].source
        /\ req'[r].batch = req[r].batch
        /\ req'[r] \in ReqRecord
    BY <2>0, <2>1 DEF IInv, LocksOK, ReqRecord
  <2>4. LocksOK'
    BY <1>2, <2>1, <2>2, <2>3 DEF IInv, LocksOK, limits, Admit, AtBatch
  <2>5. \A s \in Requests : s # r => req[s].held \cap KeysOf(r) = {}
    BY <1>2 DEF IInv, LocksExclude, Admit, AtBatch, Free, KeysOf
  <2>6. LocksExclude'
    BY <2>2, <2>3, <2>5 DEF IInv, LocksExclude
  <2>7. \A k \in KeysOf(r) : cooldownUntil[k] <= now
    BY <1>2, <2>0 DEF Admit, CoolingDown, IInv, LocksOK
  <2>8. KeysOf(r)' = KeysOf(r)
    BY <2>3 DEF KeysOf
  <2>9. AdmittedMayFail'
    BY <2>2, <2>3, <2>7, <2>8 DEF IInv, AdmittedMayFail, limits
  <2> QED
    BY <2>4, <2>6, <2>9 DEF IInv
<1> QED
  BY <1>1, <1>2

\* A new request holds nothing, and time only ends cooldowns.
LEMMA BeginKeeps ==
    ASSUME IInv, NEW r \in Requests, NEW v \in Vendors, NEW s \in Sources, NEW b \in Batches,
           Begin(r, v, s, b)
    PROVE  IInv'
<1> DEFINE n == [stage |-> "locking", vendor |-> v, source |-> s, batch |-> b, held |-> {}]
<1>1. n \in ReqRecord
  BY DEF ReqRecord
<1>2. \A t \in Requests : req'[t] = IF t = r THEN n ELSE req[t]
  BY DEF IInv, LocksOK, Begin
<1>3. LocksOK'
  BY <1>1, <1>2 DEF IInv, LocksOK, Begin, limits
<1>4. LocksExclude'
  BY <1>2 DEF IInv, LocksExclude
<1>5. AdmittedMayFail'
  BY <1>2 DEF IInv, AdmittedMayFail, KeysOf, Begin, limits
<1> QED
  BY <1>3, <1>4, <1>5 DEF IInv

\* Time passes, which only ends cooldowns.
LEMMA TickKeeps == IInv /\ Tick => IInv'
<1> SUFFICES ASSUME IInv, Tick PROVE IInv'
  OBVIOUS
<1>1. LocksOK' /\ LocksExclude'
  BY DEF IInv, LocksOK, LocksExclude, Tick, limits
<1>2. AdmittedMayFail'
  <2>1. \A r \in Requests : req[r].stage = "admitted" => KeysOf(r) \subseteq Keys
    BY KeysOfRequest DEF IInv
  <2> QED
    BY <2>1 DEF IInv, LocksOK, AdmittedMayFail, Tick, limits, KeysOf
<1> QED
  BY <1>1, <1>2 DEF IInv

-----------------------------------------------------------------------------
(* The theorems.                                                           *)

\* The invariant is inductive, so it always holds.
LEMMA Inductive == Spec => []IInv
<1>1. Init => IInv
  BY DEF Init, IInv, LocksOK, LocksExclude, AdmittedMayFail, NoReq, ReqRecord
<1>2. IInv /\ [Next]_vars => IInv'
  <2> SUFFICES ASSUME IInv, [Next]_vars PROVE IInv'
    OBVIOUS
  <2>1. CASE UNCHANGED vars
    BY <2>1 DEF IInv, LocksOK, LocksExclude, AdmittedMayFail, KeysOf, vars, limits
  <2>2. ASSUME NEW r \in Requests, EnterBatch(r) PROVE IInv'
    <3>1. CASE RejectStranger(r) \/ RejectCooldown(r)
      BY <3>1, EndKeeps DEF RejectStranger, RejectCooldown
    <3>2. CASE Admit(r)
      <4>1. UNCHANGED <<now, limits>>
        BY <3>2 DEF Admit
      <4> QED
        BY <3>2, <4>1, LockKeeps
    <3> QED
      BY <2>2, <3>1, <3>2 DEF EnterBatch
  <2>3. ASSUME NEW r \in Requests, Finish(r) \/ Abort(r) PROVE IInv'
    BY <2>3, EndKeeps DEF Finish, Abort
  <2>4. ASSUME NEW r \in Requests, NEW k \in Scopes, LockScope(r, k) PROVE IInv'
    <3>1. UNCHANGED <<now, limits>>
      BY <2>4 DEF LockScope
    <3> QED
      BY <2>4, <3>1, LockKeeps
  <2> QED
    BY <2>1, <2>2, <2>3, <2>4, BeginKeeps, FailKeeps, TickKeeps DEF Next
<1> QED
  BY <1>1, <1>2, PTL DEF Spec

\* A cooldown is fixed, for any number of requests that share its row: nothing
\* moves the end of a cooldown that is running.
THEOREM CooldownsAreFixed == Spec => CooldownIsFixed
<1>1. ASSUME IInv, [Next]_vars, NEW k \in Keys, cooldownUntil[k] > now
      PROVE  cooldownUntil'[k] = cooldownUntil[k]
  <2>1. ASSUME NEW r \in Requests, Fail(r) PROVE cooldownUntil'[k] = cooldownUntil[k]
    <3>1. \A j \in KeysOf(r) : cooldownUntil[j] <= now
      BY <1>1, <2>1 DEF IInv, AdmittedMayFail, Fail
    <3>2. k \notin KeysOf(r)
      BY <1>1, <3>1 DEF IInv, LocksOK
    <3> QED
      BY <2>1, <3>2 DEF Fail
  <2>2. ASSUME UNCHANGED limits PROVE cooldownUntil'[k] = cooldownUntil[k]
    BY <2>2 DEF limits
  <2> QED
    BY <1>1, <2>1, <2>2
       DEF Next, vars, Begin, LockScope, EnterBatch, RejectStranger, RejectCooldown, Admit,
           Finish, Abort, Tick
<1>2. IInv /\ [Next]_vars =>
        [\A k \in Keys : cooldownUntil[k] > now => cooldownUntil'[k] = cooldownUntil[k]]_vars
  BY <1>1
<1> QED
  BY <1>2, Inductive, PTL DEF Spec, CooldownIsFixed

-----------------------------------------------------------------------------
(* Rows in the order of time.                                              *)

InOrder(times) ==
    \A i, j \in 1..Len(times) : i <= j => times[i] <= times[j]

LEMMA LeastElement ==
    ASSUME NEW T \in SUBSET Nat, T # {}
    PROVE  \E m \in T : \A i \in T : m <= i
<1>1. PICK m \in T : \A i \in T : ~ (<<i, m>> \in OpToRel(<, Nat))
  BY NatLessThanWellFounded, WFMin
<1>2. \A i \in T : ~(i < m)
  BY <1>1 DEF OpToRel
<1> QED  BY <1>2

\* What the filter keeps of a row in order is its end.
LEMMA AfterIsTheEnd ==
    ASSUME NEW times \in Seq(Nat), InOrder(times), NEW start \in Int
    PROVE  \E n \in 0..Len(times) :
              /\ \A i \in 1..Len(times) : times[i] > start <=> i > n
              /\ After(times, start) = SubSeq(times, n + 1, Len(times))
<1> DEFINE cut(n) == \A i \in 1..Len(times) : times[i] > start <=> i > n
           late == {i \in 1..Len(times) : times[i] > start} \cup {Len(times) + 1}
<1>1. Len(times) \in Nat /\ late \in SUBSET Nat /\ late # {}
  OBVIOUS
<1>2. PICK m \in late : \A i \in late : m <= i
  BY <1>1, LeastElement
<1>3. m - 1 \in 0..Len(times)
  BY <1>1, <1>2
<1>4. ASSUME NEW i \in 1..Len(times) PROVE times[i] > start <=> i > m - 1
  <2>1. CASE times[i] > start
    <3>1. i \in late
      BY <2>1
    <3> QED  BY <2>1, <3>1, <1>2, <1>3
  <2>2. CASE ~(times[i] > start)
    <3>1. ASSUME i > m - 1 PROVE FALSE
      <4>1. m \in 1..Len(times) /\ times[m] > start
        BY <3>1, <1>2, <1>3
      <4>2. times[m] <= times[i] /\ times[m] \in Nat /\ times[i] \in Nat
        BY <3>1, <4>1 DEF InOrder
      <4> QED  BY <2>2, <4>1, <4>2
    <3> QED  BY <2>2, <3>1
  <2> QED  BY <2>1, <2>2
<1>5. \E n \in 0..Len(times) : cut(n)
  BY <1>3, <1>4
<1>6. /\ (CHOOSE n \in 0..Len(times) : cut(n)) \in 0..Len(times)
      /\ cut(CHOOSE n \in 0..Len(times) : cut(n))
  BY <1>5
<1> QED  BY <1>6 DEF After

-----------------------------------------------------------------------------
(* One row and the failures that were ever counted against its key.        *)

Width == IF Window <= Cooldown THEN Window ELSE Cooldown

\* What a row has lost is too old to count again.
Dropped(all, kept, t) ==
    \E n \in 0..Len(all) :
        /\ Len(kept) = Len(all) - n
        /\ \A i \in 1..Len(kept) : kept[i] = all[n + i]
        /\ \A i \in 1..n : all[i] <= t - Window

\* The threshold was reached with the last failure, unless it took longer than a window.
Blocked(all, until) ==
    Len(all) >= MaxAttempts /\ all[Len(all)] - all[Len(all) - MaxAttempts + 1] < Window
    => until >= all[Len(all)] + Cooldown

\* No more than MaxAttempts failures in a row are closer than the width.
Spaced(all) ==
    \A i, j \in 1..Len(all) : j = i + MaxAttempts => all[j] >= all[i] + Width

RowHolds(all, kept, until, t) ==
    /\ InOrder(all) /\ \A i \in 1..Len(all) : all[i] <= t
    /\ Dropped(all, kept, t) /\ Blocked(all, until) /\ Spaced(all)

LEMMA Constants ==
    /\ Window \in Nat /\ Cooldown \in Nat /\ MaxAttempts \in Nat /\ MaxTime \in Nat
    /\ MaxAttempts >= 1 /\ Width \in Nat /\ Width <= Window /\ Width <= Cooldown /\ Width >= 1
  BY LimitsAssumption DEF Width

LEMMA CooledDown ==
    ASSUME NEW first \in Nat, NEW last \in Nat, NEW t \in Nat, first <= last, last + Cooldown <= t
    PROVE  t >= first + Width
  BY Constants

\* The failures inside the window are the end of the history from one failure on, and the
\* row is what is left of it after the filter.
LEMMA KeptIsTheWindow ==
    ASSUME NEW all \in Seq(Nat), NEW kept \in Seq(Nat), NEW until \in Nat, now \in Nat,
           RowHolds(all, kept, until, now)
    PROVE  \E n \in 0..Len(all) :
              /\ \A i \in 1..Len(all) : all[i] > now - Window <=> i > n
              /\ Kept(kept) \in Seq(Nat) /\ Len(Kept(kept)) = Len(all) - n
              /\ \A i \in 1..Len(Kept(kept)) : Kept(kept)[i] = all[n + i]
<1>1. /\ Len(all) \in Nat /\ Len(kept) \in Nat /\ now - Window \in Int
      /\ \A i \in 1..Len(all) : all[i] \in Nat
  BY Constants
<1>2. PICK d \in 0..Len(all) :
         /\ Len(kept) = Len(all) - d
         /\ \A i \in 1..Len(kept) : kept[i] = all[d + i]
         /\ \A i \in 1..d : all[i] <= now - Window
  BY DEF RowHolds, Dropped
<1>3. InOrder(kept)
  <2>1. ASSUME NEW i \in 1..Len(kept), NEW j \in 1..Len(kept), i <= j PROVE kept[i] <= kept[j]
    <3>1. d + i \in 1..Len(all) /\ d + j \in 1..Len(all) /\ d + i <= d + j
      BY <2>1, <1>1, <1>2
    <3>2. all[d + i] <= all[d + j]
      BY <3>1 DEF RowHolds, InOrder
    <3> QED  BY <3>2, <1>2
  <2> QED  BY <2>1 DEF InOrder
<1>4. PICK c \in 0..Len(kept) :
         /\ \A i \in 1..Len(kept) : kept[i] > now - Window <=> i > c
         /\ Kept(kept) = SubSeq(kept, c + 1, Len(kept))
  BY <1>1, <1>3, AfterIsTheEnd DEF Kept
<1>5. d + c \in 0..Len(all)
  BY <1>1, <1>2
<1>6. ASSUME NEW i \in 1..Len(all) PROVE all[i] > now - Window <=> i > d + c
  <2>1. CASE i <= d
    BY <1>1, <1>2, <1>5, <2>1
  <2>2. CASE i > d
    <3>1. i - d \in 1..Len(kept) /\ kept[i - d] = all[i]
      BY <1>1, <1>2, <2>2
    <3>2. kept[i - d] > now - Window <=> i - d > c
      BY <3>1, <1>4
    <3> QED  BY <3>1, <3>2, <1>1, <1>5
  <2> QED  BY <1>1, <1>5, <2>1, <2>2
<1>7. /\ Kept(kept) \in Seq(Nat) /\ Len(Kept(kept)) = Len(kept) - c
      /\ \A i \in 1..(Len(kept) - c) : Kept(kept)[i] = kept[c + i]
  BY <1>1, <1>4
<1>8. \A i \in 1..Len(Kept(kept)) : Kept(kept)[i] = all[d + c + i]
  <2> TAKE i \in 1..Len(Kept(kept))
  <2>1. c + i \in 1..Len(kept) /\ Kept(kept)[i] = kept[c + i]
    BY <1>1, <1>7
  <2>2. kept[c + i] = all[d + (c + i)]
    BY <2>1, <1>2
  <2> QED  BY <2>1, <2>2, <1>1
<1>9. Len(Kept(kept)) = Len(all) - (d + c)
  BY <1>1, <1>2, <1>7
<1> DEFINE n == d + c
<1>10. /\ n \in 0..Len(all) /\ Len(Kept(kept)) = Len(all) - n
       /\ \A i \in 1..Len(all) : all[i] > now - Window <=> i > n
       /\ \A i \in 1..Len(Kept(kept)) : Kept(kept)[i] = all[n + i]
  BY <1>5, <1>6, <1>8, <1>9
<1> HIDE DEF n
<1> QED  BY <1>7, <1>10

\* A failure that is counted leaves the row as it has to be.
LEMMA RowCounts ==
    ASSUME NEW all \in Seq(Nat), NEW kept \in Seq(Nat), NEW until \in Nat, now \in Nat,
           RowHolds(all, kept, until, now), until <= now,
           NEW new, new = IF Reached(Append(Kept(kept), now)) THEN now + Cooldown ELSE until
    PROVE  /\ RowHolds(Append(all, now), Append(Kept(kept), now), new, now)
           /\ Append(Kept(kept), now) \in Seq(Nat)
           /\ Reached(Append(Kept(kept), now))
              <=> Cardinality({i \in DOMAIN Append(all, now) :
                      Append(all, now)[i] > now - Window /\ Append(all, now)[i] <= now})
                  >= MaxAttempts
<1> DEFINE all2 == Append(all, now)
           kept2 == Append(Kept(kept), now)
           len == Len(all)
<1>1. PICK n \in 0..Len(all) :
         /\ \A i \in 1..Len(all) : all[i] > now - Window <=> i > n
         /\ Kept(kept) \in Seq(Nat) /\ Len(Kept(kept)) = Len(all) - n
         /\ \A i \in 1..Len(Kept(kept)) : Kept(kept)[i] = all[n + i]
  BY KeptIsTheWindow
<1>2. /\ len \in Nat /\ all2 \in Seq(Nat) /\ Len(all2) = len + 1 /\ DOMAIN all2 = 1..(len + 1)
      /\ all2[len + 1] = now /\ \A i \in 1..len : all2[i] = all[i] /\ all[i] \in Nat
  OBVIOUS
<1>3. /\ kept2 \in Seq(Nat) /\ Len(kept2) = len + 1 - n
      /\ \A i \in 1..Len(kept2) : kept2[i] = all2[n + i]
  <2>1. /\ kept2 \in Seq(Nat) /\ Len(kept2) = Len(Kept(kept)) + 1
        /\ kept2[Len(kept2)] = now
        /\ \A i \in 1..Len(Kept(kept)) : kept2[i] = Kept(kept)[i]
    BY <1>1
  <2>2. Len(kept2) = len + 1 - n
    BY <2>1, <1>1, <1>2
  <2> HIDE DEF kept2, all2
  <2>3. ASSUME NEW i \in 1..Len(kept2) PROVE kept2[i] = all2[n + i]
    <3>1. CASE i = Len(kept2)
      BY <3>1, <2>1, <2>2, <1>1, <1>2
    <3>2. CASE i # Len(kept2)
      <4>0. Len(Kept(kept)) = len - n /\ Len(kept2) = (len - n) + 1 /\ len - n \in Nat
            /\ len \in Nat /\ n \in Nat
        BY <2>2, <1>1, <1>2
      <4>1. i \in 1..Len(Kept(kept)) /\ n + i \in 1..len
        BY <3>2, <4>0
      <4> QED  BY <4>1, <2>1, <1>1, <1>2
    <3> QED  BY <3>1, <3>2
  <2> QED  BY <2>1, <2>2, <2>3
<1>4. \A i \in 1..(len + 1) : /\ all2[i] > now - Window <=> i > n
                              /\ all2[i] <= now
  <2> HIDE DEF all2
  <2> TAKE i \in 1..(len + 1)
  <2>1. CASE i = len + 1
    BY <2>1, <1>1, <1>2, Constants, LimitsAssumption
  <2>2. CASE i \in 1..len
    BY <2>2, <1>1, <1>2 DEF RowHolds
  <2> QED  BY <2>1, <2>2, <1>2
<1>5. Reached(kept2) <=> Cardinality({i \in DOMAIN all2 :
                             all2[i] > now - Window /\ all2[i] <= now}) >= MaxAttempts
  <2> HIDE DEF all2, kept2
  <2>1. {i \in DOMAIN all2 : all2[i] > now - Window /\ all2[i] <= now} = (n + 1)..(len + 1)
    BY <1>1, <1>2, <1>4
  <2>2. Cardinality((n + 1)..(len + 1)) = len + 1 - n
    BY <1>1, <1>2, FS_Interval
  <2> QED  BY <2>1, <2>2, <1>3 DEF Reached
<1> HIDE DEF all2, kept2
<1>6. InOrder(all2) /\ \A i \in 1..Len(all2) : all2[i] <= now
  <2>1. ASSUME NEW i \in 1..(len + 1), NEW j \in 1..(len + 1), i <= j PROVE all2[i] <= all2[j]
    <3>1. CASE j = len + 1
      BY <3>1, <1>2, <1>4
    <3>2. CASE j \in 1..len
      <4>1. i \in 1..len
        BY <2>1, <3>2, <1>2
      <4> QED  BY <2>1, <3>2, <4>1, <1>2 DEF RowHolds, InOrder
    <3> QED  BY <3>1, <3>2, <1>2
  <2> QED  BY <1>2, <1>4, <2>1 DEF InOrder
<1>7. Dropped(all2, kept2, now)
  <2>1. n \in 0..Len(all2) /\ Len(kept2) = Len(all2) - n
    BY <1>1, <1>2, <1>3
  <2>2. \A i \in 1..n : all2[i] <= now - Window
    <3> TAKE i \in 1..n
    <3>1. i \in 1..len /\ i \in 1..(len + 1) /\ ~(i > n)
      BY <1>1, <1>2
    <3>2. ~(all2[i] > now - Window) /\ all2[i] \in Nat
      BY <3>1, <1>2, <1>4
    <3> QED  BY <3>2, Constants
  <2> QED  BY <2>1, <2>2, <1>3 DEF Dropped
<1>8. Blocked(all2, new)
  <2> DEFINE last == len + 1
             first == last - MaxAttempts + 1
  <2> SUFFICES ASSUME last >= MaxAttempts, all2[last] - all2[first] < Window
               PROVE  new >= all2[last] + Cooldown
    BY <1>2 DEF Blocked
  <2>1. first \in 1..last /\ all2[first] \in Nat
    BY <1>2, Constants
  <2>2. all2[first] > now - Window
    BY <2>1, <1>2, Constants
  <2>3. first > n
    BY <2>1, <2>2, <1>4
  <2>4. Len(kept2) >= MaxAttempts
    BY <2>3, <1>1, <1>2, <1>3, Constants
  <2>5. new = now + Cooldown
    BY <2>4 DEF Reached, kept2
  <2> QED  BY <2>5, <1>2, Constants
<1>9. Spaced(all2)
  <2> SUFFICES ASSUME NEW i \in 1..(len + 1), NEW j \in 1..(len + 1), j = i + MaxAttempts
               PROVE  all2[j] >= all2[i] + Width
    BY <1>2 DEF Spaced
  <2>1. i \in 1..len /\ all2[i] = all[i] /\ all[i] \in Nat
    BY <1>2, Constants
  <2>2. CASE j \in 1..len
    BY <2>1, <2>2, <1>2 DEF RowHolds, Spaced
  <2>3. CASE j = len + 1
    <3>0. len >= MaxAttempts /\ i = len - MaxAttempts + 1 /\ len \in 1..len /\ i <= len
      <4>1. len \in Nat /\ MaxAttempts \in Nat /\ MaxAttempts >= 1 /\ i \in 1..len
        BY <2>1, <1>2, Constants
      <4>2. i + MaxAttempts = len + 1
        BY <2>3
      <4> QED  BY <4>1, <4>2
    <3>1. /\ len >= MaxAttempts /\ i = len - MaxAttempts + 1 /\ len \in 1..len
          /\ all[len] \in Nat /\ all[len] <= now
      BY <3>0, <1>2 DEF RowHolds
    <3>4. all2[j] = now /\ Width \in Nat /\ Cooldown \in Nat /\ Window \in Nat
          /\ Width <= Window /\ Width <= Cooldown
      BY <2>3, <1>2, Constants
    <3>2. CASE all[len] - all[i] < Window
      <4>1. until >= all[len] + Cooldown
        BY <3>1, <3>2 DEF RowHolds, Blocked
      <4>2. all[i] <= all[len]
        BY <2>1, <3>0 DEF RowHolds, InOrder
      <4>3. all[i] \in Nat /\ all[len] \in Nat
        BY <2>1, <3>1
      <4>4. now >= all[i] + Width
        <5>1. all[len] + Cooldown <= now
          BY <4>1, <4>3, <3>4
        <5> QED  BY <5>1, <4>2, <4>3, CooledDown
      <4> QED  BY <4>4, <3>4, <2>1
    <3>3. CASE ~(all[len] - all[i] < Window)
      <4>1. all[i] \in Nat /\ all[len] \in Nat /\ all[len] <= now
        BY <2>1, <3>1
      <4>2. now >= all[i] + Width
        BY <3>3, <4>1, <3>4
      <4> QED  BY <4>2, <3>4, <2>1
    <3> QED  BY <3>2, <3>3
  <2> QED  BY <2>2, <2>3, <1>2
<1>10. RowHolds(all2, kept2, new, now)
  BY <1>6, <1>7, <1>8, <1>9 DEF RowHolds
<1> QED  BY <1>3, <1>5, <1>10 DEF all2, kept2

-----------------------------------------------------------------------------
(* All rows.                                                               *)

RowsTyped ==
    /\ now \in 0..MaxTime
    /\ failures \in [Keys -> Seq(0..MaxTime)]
    /\ recorded \in [Keys -> Seq(0..MaxTime)]
    /\ cooldownUntil \in [Keys -> 0..(MaxTime + Cooldown)]

Rows == \A k \in Keys : RowHolds(recorded[k], failures[k], cooldownUntil[k], now)

RInv == IInv /\ RowsTyped /\ Rows

LEMMA TimesAreNumbers ==
    ASSUME NEW times \in Seq(0..MaxTime)
    PROVE  times \in Seq(Nat)
<1>1. 0..MaxTime \subseteq Nat
  BY Constants
<1> QED  BY <1>1, SeqMonotonic

LEMMA NumbersAreTimes ==
    ASSUME NEW times \in Seq(Nat), \A i \in 1..Len(times) : times[i] \in 0..MaxTime
    PROVE  times \in Seq(0..MaxTime)
<1>1. Len(times) \in Nat /\ times = [i \in 1..Len(times) |-> times[i]]
  OBVIOUS
<1>2. times \in [1..Len(times) -> 0..MaxTime]
  BY <1>1
<1>3. times \in UNION {[1..n -> 0..MaxTime] : n \in Nat}
  BY <1>1, <1>2
<1> QED  BY <1>3, SeqDef, Zenon

\* Time makes failures older.
LEMMA RowsAge ==
    ASSUME NEW all \in Seq(Nat), NEW kept \in Seq(Nat), NEW until, NEW t \in Nat,
           RowHolds(all, kept, until, t)
    PROVE  RowHolds(all, kept, until, t + 1)
<1>1. \A i \in 1..Len(all) : all[i] \in Nat
  OBVIOUS
<1>2. PICK n \in 0..Len(all) :
         /\ Len(kept) = Len(all) - n
         /\ \A i \in 1..Len(kept) : kept[i] = all[n + i]
         /\ \A i \in 1..n : all[i] <= t - Window
  BY DEF RowHolds, Dropped
<1>3. \A i \in 1..n : all[i] <= (t + 1) - Window
  <2> TAKE i \in 1..n
  <2>1. all[i] \in Nat /\ all[i] <= t - Window
    BY <1>1, <1>2
  <2> QED  BY <2>1, Constants
<1>4. Dropped(all, kept, t + 1)
  BY <1>2, <1>3 DEF Dropped
<1>5. \A i \in 1..Len(all) : all[i] <= t + 1
  BY <1>1 DEF RowHolds
<1> QED  BY <1>4, <1>5 DEF RowHolds

LEMMA EmptyRows ==
    RowHolds(<<>>, <<>>, 0, 0)
<1>1. Dropped(<<>>, <<>>, 0)
  BY DEF Dropped
<1>2. ~(Len(<<>>) >= MaxAttempts)
  BY Constants
<1> QED  BY <1>1, <1>2 DEF RowHolds, InOrder, Blocked, Spaced

\* What a failure does to the three rows of its request, and to no other.
LEMMA FailCounts ==
    ASSUME RInv, NEW r \in Requests, Fail(r), NEW k \in Keys
    PROVE  /\ RowHolds(recorded'[k], failures'[k], cooldownUntil'[k], now')
           /\ failures'[k] \in Seq(0..MaxTime) /\ recorded'[k] \in Seq(0..MaxTime)
           /\ cooldownUntil'[k] \in 0..(MaxTime + Cooldown)
           /\ now' = now
           /\ \/ recorded'[k] = recorded[k] /\ cooldownUntil'[k] = cooldownUntil[k]
              \/ /\ cooldownUntil[k] <= now
                 /\ recorded'[k] = Append(recorded[k], now)
                 /\ cooldownUntil'[k] =
                       IF Cardinality({i \in DOMAIN recorded'[k] :
                              recorded'[k][i] > now - Window /\ recorded'[k][i] <= now})
                          >= MaxAttempts
                       THEN now + Cooldown ELSE cooldownUntil[k]
<1>1. /\ failures[k] \in Seq(Nat) /\ recorded[k] \in Seq(Nat) /\ cooldownUntil[k] \in Nat
      /\ recorded[k] \in Seq(0..MaxTime) /\ failures[k] \in Seq(0..MaxTime)
      /\ cooldownUntil[k] \in 0..(MaxTime + Cooldown)
      /\ now \in Nat /\ now \in 0..MaxTime /\ now' = now
      /\ RowHolds(recorded[k], failures[k], cooldownUntil[k], now)
  BY TimesAreNumbers, Constants DEF RInv, RowsTyped, Rows, Fail
<1>2. CASE k \notin KeysOf(r)
  <2>1. failures'[k] = failures[k] /\ recorded'[k] = recorded[k] /\ cooldownUntil'[k] = cooldownUntil[k]
    BY <1>2 DEF Fail
  <2> QED  BY <1>1, <2>1
<1>3. CASE k \in KeysOf(r)
  <2> DEFINE kept == Append(Kept(failures[k]), now)
             all == Append(recorded[k], now)
             until == IF Reached(kept) THEN now + Cooldown ELSE cooldownUntil[k]
  <2>1. failures'[k] = kept /\ recorded'[k] = all /\ cooldownUntil'[k] = until
    BY <1>3 DEF Fail
  <2>2. cooldownUntil[k] <= now
    BY <1>3 DEF RInv, IInv, AdmittedMayFail, Fail
  <2>3. /\ RowHolds(all, kept, until, now) /\ kept \in Seq(Nat)
        /\ Reached(kept)
           <=> Cardinality({i \in DOMAIN all : all[i] > now - Window /\ all[i] <= now})
               >= MaxAttempts
    BY <1>1, <2>2, RowCounts
  <2>4. all \in Seq(0..MaxTime)
    BY <1>1
  <2>5. until \in 0..(MaxTime + Cooldown)
    BY <1>1, Constants
  <2> HIDE DEF kept, all
  <2>6. kept \in Seq(0..MaxTime)
    <3>1. ASSUME NEW i \in 1..Len(kept) PROVE kept[i] \in 0..MaxTime
      <4>1. PICK n \in 0..Len(all) : Len(kept) = Len(all) - n
                                     /\ \A j \in 1..Len(kept) : kept[j] = all[n + j]
        BY <2>3 DEF RowHolds, Dropped
      <4>2. n + i \in 1..Len(all)
        BY <4>1, <2>4
      <4>3. all[n + i] \in 0..MaxTime
        BY <4>2, <2>4, ElementOfSeq
      <4> QED  BY <4>1, <4>3
    <3> QED  BY <3>1, <2>3, NumbersAreTimes
  <2>7. until = IF Cardinality({i \in DOMAIN all : all[i] > now - Window /\ all[i] <= now})
                   >= MaxAttempts
                THEN now + Cooldown ELSE cooldownUntil[k]
    BY <2>3
  <2> HIDE DEF until
  <2> QED  BY <1>1, <2>1, <2>2, <2>3, <2>4, <2>5, <2>6, <2>7 DEF all
<1> QED  BY <1>2, <1>3

\* What the other steps leave alone.
LEMMA OtherSteps ==
    ASSUME [Next]_vars
    PROVE  \/ \E r \in Requests : Fail(r)
           \/ UNCHANGED <<now, limits>>
           \/ Tick
  BY DEF Next, vars, Begin, LockScope, EnterBatch, RejectStranger, RejectCooldown, Admit,
         Finish, Abort

LEMMA StepRows == RInv /\ [Next]_vars => RowsTyped' /\ Rows'
<1> SUFFICES ASSUME RInv, [Next]_vars PROVE RowsTyped' /\ Rows'
  OBVIOUS
<1>1. CASE \E r \in Requests : Fail(r)
  <2>1. PICK r \in Requests : Fail(r)
    BY <1>1
  <2>2. /\ failures' = [k \in Keys |-> failures'[k]] /\ recorded' = [k \in Keys |-> recorded'[k]]
        /\ cooldownUntil' = [k \in Keys |-> cooldownUntil'[k]] /\ now' = now
    BY <2>1 DEF Fail
  <2>3. \A k \in Keys : /\ failures'[k] \in Seq(0..MaxTime) /\ recorded'[k] \in Seq(0..MaxTime)
                        /\ cooldownUntil'[k] \in 0..(MaxTime + Cooldown)
                        /\ RowHolds(recorded'[k], failures'[k], cooldownUntil'[k], now')
    BY <2>1, FailCounts
  <2> QED  BY <2>2, <2>3 DEF RInv, RowsTyped, Rows
<1>2. CASE UNCHANGED <<now, limits>>
  BY <1>2 DEF RInv, RowsTyped, Rows, limits
<1>3. CASE Tick
  <2>1. /\ now' = now + 1 /\ now < MaxTime /\ failures' = failures /\ recorded' = recorded
        /\ cooldownUntil' = cooldownUntil
    BY <1>3 DEF Tick, limits
  <2>2. \A k \in Keys : RowHolds(recorded[k], failures[k], cooldownUntil[k], now + 1)
    <3> TAKE k \in Keys
    <3>1. failures[k] \in Seq(Nat) /\ recorded[k] \in Seq(Nat) /\ now \in Nat
      BY TimesAreNumbers DEF RInv, RowsTyped
    <3> QED  BY <3>1, RowsAge DEF RInv, Rows
  <2>3. now' \in 0..MaxTime
    BY <2>1, Constants DEF RInv, RowsTyped
  <2> QED  BY <2>1, <2>2, <2>3 DEF RInv, RowsTyped, Rows
<1> QED  BY <1>1, <1>2, <1>3, OtherSteps

LEMMA RInvAlways == Spec => []RInv
<1>1. Init => RowsTyped /\ Rows
  <2> SUFFICES ASSUME Init PROVE RowsTyped /\ Rows
    OBVIOUS
  <2>1. /\ now = 0 /\ \A k \in Keys : failures[k] = <<>> /\ recorded[k] = <<>> /\ cooldownUntil[k] = 0
        /\ failures = [k \in Keys |-> <<>>] /\ recorded = [k \in Keys |-> <<>>]
        /\ cooldownUntil = [k \in Keys |-> 0]
    BY DEF Init
  <2>2. RowsTyped
    BY <2>1, Constants DEF RowsTyped
  <2>3. Rows
    BY <2>1, EmptyRows DEF Rows
  <2> QED  BY <2>2, <2>3
<1>2. (RowsTyped /\ Rows) /\ IInv /\ [Next]_vars => (RowsTyped /\ Rows)'
  BY StepRows DEF RInv
<1>3. Spec => [](RowsTyped /\ Rows)
  BY <1>1, <1>2, Inductive, PTL DEF Spec
<1>4. IInv /\ (RowsTyped /\ Rows) <=> RInv
  BY DEF RInv
<1> QED  BY <1>3, <1>4, Inductive, PTL

-----------------------------------------------------------------------------
(* The theorems about the rows.                                            *)

\* In every reachable state the rows, the history and the requests are well formed, the
\* cooldowns end within the bounds of the clock, and no row is locked by two requests.
THEOREM TypeCorrect == Spec => []TypeOK
<1>1. RInv => TypeOK
  BY DEF RInv, IInv, LocksOK, LocksExclude, RowsTyped, TypeOK, ReqRecord
<1> QED  BY <1>1, RInvAlways, PTL

LEMMA CountsOf ==
    ASSUME NEW k \in Keys, NEW times, NEW end, NEW width
    PROVE  Counter(k)!CountWithin(times, end, width)
           = Cardinality({i \in DOMAIN times : times[i] > end - width /\ times[i] <= end})
  BY DEF Counter!CountWithin, Counter!Cardinality, Cardinality

\* Every counter of a vendor, an address or a batch is the rolling limit that the
\* documentation promises, whatever requests share its row: the filter of failedAttempt
\* drops only failures that no later window can hold, and a failure is counted only after
\* the cooldown that the locked row has shown to vendorAccess.
THEOREM CountersAreRollingLimits == Spec => EveryCounterIsARollingLimit
<1>1. Init => \A k \in Keys : Counter(k)!Init
  BY DEF Init, Counter!Init
<1>2. RInv /\ [Next]_vars => \A k \in Keys : [Counter(k)!Next]_(Counter(k)!vars)
  <2> SUFFICES ASSUME RInv, [Next]_vars, NEW k \in Keys
               PROVE  Counter(k)!Next \/ UNCHANGED Counter(k)!vars
    OBVIOUS
  <2>1. CASE \E r \in Requests : Fail(r)
    <3>1. PICK r \in Requests : Fail(r)
      BY <2>1
    <3>2. CASE recorded'[k] = recorded[k] /\ cooldownUntil'[k] = cooldownUntil[k]
      <4>1. now' = now
        BY <3>1, FailCounts
      <4> QED  BY <3>2, <4>1 DEF Counter!vars
    <3>3. CASE ~(recorded'[k] = recorded[k] /\ cooldownUntil'[k] = cooldownUntil[k])
      <4>1. /\ now' = now /\ cooldownUntil[k] <= now
            /\ recorded'[k] = Append(recorded[k], now)
            /\ cooldownUntil'[k] =
                  IF Counter(k)!CountWithin(recorded'[k], now, Window) >= MaxAttempts
                  THEN now + Cooldown ELSE cooldownUntil[k]
        <5>1. /\ now' = now /\ cooldownUntil[k] <= now
              /\ recorded'[k] = Append(recorded[k], now)
              /\ cooldownUntil'[k] =
                    IF Cardinality({i \in DOMAIN recorded'[k] :
                           recorded'[k][i] > now - Window /\ recorded'[k][i] <= now})
                       >= MaxAttempts
                    THEN now + Cooldown ELSE cooldownUntil[k]
          BY <3>1, <3>3, FailCounts
        <5>2. Counter(k)!CountWithin(recorded'[k], now, Window)
              = Cardinality({i \in DOMAIN recorded'[k] :
                    recorded'[k][i] > now - Window /\ recorded'[k][i] <= now})
          BY CountsOf
        <5> QED  BY <5>1, <5>2
      <4>2. Counter(k)!Fail
        BY <4>1 DEF Counter!Fail
      <4> QED  BY <4>2 DEF Counter!Next
    <3> QED  BY <3>2, <3>3
  <2>2. CASE UNCHANGED <<now, limits>>
    BY <2>2 DEF limits, Counter!vars
  <2>3. CASE Tick
    <3>1. Counter(k)!Tick
      BY <2>3 DEF Tick, limits, Counter!Tick
    <3> QED  BY <3>1 DEF Counter!Next
  <2> QED  BY <2>1, <2>2, <2>3, OtherSteps
<1>3. RInv /\ [Next]_vars => [\A k \in Keys : [Counter(k)!Next]_(Counter(k)!vars)]_vars
  BY <1>2
<1> QED
  BY <1>1, <1>3, RInvAlways, PTL DEF Spec, EveryCounterIsARollingLimit

LEMMA TooClose ==
    ASSUME NEW first \in Nat, NEW second \in Nat, NEW last \in Nat, NEW end \in Nat,
           first > end - Width, second >= first + Width, second <= last, last <= end
    PROVE  FALSE
  BY Constants

LEMMA ThatMany ==
    ASSUME NEW first \in Nat
    PROVE  /\ IsFiniteSet(first..(first + MaxAttempts - 1))
           /\ Cardinality(first..(first + MaxAttempts - 1)) = MaxAttempts
<1>1. first + MaxAttempts - 1 \in Int /\ first <= first + MaxAttempts - 1
  BY Constants
<1> QED  BY <1>1, FS_Interval, Constants

\* For any vendors, addresses, batches and requests: nobody gets more than maxAttempts
\* wrong tries counted within a window, or within a cooldown if that is shorter, wherever
\* the window is laid.
THEOREM NoMoreThanMaxAttempts == Spec => []NeverMoreThanMaxAttempts
<1>1. ASSUME RInv, NEW k \in Keys, NEW end \in 0..now
      PROVE  Counter(k)!CountWithin(recorded[k], end, Width) <= MaxAttempts
  <2> DEFINE all == recorded[k]
             close == {i \in DOMAIN all : all[i] > end - Width /\ all[i] <= end}
  <2>1. all \in Seq(Nat) /\ RowHolds(all, failures[k], cooldownUntil[k], now) /\ end \in Nat
    BY <1>1, TimesAreNumbers DEF RInv, RowsTyped, Rows
  <2> HIDE DEF all
  <2>2. close \in SUBSET Nat /\ Len(all) \in Nat /\ DOMAIN all = 1..Len(all)
    BY <2>1
  <2>3. Cardinality(close) <= MaxAttempts
    <3>1. CASE close = {}
      BY <3>1, FS_EmptySet, Constants
    <3>2. CASE close # {}
      <4>1. PICK first \in close : \A i \in close : first <= i
        BY <2>2, <3>2, LeastElement
      <4>2. close \subseteq first..(first + MaxAttempts - 1)
        <5> SUFFICES ASSUME NEW i \in close, i >= first + MaxAttempts PROVE FALSE
          BY <2>2, <4>1, Constants
        <5> DEFINE j == first + MaxAttempts
        <5>1. /\ first \in 1..Len(all) /\ i \in 1..Len(all) /\ j \in 1..Len(all) /\ j <= i
              /\ all[first] \in Nat /\ all[i] \in Nat /\ all[j] \in Nat
          BY <2>1, <2>2, <4>1, Constants
        <5>2. all[j] <= all[i]
          BY <2>1, <5>1 DEF RowHolds, InOrder
        <5>3. all[j] >= all[first] + Width
          BY <2>1, <5>1 DEF RowHolds, Spaced
        <5>4. all[first] > end - Width /\ all[i] <= end
          BY <4>1
        <5> HIDE DEF j
        <5> QED  BY <2>1, <5>1, <5>2, <5>3, <5>4, TooClose
      <4>3. /\ IsFiniteSet(first..(first + MaxAttempts - 1))
            /\ Cardinality(first..(first + MaxAttempts - 1)) = MaxAttempts
        <5>1. first \in Nat
          BY <2>2, <4>1
        <5> QED  BY <5>1, ThatMany
      <4> QED  BY <4>2, <4>3, FS_Subset, FS_CardinalityType, Constants
    <3> QED  BY <3>1, <3>2
  <2> QED  BY <2>3, CountsOf DEF all
<1>2. RInv => NeverMoreThanMaxAttempts
  BY <1>1 DEF NeverMoreThanMaxAttempts, Width
<1> QED  BY <1>2, RInvAlways, PTL

=============================================================================
