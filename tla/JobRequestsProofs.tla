-------------------------- MODULE JobRequestsProofs --------------------------
(***************************************************************************)
(* The outbox and POST /jobs, for any number of workers, messages,         *)
(* attempts, clients and keys.  First the messages and their workers, then *)
(* the idempotency records.                                                *)
(***************************************************************************)
EXTENDS JobRequests, Files, FiniteSetTheorems, TLAPS

MessageRow == [status: {"absent", "pending", "processing", "processed", "dead_letter"},
               topic: {"none", "email.send", "job.created"},
               attempts: 0..MaxAttempts, due: BOOLEAN]
WorkerRow == [stage: {"idle", "locked", "claimed", "content", "uploaded",
                      "job_failing", "delivered", "failed"},
              message: Messages \cup {None}]

\* What a worker has in hand is in the state its stage says.
WorkerHolds(w) ==
    LET x == worker[w]  m == x.message IN
    IF x.stage = "idle" THEN m = None
    ELSE /\ m \in Messages
         /\ message[m].status = IF x.stage = "locked" THEN "pending" ELSE "processing"
         /\ x.stage \in {"content", "uploaded", "job_failing"} => message[m].topic = "job.created"
         /\ x.stage = "uploaded" => m \in artifact
         /\ x.stage = "delivered" <=> m \in acked
         /\ x.stage = "delivered" /\ message[m].topic = "job.created" =>
                job[m] = "completed" /\ m \in artifact

\* What has been acknowledged is not pending, and an attempt is left of what is.
MessageHolds(m) ==
    /\ message[m].status \in {"absent", "pending"} => m \notin acked
    /\ message[m].status = "pending" => message[m].attempts < MaxAttempts
    /\ message[m].status = "processed" =>
            /\ m \in acked
            /\ message[m].topic = "job.created" => job[m] = "completed" /\ m \in artifact
    /\ message[m].status = "dead_letter" =>
            message[m].attempts = MaxAttempts /\ m \notin acked

Apart == \A v, w \in Workers : v # w /\ worker[v].stage # "idle" =>
                                   worker[v].message # worker[w].message

OutboxInv ==
    /\ OutboxTypeOK
    /\ \A w \in Workers : WorkerHolds(w)
    /\ \A m \in Messages : MessageHolds(m)
    /\ Apart

-----------------------------------------------------------------------------
LEMMA OutboxInit_Inv == OutboxInit => OutboxInv
<1> SUFFICES ASSUME OutboxInit PROVE OutboxInv
  OBVIOUS
<1>1. NoMessage \in MessageRow /\ IdleWorker \in WorkerRow
  BY OutboxAssumption DEF NoMessage, IdleWorker, MessageRow, WorkerRow
<1>2. OutboxTypeOK
  BY <1>1 DEF OutboxInit, OutboxTypeOK, MessageRow, WorkerRow
<1> QED  BY <1>2 DEF OutboxInit, OutboxInv, WorkerHolds, MessageHolds, Apart, NoMessage, IdleWorker

\* A step about one message, by the worker that has it, or by one that has none, or by
\* nobody.
LEMMA OneMessage ==
    ASSUME OutboxInv, OutboxTypeOK', NEW m \in Messages, NEW moved \in SUBSET Workers,
           \A v, w \in moved : v = w,
           \A v \in Workers \ moved : worker'[v] = worker[v] /\ worker[v].message # m,
           \A w \in moved : worker'[w].message \in {m, None} /\ WorkerHolds(w)',
           \A k \in Messages \ {m} :
              /\ message'[k] = message[k] /\ job'[k] = job[k]
              /\ k \in artifact' <=> k \in artifact
              /\ k \in acked' <=> k \in acked,
           MessageHolds(m)'
    PROVE  OutboxInv'
<1>1. ASSUME NEW v \in Workers PROVE WorkerHolds(v)'
  BY DEF OutboxInv, WorkerHolds
<1>2. ASSUME NEW k \in Messages PROVE MessageHolds(k)'
  BY DEF OutboxInv, MessageHolds
<1>3. Apart'
  <2> SUFFICES ASSUME NEW v \in Workers, NEW w \in Workers, v # w, worker'[v].stage # "idle"
               PROVE  worker'[v].message # worker'[w].message
    BY DEF Apart
  <2>1. worker'[v].message \in Messages
    BY <1>1 DEF WorkerHolds
  <2>2. CASE v \in moved
    BY <2>1, <2>2, OutboxAssumption DEF Messages
  <2>3. CASE v \notin moved /\ w \in moved
    BY <2>1, <2>3, OutboxAssumption DEF Messages
  <2>4. CASE v \notin moved /\ w \notin moved
    BY <2>4 DEF OutboxInv, Apart
  <2> QED  BY <2>2, <2>3, <2>4
<1> QED  BY <1>1, <1>2, <1>3 DEF OutboxInv

\* The worker goes on with its message.
LEMMA WorkerGoes ==
    ASSUME OutboxInv, OutboxTypeOK', NEW w \in Workers, worker[w].stage # "idle", NEW x,
           NEW m, m = worker[w].message,
           worker' = [worker EXCEPT ![w] = x], x.message \in {m, None}, WorkerHolds(w)',
           \A k \in Messages \ {m} :
              /\ message'[k] = message[k] /\ job'[k] = job[k]
              /\ k \in artifact' <=> k \in artifact
              /\ k \in acked' <=> k \in acked,
           MessageHolds(m)'
    PROVE  OutboxInv'
<1>1. m \in Messages
  BY DEF OutboxInv, WorkerHolds
<1>2. \A v \in Workers \ {w} : worker'[v] = worker[v] /\ worker[v].message # m
  BY DEF OutboxInv, OutboxTypeOK, Apart
<1>3. worker'[w] = x
  BY DEF OutboxInv, OutboxTypeOK
<1> DEFINE moved == {w}
<1>4. /\ moved \in SUBSET Workers /\ \A v, u \in moved : v = u
      /\ \A v \in Workers \ moved : worker'[v] = worker[v] /\ worker[v].message # m
      /\ \A u \in moved : worker'[u].message \in {m, None} /\ WorkerHolds(u)'
  BY <1>2, <1>3
<1> HIDE DEF moved
<1> QED  BY <1>1, <1>4, OneMessage

\* Stages of a worker whose message stays as it is.
LEMMA StageOnly ==
    ASSUME OutboxInv, NEW w \in Workers, worker[w].stage # "idle", NEW x \in WorkerRow,
           worker' = [worker EXCEPT ![w] = x],
           x.message \in {worker[w].message, None}, WorkerHolds(w)',
           UNCHANGED <<message, job, artifact, acked>>,
           crashed' \subseteq Messages, unsaved' \subseteq Messages
    PROVE  OutboxInv'
<1>1. OutboxTypeOK'
  BY DEF OutboxInv, OutboxTypeOK, WorkerRow
<1>2. PICK m \in Messages : m = worker[w].message
  BY DEF OutboxInv, WorkerHolds
<1>3. MessageHolds(m)'
  BY DEF OutboxInv, MessageHolds
<1> QED  BY <1>1, <1>2, <1>3, WorkerGoes

LEMMA EnqueueStep ==
    ASSUME OutboxInv, NEW m \in Messages, NEW topic \in {"email.send", "job.created"},
           Enqueue(m, topic)
    PROVE  OutboxInv'
<1> DEFINE new == [status |-> "pending", topic |-> topic, attempts |-> 0, due |-> TRUE]
<1>1. new \in MessageRow
  BY OutboxAssumption DEF MessageRow
<1>2. /\ message' = [message EXCEPT ![m] = new] /\ UNCHANGED <<worker, artifact, acked>>
      /\ UNCHANGED <<crashed, unsaved>>
      /\ \A k \in Messages \ {m} : job'[k] = job[k]
  BY DEF Enqueue, OutboxInv, OutboxTypeOK
<1>3. OutboxTypeOK'
  BY <1>1, <1>2 DEF Enqueue, OutboxInv, OutboxTypeOK, MessageRow
<1>4. m \notin acked /\ \A v \in Workers : worker[v].message # m
  BY OutboxAssumption DEF Enqueue, OutboxInv, MessageHolds, WorkerHolds, Messages
<1>5. message'[m] = new /\ \A k \in Messages \ {m} : message'[k] = message[k]
  BY <1>2 DEF OutboxInv, OutboxTypeOK
<1>6. MessageHolds(m)'
  BY <1>2, <1>4, <1>5, OutboxAssumption DEF MessageHolds
<1> DEFINE moved == {}
<1>7. /\ moved \in SUBSET Workers /\ \A v, u \in moved : v = u
      /\ \A v \in Workers \ moved : worker'[v] = worker[v] /\ worker[v].message # m
      /\ \A u \in moved : worker'[u].message \in {m, None} /\ WorkerHolds(u)'
  BY <1>2, <1>4
<1> HIDE DEF moved, new
<1> QED  BY <1>2, <1>3, <1>5, <1>6, <1>7, OneMessage

LEMMA ComeDueStep ==
    ASSUME OutboxInv, NEW m \in Messages, ComeDue(m) PROVE OutboxInv'
<1> DEFINE new == [message[m] EXCEPT !.due = TRUE]
<1>1. /\ message' = [message EXCEPT ![m] = new]
      /\ UNCHANGED <<worker, job, artifact, acked, crashed, unsaved>>
  BY DEF ComeDue, OutboxInv, OutboxTypeOK
<1>2. message[m] \in MessageRow
  BY DEF OutboxInv, OutboxTypeOK, MessageRow
<1>3. /\ new \in MessageRow /\ new.status = message[m].status /\ new.topic = message[m].topic
      /\ new.attempts = message[m].attempts
  BY <1>2 DEF MessageRow
<1> HIDE DEF new
<1>4. OutboxTypeOK'
  BY <1>1, <1>3 DEF OutboxInv, OutboxTypeOK, MessageRow
<1>5. \A k \in Messages : /\ message'[k].status = message[k].status
                          /\ message'[k].topic = message[k].topic
                          /\ message'[k].attempts = message[k].attempts
  BY <1>1, <1>3 DEF OutboxInv, OutboxTypeOK
<1>6. \A w \in Workers : WorkerHolds(w)'
  BY <1>1, <1>5 DEF OutboxInv, WorkerHolds
<1>7. \A k \in Messages : MessageHolds(k)'
  BY <1>1, <1>5 DEF OutboxInv, MessageHolds
<1> QED  BY <1>1, <1>4, <1>6, <1>7 DEF OutboxInv, Apart

LEMMA ClaimSteps ==
    ASSUME OutboxInv, NEW w \in Workers,
           (\E m \in Messages : ClaimLock(w, m)) \/ ClaimCommit(w) \/ ClaimRollback(w)
    PROVE  OutboxInv'
<1>1. ASSUME NEW m \in Messages, ClaimLock(w, m) PROVE OutboxInv'
  <2> DEFINE x == [stage |-> "locked", message |-> m]
  <2>1. /\ worker' = [worker EXCEPT ![w] = x]
        /\ UNCHANGED <<message, job, artifact, acked, crashed, unsaved>>
        /\ message[m].status = "pending" /\ \A v \in Workers : ~LockedBy(v, m)
    BY <1>1 DEF ClaimLock, Claimable
  <2>2. OutboxTypeOK'
    BY <2>1 DEF OutboxInv, OutboxTypeOK
  <2>3. worker'[w] = x /\ \A v \in Workers \ {w} : worker'[v] = worker[v]
    BY <2>1 DEF OutboxInv, OutboxTypeOK
  <2>4. \A v \in Workers : worker[v].message # m
    BY <2>1, OutboxAssumption DEF OutboxInv, WorkerHolds, LockedBy, Messages
  <2>5. MessageHolds(m) /\ MessageHolds(m)'
    BY <2>1 DEF OutboxInv, MessageHolds
  <2>6. WorkerHolds(w)'
    BY <2>1, <2>3, <2>5 DEF WorkerHolds, MessageHolds
  <2> DEFINE moved == {w}
  <2>7. /\ moved \in SUBSET Workers /\ \A v, u \in moved : v = u
        /\ \A v \in Workers \ moved : worker'[v] = worker[v] /\ worker[v].message # m
        /\ \A u \in moved : worker'[u].message \in {m, None} /\ WorkerHolds(u)'
    BY <2>3, <2>4, <2>6
  <2> HIDE DEF moved, x
  <2> QED  BY <2>1, <2>2, <2>5, <2>7, OneMessage
<1>2. ASSUME ClaimCommit(w) PROVE OutboxInv'
  <2> PICK m \in Messages : m = worker[w].message
    BY <1>2 DEF ClaimCommit, OutboxInv, WorkerHolds
  <2> DEFINE x == [worker[w] EXCEPT !.stage = "claimed"]
             new == [message[m] EXCEPT !.status = "processing", !.attempts = message[m].attempts + 1]
  <2>1. /\ worker[w] \in WorkerRow /\ worker[w].stage = "locked" /\ m \in Messages
        /\ message[m] \in MessageRow /\ message[m].status = "pending"
        /\ message[m].attempts < MaxAttempts /\ m \notin acked
    BY <1>2 DEF ClaimCommit, OutboxInv, OutboxTypeOK, WorkerHolds, MessageHolds, MessageRow, WorkerRow
  <2>2. /\ worker' = [worker EXCEPT ![w] = x] /\ message' = [message EXCEPT ![m] = new]
        /\ UNCHANGED <<job, artifact, acked, crashed, unsaved>>
    BY <1>2, <2>1 DEF ClaimCommit, OutboxInv, OutboxTypeOK
  <2>3. x \in WorkerRow /\ x.stage = "claimed" /\ x.message = m
    BY <2>1 DEF WorkerRow
  <2>4. new \in MessageRow /\ new.status = "processing" /\ new.topic = message[m].topic
    <3>1. message[m].attempts + 1 \in 0..MaxAttempts
      BY <2>1, OutboxAssumption DEF MessageRow
    <3> QED  BY <2>1, <3>1 DEF MessageRow
  <2> HIDE DEF x, new
  <2>5. OutboxTypeOK'
    BY <2>1, <2>2, <2>3, <2>4 DEF OutboxInv, OutboxTypeOK, MessageRow, WorkerRow
  <2>6. /\ worker'[w] = x /\ message'[m] = new
        /\ \A k \in Messages \ {m} : message'[k] = message[k]
    BY <2>1, <2>2 DEF OutboxInv, OutboxTypeOK
  <2>7. WorkerHolds(w)' /\ MessageHolds(m)'
    BY <2>1, <2>2, <2>3, <2>4, <2>6 DEF WorkerHolds, MessageHolds
  <2> QED  BY <2>1, <2>2, <2>3, <2>5, <2>6, <2>7, WorkerGoes
<1>3. ASSUME ClaimRollback(w) PROVE OutboxInv'
  <2>1. /\ worker' = [worker EXCEPT ![w] = IdleWorker] /\ worker[w].stage = "locked"
        /\ UNCHANGED <<message, job, artifact, acked, crashed, unsaved>>
    BY <1>3 DEF ClaimRollback
  <2>2. IdleWorker \in WorkerRow /\ IdleWorker.message = None /\ IdleWorker.stage = "idle"
    BY DEF IdleWorker, WorkerRow
  <2>3. WorkerHolds(w)' /\ crashed' \subseteq Messages /\ unsaved' \subseteq Messages
    BY <2>1, <2>2 DEF WorkerHolds, OutboxInv, OutboxTypeOK
  <2> QED  BY <2>1, <2>2, <2>3, StageOnly
<1> QED  BY <1>1, <1>2, <1>3

\* Where a worker at work is.
LEMMA AtWork ==
    ASSUME OutboxInv, NEW w \in Workers, worker[w].stage \notin {"idle", "locked"}
    PROVE  \E m \in Messages :
              /\ m = worker[w].message /\ worker[w] \in WorkerRow
              /\ message[m] \in MessageRow /\ message[m].status = "processing"
BY DEF OutboxInv, OutboxTypeOK, WorkerHolds, MessageRow, WorkerRow

Stages == {"content", "uploaded", "job_failing", "delivered", "failed"}

LEMMA Goes ==
    ASSUME OutboxInv, NEW w \in Workers, NEW stage \in Stages, GoTo(w, stage)
    PROVE  \E x \in WorkerRow :
              /\ x.stage = stage /\ x.message = worker[w].message
              /\ worker' = [worker EXCEPT ![w] = x] /\ worker'[w] = x
<1> DEFINE x == [worker[w] EXCEPT !.stage = stage]
<1>1. worker[w] \in WorkerRow /\ worker \in [Workers -> WorkerRow]
  BY DEF OutboxInv, OutboxTypeOK, WorkerRow
<1>2. x \in WorkerRow /\ x.stage = stage /\ x.message = worker[w].message
  BY <1>1 DEF WorkerRow, Stages
<1>3. worker' = [worker EXCEPT ![w] = x]
  BY <1>1 DEF GoTo
<1> HIDE DEF x
<1> QED  BY <1>1, <1>2, <1>3

\* The worker goes on; what it does concerns its own message only.
LEMMA HandlerStep ==
    ASSUME OutboxInv, NEW w \in Workers, worker[w].stage \notin {"idle", "locked"},
           NEW stage \in Stages, GoTo(w, stage), NEW m \in Messages, m = worker[w].message,
           UNCHANGED <<message, crashed, unsaved>>,
           job' \in [Messages -> {"none", "queued", "processing", "completed", "failed"}],
           artifact' \subseteq Messages, acked' \subseteq Messages,
           \A k \in Messages \ {m} :
              /\ job'[k] = job[k]
              /\ k \in artifact' <=> k \in artifact
              /\ k \in acked' <=> k \in acked,
           stage \in {"content", "uploaded", "job_failing"} => message[m].topic = "job.created",
           stage = "uploaded" => m \in artifact',
           stage = "delivered" <=> m \in acked',
           stage = "delivered" /\ message[m].topic = "job.created" =>
                job'[m] = "completed" /\ m \in artifact'
    PROVE  OutboxInv'
<1>1. message[m].status = "processing"
  BY AtWork
<1>2. PICK x \in WorkerRow :
         /\ x.stage = stage /\ x.message = worker[w].message
         /\ worker' = [worker EXCEPT ![w] = x] /\ worker'[w] = x
  BY Goes
<1>3. OutboxTypeOK'
  BY <1>2 DEF OutboxInv, OutboxTypeOK, WorkerRow
<1>4. WorkerHolds(w)'
  BY <1>1, <1>2 DEF WorkerHolds, Stages
<1>5. MessageHolds(m)'
  BY <1>1 DEF MessageHolds
<1> QED  BY <1>2, <1>3, <1>4, <1>5, WorkerGoes

LEMMA HandlerSteps ==
    ASSUME OutboxInv, NEW w \in Workers,
           \/ SendOk(w) \/ SendError(w) \/ JobStart(w) \/ Upload(w)
           \/ \E stored \in BOOLEAN : UploadError(w, stored)
           \/ JobComplete(w) \/ JobCompleteError(w) \/ JobFail(w) \/ JobSaveError(w)
    PROVE  OutboxInv'
<1>1. worker[w].stage \in {"claimed", "content", "uploaded", "job_failing"}
  BY DEF SendOk, SendError, JobStart, Upload, UploadError, JobComplete, JobCompleteError,
         JobFail, JobSaveError, Handles
<1>2. PICK m \in Messages :
         /\ m = worker[w].message /\ worker[w] \in WorkerRow
         /\ message[m] \in MessageRow /\ message[m].status = "processing"
  BY <1>1, AtWork
<1>3. /\ m \notin acked
      /\ worker[w].stage # "claimed" => message[m].topic = "job.created"
      /\ worker[w].stage = "uploaded" => m \in artifact
  BY <1>1, <1>2 DEF OutboxInv, WorkerHolds
<1>4. /\ job \in [Messages -> {"none", "queued", "processing", "completed", "failed"}]
      /\ artifact \subseteq Messages /\ acked \subseteq Messages
  BY DEF OutboxInv, OutboxTypeOK
<1>5. CASE SendOk(w)
  <2>1. /\ message[m].topic = "email.send" /\ acked' = acked \cup {m} /\ GoTo(w, "delivered")
        /\ UNCHANGED <<message, job, artifact, crashed, unsaved>>
    BY <1>2, <1>5 DEF SendOk, Handles
  <2> QED  BY <1>1, <1>2, <1>4, <2>1, HandlerStep DEF Stages
<1>6. CASE SendError(w) \/ JobCompleteError(w) \/ JobSaveError(w)
  <2>1. PICK stage \in {"failed", "job_failing"} :
           /\ GoTo(w, stage) /\ UNCHANGED <<message, job, artifact, acked, crashed, unsaved>>
           /\ stage = "job_failing" => message[m].topic = "job.created"
    BY <1>2, <1>3, <1>6 DEF SendError, JobCompleteError, JobSaveError, Handles
  <2> QED  BY <1>1, <1>2, <1>3, <1>4, <2>1, HandlerStep DEF Stages
<1>7. CASE JobStart(w) \/ JobFail(w)
  <2>1. PICK stage \in {"failed", "content"}, status \in {"processing", "failed"} :
           /\ GoTo(w, stage) /\ job' = [job EXCEPT ![m] = status]
           /\ UNCHANGED <<message, artifact, acked, crashed, unsaved>>
           /\ message[m].topic = "job.created"
    BY <1>2, <1>3, <1>7 DEF JobStart, JobFail, Handles
  <2>2. /\ job' \in [Messages -> {"none", "queued", "processing", "completed", "failed"}]
        /\ \A k \in Messages \ {m} : job'[k] = job[k]
    BY <1>4, <2>1
  <2> QED  BY <1>1, <1>2, <1>3, <1>4, <2>1, <2>2, HandlerStep DEF Stages
<1>8. CASE Upload(w) \/ \E stored \in BOOLEAN : UploadError(w, stored)
  <2>1. PICK stage \in {"uploaded", "job_failing"} :
           /\ GoTo(w, stage) /\ UNCHANGED <<message, job, acked, crashed, unsaved>>
           /\ artifact' \in {artifact, artifact \cup {m}}
           /\ stage = "uploaded" => m \in artifact'
           /\ message[m].topic = "job.created"
    BY <1>2, <1>3, <1>8 DEF Upload, UploadError
  <2> QED  BY <1>1, <1>2, <1>3, <1>4, <2>1, HandlerStep DEF Stages
<1>9. CASE JobComplete(w)
  <2>1. /\ job' = [job EXCEPT ![m] = "completed"] /\ acked' = acked \cup {m}
        /\ GoTo(w, "delivered") /\ UNCHANGED <<message, artifact, crashed, unsaved>>
        /\ m \in artifact
    BY <1>2, <1>3, <1>9 DEF JobComplete
  <2>2. /\ job' \in [Messages -> {"none", "queued", "processing", "completed", "failed"}]
        /\ job'[m] = "completed" /\ \A k \in Messages \ {m} : job'[k] = job[k]
    BY <1>4, <2>1
  <2> QED  BY <1>1, <1>2, <1>3, <1>4, <2>1, <2>2, HandlerStep DEF Stages
<1> QED  BY <1>5, <1>6, <1>7, <1>8, <1>9

LEMMA EndSteps ==
    ASSUME OutboxInv, NEW w \in Workers, Settle(w) \/ SettleError(w) \/ Crash(w)
    PROVE  OutboxInv'
<1>1. worker[w].stage \notin {"idle", "locked"}
  BY DEF Settle, SettleError, Crash
<1>2. PICK m \in Messages :
         /\ m = worker[w].message /\ worker[w] \in WorkerRow
         /\ message[m] \in MessageRow /\ message[m].status = "processing"
  BY <1>1, AtWork
<1>3. IdleWorker \in WorkerRow /\ IdleWorker.message = None /\ IdleWorker.stage = "idle"
  BY DEF IdleWorker, WorkerRow
<1>4. worker' = [worker EXCEPT ![w] = IdleWorker] /\ UNCHANGED <<job, artifact, acked>>
  BY DEF Settle, SettleError, Crash
<1>5. WorkerHolds(w)'
  BY <1>3, <1>4 DEF WorkerHolds, OutboxInv, OutboxTypeOK
<1>6. CASE SettleError(w) \/ Crash(w)
  <2>1. UNCHANGED message /\ crashed' \subseteq Messages /\ unsaved' \subseteq Messages
    BY <1>2, <1>6 DEF SettleError, Crash, OutboxInv, OutboxTypeOK
  <2> QED  BY <1>1, <1>3, <1>4, <1>5, <2>1, StageOnly
<1>7. CASE Settle(w)
  <2> DEFINE new == Outcome(message[m], worker[w].stage)
  <2>1. /\ message' = [message EXCEPT ![m] = new] /\ UNCHANGED <<crashed, unsaved>>
        /\ worker[w].stage \in {"delivered", "failed"}
    BY <1>2, <1>7 DEF Settle, OutboxInv, OutboxTypeOK
  <2>2. /\ new \in MessageRow /\ new.topic = message[m].topic /\ new.attempts = message[m].attempts
        /\ worker[w].stage = "delivered" => new.status = "processed"
        /\ worker[w].stage # "delivered" =>
              \/ new.status = "dead_letter" /\ new.attempts >= MaxAttempts
              \/ new.status = "pending" /\ ~(new.attempts >= MaxAttempts)
    BY <1>2 DEF Outcome, MessageRow
  <2>3. new.attempts \in Nat /\ new.attempts <= MaxAttempts /\ MaxAttempts \in Nat
    BY <2>2, OutboxAssumption DEF MessageRow
  <2> HIDE DEF new
  <2>4. /\ message'[m] = new /\ \A k \in Messages \ {m} : message'[k] = message[k]
    BY <2>1 DEF OutboxInv, OutboxTypeOK
  <2>5. OutboxTypeOK'
    BY <1>3, <1>4, <2>1, <2>2 DEF OutboxInv, OutboxTypeOK, MessageRow, WorkerRow
  <2>6. /\ worker[w].stage = "delivered" <=> m \in acked
        /\ worker[w].stage = "delivered" /\ message[m].topic = "job.created" =>
                job[m] = "completed" /\ m \in artifact
    BY <1>1, <1>2 DEF OutboxInv, WorkerHolds
  <2>7. MessageHolds(m)'
    BY <1>4, <2>2, <2>3, <2>4, <2>6 DEF MessageHolds
  <2> QED  BY <1>1, <1>2, <1>3, <1>4, <1>5, <2>4, <2>5, <2>7, WorkerGoes
<1> QED  BY <1>6, <1>7

LEMMA OutboxStep == OutboxInv /\ (OutboxNext \/ UNCHANGED outboxVars) => OutboxInv'
<1> SUFFICES ASSUME OutboxInv, OutboxNext \/ UNCHANGED outboxVars PROVE OutboxInv'
  OBVIOUS
<1>1. ASSUME NEW w \in Workers, WorkerStep(w) \/ WorkerFault(w) PROVE OutboxInv'
  BY <1>1, ClaimSteps, HandlerSteps, EndSteps DEF WorkerStep, WorkerFault
<1>2. ASSUME NEW m \in Messages, ComeDue(m) \/ Enqueue(m, "email.send") PROVE OutboxInv'
  BY <1>2, ComeDueStep, EnqueueStep
<1>3. CASE UNCHANGED outboxVars
  BY <1>3 DEF outboxVars, OutboxInv, OutboxTypeOK, WorkerHolds, MessageHolds, Apart
<1> QED  BY <1>1, <1>2, <1>3 DEF OutboxNext

-----------------------------------------------------------------------------
(* The records.                                                            *)

RecordRow == [status: {"absent", "processing", "completed"}, job: Messages \cup {None}]
ClientRow == [stage: {"idle", "insert", "work", "complete", "undo"},
              key: Keys \cup {None}, job: Messages \cup {None}]

RequestType ==
    /\ record \in [Keys -> RecordRow]
    /\ request \in [Clients -> ClientRow]
    /\ created \in [Keys -> SUBSET Messages]
    /\ answers \in [Keys -> SUBSET Messages]
    /\ undone \subseteq Keys

Owning == {c \in Clients : request[c].stage \in {"work", "complete", "undo"}}

\* A request that inserted the record has it to itself, and knows the jobs of the key.
RequestHolds(c) ==
    LET r == request[c]  k == r.key IN
    /\ r.stage # "idle" => k \in Keys
    /\ r.stage \in {"insert", "work"} => r.job = None
    /\ c \in Owning => record[k].status = "processing"
    /\ r.stage = "complete" => r.job \in created[k]
    /\ c \in Owning /\ k \notin undone => created[k] = {r.job} \ {None}

OwnersApart == \A c, d \in Owning : c # d => request[c].key # request[d].key

\* Answers name the job of the completed record, and nothing is left of a key whose record
\* was deleted before there was a job.
KeyHolds(k) ==
    /\ answers[k] # {} => record[k].status = "completed"
    /\ record[k].status = "completed" =>
          record[k].job \in created[k] /\ answers[k] \subseteq {record[k].job}
    /\ k \notin undone =>
          /\ record[k].status = "absent" => created[k] = {}
          /\ \A m, n \in created[k] : m = n

RecordInv ==
    /\ RequestType
    /\ \A c \in Clients : RequestHolds(c)
    /\ OwnersApart
    /\ \A k \in Keys : KeyHolds(k)

LEMMA RecordInit == Init => RecordInv
<1> SUFFICES ASSUME Init PROVE RecordInv
  OBVIOUS
<1>1. NoRecord \in RecordRow /\ NoRequest \in ClientRow
  BY DEF NoRecord, NoRequest, RecordRow, ClientRow
<1>2. RequestType
  BY <1>1 DEF Init, RequestType
<1>3. Owning = {}
  BY DEF Init, NoRequest, Owning
<1> QED  BY <1>2, <1>3
         DEF Init, RecordInv, RequestHolds, OwnersApart, KeyHolds, NoRecord, NoRequest

\* A request that ends is the owner of nothing.
LEMMA EndsAlone ==
    ASSUME RecordInv, NEW c \in Clients, request' = [request EXCEPT ![c] = NoRequest]
    PROVE  /\ request' \in [Clients -> ClientRow]
           /\ Owning' = Owning \ {c} /\ Owning \subseteq Clients
           /\ request'[c] = NoRequest /\ \A d \in Clients \ {c} : request'[d] = request[d]
<1>1. NoRequest \in ClientRow /\ NoRequest.stage = "idle"
  BY DEF NoRequest, ClientRow
<1> QED  BY <1>1 DEF RecordInv, RequestType, Owning

LEMMA RequestEnds ==
    ASSUME RecordInv, NEW c \in Clients, request' = [request EXCEPT ![c] = NoRequest],
           UNCHANGED <<record, created, answers, undone>>
    PROVE  RecordInv'
<1>1. /\ request' \in [Clients -> ClientRow]
      /\ Owning' = Owning \ {c} /\ Owning \subseteq Clients
      /\ request'[c] = NoRequest /\ \A d \in Clients \ {c} : request'[d] = request[d]
  BY EndsAlone
<1>2. RequestType'
  BY <1>1 DEF RecordInv, RequestType
<1>3. RequestHolds(c)'
  BY <1>1 DEF RequestHolds, NoRequest
<1>4. ASSUME NEW d \in Clients \ {c} PROVE RequestHolds(d)'
  BY <1>1 DEF RecordInv, RequestHolds
<1>5. OwnersApart'
  BY <1>1 DEF RecordInv, OwnersApart
<1>6. \A k \in Keys : KeyHolds(k)'
  BY DEF RecordInv, KeyHolds
<1> QED  BY <1>2, <1>3, <1>4, <1>5, <1>6 DEF RecordInv

LEMMA FindStep ==
    ASSUME RecordInv, NEW c \in Clients, NEW k \in Keys, Find(c, k) PROVE RecordInv'
<1> DEFINE new == [stage |-> "insert", key |-> k, job |-> None]
<1>1. UNCHANGED <<record, created, undone>> /\ request[c].stage = "idle"
  BY DEF Find
<1>2. request' \in {request, [request EXCEPT ![c] = new]}
  BY DEF Find
<1>3. new \in ClientRow
  BY DEF ClientRow
<1>4. \/ request'[c] = request[c]
      \/ request'[c] = new
  BY <1>2 DEF RecordInv, RequestType
<1>5. \A d \in Clients \ {c} : request'[d] = request[d]
  BY <1>2 DEF RecordInv, RequestType
<1>6. Owning' = Owning /\ c \notin Owning /\ Owning \subseteq Clients
  BY <1>1, <1>4, <1>5 DEF Owning
<1>7. \/ UNCHANGED answers
      \/ /\ record[k].status = "completed" /\ record[k].job \in Messages
         /\ answers' = [answers EXCEPT ![k] = answers[k] \cup {record[k].job}]
  <2>1. record[k].status = "completed" => record[k].job \in Messages
    BY DEF RecordInv, RequestType, KeyHolds
  <2> QED  BY <2>1 DEF Find
<1>8. RequestType'
  BY <1>1, <1>2, <1>3, <1>7 DEF RecordInv, RequestType
<1>9. \A d \in Clients : RequestHolds(d)'
  BY <1>1, <1>4, <1>5, <1>6 DEF RecordInv, RequestHolds
<1>10. \A j \in Keys : KeyHolds(j)'
  BY <1>1, <1>7 DEF RecordInv, KeyHolds, RequestType
<1>11. OwnersApart'
  BY <1>5, <1>6 DEF RecordInv, OwnersApart
<1> QED  BY <1>8, <1>9, <1>10, <1>11 DEF RecordInv

LEMMA InsertStep ==
    ASSUME RecordInv, NEW c \in Clients, Insert(c) PROVE RecordInv'
<1> PICK k \in Keys : k = request[c].key
  BY DEF Insert, RecordInv, RequestHolds
<1>1. /\ UNCHANGED <<created, answers, undone>> /\ request[c].stage = "insert"
      /\ request[c].job = None /\ request[c] \in ClientRow
  BY DEF Insert, RecordInv, RequestHolds, RequestType
<1>2. CASE MayInsert(k)
  <2> DEFINE entry == [status |-> "processing", job |-> None]
             new == [request[c] EXCEPT !.stage = "work"]
  <2>1. /\ record' = [record EXCEPT ![k] = entry] /\ request' = [request EXCEPT ![c] = new]
        /\ record[k].status = "absent"
    BY <1>2 DEF Insert, MayInsert, RecordInv, RequestType
  <2>2. /\ new \in ClientRow /\ new.stage = "work" /\ new.key = k /\ new.job = None
        /\ entry \in RecordRow
    BY <1>1 DEF ClientRow, RecordRow
  <2> HIDE DEF new
  <2>3. RequestType'
    BY <1>1, <2>1, <2>2 DEF RecordInv, RequestType
  <2>4. /\ request'[c] = new /\ \A d \in Clients \ {c} : request'[d] = request[d]
        /\ record'[k] = entry /\ \A j \in Keys \ {k} : record'[j] = record[j]
        /\ Owning' = Owning \cup {c}
    BY <1>1, <2>1, <2>2 DEF RecordInv, RequestType, Owning
  <2>5. \A d \in Owning : request[d].key # k
    BY <2>1 DEF RecordInv, RequestHolds, Owning
  <2>6. RequestHolds(c)'
    BY <1>1, <2>1, <2>2, <2>4 DEF RecordInv, RequestHolds, KeyHolds
  <2>7. ASSUME NEW d \in Clients \ {c} PROVE RequestHolds(d)'
    <3>1. d \in Owning' <=> d \in Owning
      BY <2>4
    <3>2. RequestHolds(d) /\ request'[d] = request[d]
      BY <2>4 DEF RecordInv
    <3> QED  BY <1>1, <2>4, <2>5, <3>1, <3>2 DEF RequestHolds, Owning
  <2>8. OwnersApart'
    BY <2>2, <2>4, <2>5 DEF RecordInv, OwnersApart, Owning
  <2>9. \A j \in Keys : KeyHolds(j)'
    BY <1>1, <2>1, <2>4 DEF RecordInv, KeyHolds
  <2> QED  BY <2>3, <2>6, <2>7, <2>8, <2>9 DEF RecordInv
<1>3. CASE ~MayInsert(k)
  <2>1. UNCHANGED record /\ request' = [request EXCEPT ![c] = NoRequest]
    BY <1>3 DEF Insert
  <2> QED  BY <1>1, <2>1, RequestEnds
<1> QED  BY <1>2, <1>3

\* An owner goes on; nobody else is concerned with its key.
LEMMA OwnerGoes ==
    ASSUME RecordInv, NEW c \in Owning, NEW new \in ClientRow, NEW k \in Keys,
           k = request[c].key, request' = [request EXCEPT ![c] = new],
           new.stage \in {"complete", "undo"}, new.key = k,
           RequestType', UNCHANGED <<record, answers, undone>>,
           \A j \in Keys \ {k} : created'[j] = created[j],
           RequestHolds(c)', KeyHolds(k)'
    PROVE  RecordInv'
<1>1. c \in Clients
  BY DEF Owning
<1>2. /\ request'[c] = new /\ \A d \in Clients \ {c} : request'[d] = request[d]
      /\ Owning' = Owning /\ Owning \subseteq Clients
  BY <1>1 DEF RecordInv, RequestType, Owning
<1>3. ASSUME NEW d \in Clients \ {c} PROVE RequestHolds(d)'
  <2>1. request'[d] = request[d] /\ RequestHolds(d) /\ (d \in Owning' <=> d \in Owning)
    BY <1>2 DEF RecordInv
  <2>2. CASE d \in Owning
    <3>1. request[d].key \in Keys \ {k}
      BY <2>1, <2>2 DEF RecordInv, OwnersApart, RequestHolds, Owning
    <3> QED  BY <2>1, <2>2, <3>1 DEF RequestHolds
  <2>3. CASE d \notin Owning
    <3>1. request[d].stage # "complete"
      BY <2>3 DEF Owning
    <3> QED  BY <2>1, <2>3, <3>1 DEF RequestHolds
  <2> QED  BY <2>2, <2>3
<1>4. OwnersApart'
  BY <1>2 DEF RecordInv, OwnersApart
<1>5. ASSUME NEW j \in Keys \ {k} PROVE KeyHolds(j)'
  BY DEF RecordInv, KeyHolds
<1> QED  BY <1>1, <1>3, <1>4, <1>5 DEF RecordInv

LEMMA WorkStep ==
    ASSUME RecordInv, NEW c \in Clients, NEW m \in Messages, Work(c, m) PROVE RecordInv'
<1> PICK k \in Keys : k = request[c].key
  BY DEF Work, RecordInv, RequestHolds
<1> DEFINE new == [request[c] EXCEPT !.stage = "complete", !.job = m]
<1>1. /\ c \in Owning /\ request[c] \in ClientRow /\ RequestHolds(c) /\ KeyHolds(k)
      /\ request[c].job = None /\ request[c].stage = "work"
  BY DEF Work, Owning, RecordInv, RequestType, RequestHolds
<1>2. /\ request' = [request EXCEPT ![c] = new] /\ UNCHANGED <<record, answers, undone>>
      /\ created' = [created EXCEPT ![k] = created[k] \cup {m}]
  BY DEF Work, RecordInv, RequestType
<1>3. new \in ClientRow /\ new.stage = "complete" /\ new.key = k /\ new.job = m
  BY <1>1 DEF ClientRow
<1> HIDE DEF new
<1>4. RequestType'
  BY <1>2, <1>3 DEF RecordInv, RequestType
<1>5. /\ request'[c] = new /\ created'[k] = created[k] \cup {m}
      /\ \A j \in Keys \ {k} : created'[j] = created[j]
  BY <1>2 DEF RecordInv, RequestType
<1>6. record[k].status = "processing" /\ (k \notin undone => created[k] = {})
  BY <1>1 DEF RequestHolds
<1>7. m # None
  BY OutboxAssumption DEF Messages
<1>8. RequestHolds(c)'
  BY <1>2, <1>3, <1>5, <1>6, <1>7 DEF RequestHolds
<1>9. KeyHolds(k)'
  BY <1>1, <1>2, <1>5, <1>6 DEF KeyHolds
<1> QED  BY <1>1, <1>2, <1>3, <1>4, <1>5, <1>8, <1>9, OwnerGoes

LEMMA ErrorSteps ==
    ASSUME RecordInv, NEW c \in Clients, WorkError(c) \/ CompleteError(c) PROVE RecordInv'
<1> PICK k \in Keys : k = request[c].key
  BY DEF WorkError, CompleteError, RecordInv, RequestHolds
<1> DEFINE new == [request[c] EXCEPT !.stage = "undo"]
<1>1. /\ c \in Owning /\ request[c] \in ClientRow /\ RequestHolds(c) /\ KeyHolds(k)
  BY DEF WorkError, CompleteError, Owning, RecordInv, RequestType
<1>2. /\ request' = [request EXCEPT ![c] = new] /\ UNCHANGED <<record, created, answers, undone>>
  BY DEF WorkError, CompleteError, RecordInv, RequestType
<1>3. new \in ClientRow /\ new.stage = "undo" /\ new.key = k /\ new.job = request[c].job
  BY <1>1 DEF ClientRow
<1> HIDE DEF new
<1>4. RequestType'
  BY <1>2, <1>3 DEF RecordInv, RequestType
<1>5. request'[c] = new
  BY <1>2 DEF RecordInv, RequestType
<1>6. RequestHolds(c)'
  BY <1>1, <1>2, <1>3, <1>5 DEF RequestHolds
<1>7. KeyHolds(k)'
  BY <1>1, <1>2 DEF KeyHolds
<1> QED  BY <1>1, <1>2, <1>3, <1>4, <1>6, <1>7, OwnerGoes

\* The record of the owner changes, and it owns it no more.
LEMMA OwnerEnds ==
    ASSUME RecordInv, NEW c \in Owning, NEW k \in Keys, k = request[c].key,
           request' = [request EXCEPT ![c] = NoRequest], RequestType', UNCHANGED created,
           \A j \in Keys \ {k} :
              /\ record'[j] = record[j] /\ answers'[j] = answers[j]
              /\ j \in undone' <=> j \in undone,
           KeyHolds(k)'
    PROVE  RecordInv'
<1>1. /\ Owning' = Owning \ {c} /\ Owning \subseteq Clients /\ c \in Clients
      /\ request'[c] = NoRequest /\ \A d \in Clients \ {c} : request'[d] = request[d]
  BY EndsAlone DEF Owning
<1>2. RequestHolds(c)'
  BY <1>1 DEF RequestHolds, NoRequest
<1>3. ASSUME NEW d \in Clients \ {c} PROVE RequestHolds(d)'
  <2>1. request'[d] = request[d] /\ RequestHolds(d) /\ (d \in Owning' <=> d \in Owning)
    BY <1>1 DEF RecordInv
  <2>2. CASE d \in Owning
    <3>1. request[d].key \in Keys \ {k}
      BY <1>1, <2>1, <2>2 DEF RecordInv, OwnersApart, RequestHolds, Owning
    <3> QED  BY <2>1, <2>2, <3>1 DEF RequestHolds
  <2>3. CASE d \notin Owning
    BY <2>1, <2>3 DEF RequestHolds
  <2> QED  BY <2>2, <2>3
<1>4. OwnersApart'
  BY <1>1 DEF RecordInv, OwnersApart
<1>5. ASSUME NEW j \in Keys \ {k} PROVE KeyHolds(j)'
  BY DEF RecordInv, KeyHolds
<1> QED  BY <1>1, <1>2, <1>3, <1>4, <1>5 DEF RecordInv

LEMMA CompleteStep ==
    ASSUME RecordInv, NEW c \in Clients, Complete(c) PROVE RecordInv'
<1> PICK k \in Keys : k = request[c].key
  BY DEF Complete, RecordInv, RequestHolds
<1> DEFINE m == request[c].job  entry == [status |-> "completed", job |-> m]
<1>1. /\ c \in Owning /\ RequestHolds(c) /\ KeyHolds(k) /\ request[c].stage = "complete"
      /\ m \in created[k] /\ record[k].status = "processing" /\ answers[k] = {}
  BY DEF Complete, Owning, RecordInv, RequestHolds, KeyHolds
<1>2. m \in Messages /\ entry \in RecordRow
  BY <1>1 DEF RecordInv, RequestType, RecordRow
<1>3. /\ record' = [record EXCEPT ![k] = entry] /\ answers' = [answers EXCEPT ![k] = answers[k] \cup {m}]
      /\ request' = [request EXCEPT ![c] = NoRequest] /\ UNCHANGED <<created, undone>>
  BY DEF Complete, RecordInv, RequestType
<1>4. RequestType'
  BY <1>2, <1>3, EndsAlone DEF RecordInv, RequestType
<1>5. KeyHolds(k)'
  BY <1>1, <1>2, <1>3 DEF RecordInv, RequestType, KeyHolds
<1>6. \A j \in Keys \ {k} : record'[j] = record[j] /\ answers'[j] = answers[j]
  BY <1>3 DEF RecordInv, RequestType
<1> QED  BY <1>1, <1>3, <1>4, <1>5, <1>6, OwnerEnds

LEMMA UndoStep ==
    ASSUME RecordInv, NEW c \in Clients, Undo(c) PROVE RecordInv'
<1> PICK k \in Keys : k = request[c].key
  BY DEF Undo, RecordInv, RequestHolds
<1>1. /\ c \in Owning /\ RequestHolds(c) /\ KeyHolds(k) /\ record[k].status = "processing"
  BY DEF Undo, Owning, RecordInv, RequestHolds
<1>2. /\ record' = [record EXCEPT ![k] = NoRecord] /\ UNCHANGED <<created, answers>>
      /\ request' = [request EXCEPT ![c] = NoRequest]
      /\ undone' = IF request[c].job # None THEN undone \cup {k} ELSE undone
  BY DEF Undo
<1>3. NoRecord \in RecordRow /\ NoRecord.status = "absent"
  BY DEF NoRecord, RecordRow
<1>4. RequestType'
  BY <1>2, <1>3, EndsAlone DEF RecordInv, RequestType
<1>5. answers[k] = {} /\ (k \notin undone' => created[k] = {})
  BY <1>1, <1>2 DEF RequestHolds, KeyHolds
<1>6. KeyHolds(k)'
  BY <1>2, <1>3, <1>5 DEF RecordInv, RequestType, KeyHolds
<1>7. \A j \in Keys \ {k} : /\ record'[j] = record[j] /\ answers'[j] = answers[j]
                            /\ j \in undone' <=> j \in undone
  BY <1>2 DEF RecordInv, RequestType
<1> QED  BY <1>1, <1>2, <1>4, <1>6, <1>7, OwnerEnds

LEMMA RecordStep == RecordInv /\ [Next]_vars => RecordInv'
<1> SUFFICES ASSUME RecordInv, [Next]_vars PROVE RecordInv'
  OBVIOUS
<1>1. ASSUME NEW c \in Clients,
             \/ \E k \in Keys : Find(c, k)
             \/ Insert(c) \/ (\E m \in Messages : Work(c, m)) \/ WorkError(c) \/ Complete(c)
             \/ CompleteError(c) \/ Undo(c) \/ Stop(c)
      PROVE  RecordInv'
  <2>1. CASE Stop(c)
    BY <2>1, RequestEnds DEF Stop
  <2> QED  BY <1>1, <2>1, FindStep, InsertStep, WorkStep, ErrorSteps, CompleteStep, UndoStep
<1>2. CASE UNCHANGED requestVars
  BY <1>2 DEF requestVars, RecordInv, RequestType, RequestHolds, OwnersApart, KeyHolds, Owning
<1> QED  BY <1>1, <1>2 DEF Next, RequestNext, vars

-----------------------------------------------------------------------------
LEMMA OutboxStepInNext == OutboxInv /\ [Next]_vars => OutboxInv'
<1>1. ASSUME NEW c \in Clients, NEW m \in Messages, Work(c, m), OutboxInv PROVE OutboxInv'
  BY <1>1, EnqueueStep DEF Work
<1>2. ASSUME RequestNext PROVE UNCHANGED outboxVars \/ \E c \in Clients, m \in Messages : Work(c, m)
  BY <1>2 DEF RequestNext, Find, Insert, WorkError, Complete, CompleteError, Undo, Stop
<1> QED  BY <1>1, <1>2, OutboxStep DEF Next, vars

IInv == OutboxInv /\ RecordInv

LEMMA IInvAlways == Spec => []IInv
<1>1. Init => IInv
  BY OutboxInit_Inv, RecordInit DEF Init, IInv
<1>2. IInv /\ [Next]_vars => IInv'
  BY OutboxStepInNext, RecordStep DEF IInv
<1> QED  BY <1>1, <1>2, PTL DEF Spec

\* Every variable stays in its type; in particular no message is ever tried more often than
\* MaxAttempts.
THEOREM TypeCorrect == Spec => []TypeOK
<1>1. IInv => TypeOK
  BY DEF IInv, OutboxInv, RecordInv, RequestType, RecordRow, ClientRow, TypeOK
<1> QED  BY <1>1, IInvAlways, PTL

\* However many instances poll the outbox, crash and fail to save, no message is ever in
\* the hands of two of them.
THEOREM MessagesAreNotShared == Spec => []OneWorkerPerMessage
<1>1. ASSUME IInv PROVE OneWorkerPerMessage
  <2> SUFFICES ASSUME NEW v \in Workers, NEW w \in Workers, worker[v].stage # "idle",
                      worker[v].message = worker[w].message
               PROVE  /\ v = w
                      /\ message[worker[v].message].status =
                              IF worker[v].stage = "locked" THEN "pending" ELSE "processing"
    BY DEF OneWorkerPerMessage
  <2> QED  BY <1>1 DEF IInv, OutboxInv, WorkerHolds, Apart
<1> QED  BY <1>1, IInvAlways, PTL

\* processed always means delivered, and dead_letter that every attempt was made and none
\* was acknowledged.
THEOREM StatusTellsTheTruth == Spec => []OutcomeIsTrue
<1>1. IInv => OutcomeIsTrue
  BY DEF IInv, OutboxInv, MessageHolds, OutcomeIsTrue
<1> QED  BY <1>1, IInvAlways, PTL

LEMMA AtMostOne ==
    ASSUME NEW S, NEW x, S \subseteq {x} PROVE Cardinality(S) <= 1
<1>1. CASE S = {}
  BY <1>1, FS_EmptySet
<1>2. CASE S = {x}
  BY <1>2, FS_Singleton
<1> QED  BY <1>1, <1>2

\* All answers for a key name one job, which a request with the key made; and unless a
\* record had to be deleted after the job was committed, there is no other.
THEOREM OneJobForAKey == Spec => []OneAnswerPerKey
<1>1. ASSUME IInv, NEW k \in Keys
      PROVE  /\ Cardinality(answers[k]) <= 1
             /\ answers[k] \subseteq created[k]
             /\ k \notin undone => Cardinality(created[k]) <= 1
  <2>1. KeyHolds(k)
    BY <1>1 DEF IInv, RecordInv
  <2>2. answers[k] \subseteq {record[k].job} /\ answers[k] \subseteq created[k]
    BY <2>1 DEF KeyHolds
  <2>3. ASSUME k \notin undone PROVE \E m : created[k] \subseteq {m}
    BY <2>1, <2>3 DEF KeyHolds
  <2> QED  BY <2>2, <2>3, AtMostOne
<1>2. IInv => OneAnswerPerKey
  BY <1>1 DEF OneAnswerPerKey
<1> QED  BY <1>2, IInvAlways, PTL

\* What was acknowledged is never claimed again and its job never runs again, whatever
\* stops before it is recorded.
THEOREM NothingIsDeliveredTwice == Spec => DeliveredOnlyOnce
<1>1. ASSUME IInv, [Next]_vars, NEW m \in acked
      PROVE  /\ \A w \in Workers : worker'[w].message = m => worker[w].message = m
             /\ job'[m] = job[m]
  <2>1. /\ m \in Messages /\ message[m].status \notin {"absent", "pending"} /\ m # None
        /\ job \in [Messages -> {"none", "queued", "processing", "completed", "failed"}]
        /\ worker \in [Workers -> WorkerRow]
    BY <1>1, OutboxAssumption
       DEF IInv, OutboxInv, OutboxTypeOK, MessageHolds, Messages, WorkerRow
  <2>2. \A w \in Workers : worker[w].message = m => worker[w].stage = "delivered"
    BY <1>1, <2>1 DEF IInv, OutboxInv, WorkerHolds
  <2>3. ASSUME NEW k \in Messages, NEW topic, Enqueue(k, topic)
        PROVE  UNCHANGED worker /\ job'[m] = job[m]
    BY <2>1, <2>3 DEF Enqueue
  <2>4. ASSUME NEW v \in Workers, WorkerStep(v) \/ WorkerFault(v)
        PROVE  /\ \A w \in Workers \ {v} : worker'[w] = worker[w]
               /\ worker'[v].message = m => worker[v].message = m
               /\ job'[m] = job[m]
    <3>1. CASE \E k \in Messages : ClaimLock(v, k)
      BY <2>1, <3>1 DEF ClaimLock, Claimable
    <3>2. CASE \E stage : GoTo(v, stage) /\ UNCHANGED job
      BY <2>1, <3>2 DEF GoTo
    <3>3. CASE worker' = [worker EXCEPT ![v] = IdleWorker] /\ UNCHANGED job
      BY <2>1, <3>3 DEF IdleWorker
    <3>4. CASE JobStart(v) \/ JobComplete(v) \/ JobFail(v)
      <4>1. PICK stage, status :
               /\ GoTo(v, stage) /\ job' = [job EXCEPT ![worker[v].message] = status]
               /\ worker[v].stage # "delivered"
        BY <3>4 DEF JobStart, JobComplete, JobFail, Handles
      <4>2. worker[v].message # m
        BY <2>2, <4>1
      <4> QED  BY <2>1, <4>1, <4>2 DEF GoTo
    <3>5. CASE ClaimCommit(v) \/ ClaimRollback(v) \/ Settle(v) \/ SettleError(v) \/ Crash(v)
      BY <3>2, <3>3, <3>5 DEF ClaimCommit, ClaimRollback, Settle, SettleError, Crash, GoTo
    <3>6. CASE \/ SendOk(v) \/ SendError(v) \/ Upload(v) \/ \E stored \in BOOLEAN : UploadError(v, stored)
               \/ JobCompleteError(v) \/ JobSaveError(v)
      BY <3>2, <3>6 DEF SendOk, SendError, Upload, UploadError, JobCompleteError, JobSaveError
    <3> QED  BY <2>4, <3>1, <3>4, <3>5, <3>6 DEF WorkerStep, WorkerFault
  <2>5. CASE OutboxNext
    BY <2>3, <2>4, <2>5 DEF OutboxNext, ComeDue
  <2>6. CASE RequestNext
    <3>1. UNCHANGED outboxVars \/ \E c \in Clients, k \in Messages : Work(c, k)
      BY <2>6 DEF RequestNext, Find, Insert, WorkError, Complete, CompleteError, Undo, Stop
    <3> QED  BY <2>3, <3>1 DEF Work, outboxVars
  <2>7. CASE UNCHANGED vars
    BY <2>7 DEF vars, outboxVars
  <2> QED  BY <1>1, <2>5, <2>6, <2>7 DEF Next
<1>2. IInv /\ [Next]_vars =>
         [\A m \in acked :
            /\ \A w \in Workers : worker'[w].message = m => worker[w].message = m
            /\ job'[m] = job[m]]_outboxVars
  BY <1>1
<1> QED  BY <1>2, IInvAlways, PTL DEF Spec, DeliveredOnlyOnce

-----------------------------------------------------------------------------
(***************************************************************************)
(* Module Files, for any files, rows, columns and requests, and without    *)
(* the bound of its run.                                                   *)
(***************************************************************************)

\* A replacement that has saved its row, and that no other save has crossed since: the
\* row names the new file, and the file to be cleaned up is another one.
Saved(w) ==
    req[w].op = "set" /\ req[w].stage = "saved" /\ ~req[w].crossed =>
        /\ row[req[w].row][req[w].kind] = req[w].new
        /\ req[w].new # req[w].entity[req[w].kind]

\* What a request in flight holds.
InFlight(w) ==
    req[w].op # "idle" => req[w].row \in Rows /\ req[w].entity \in RowValues

FilesInv == FilesTypeOK /\ \A w \in Requests : Saved(w) /\ InFlight(w)

LEMMA FilesInvInit == FilesInit => FilesInv
<1> SUFFICES ASSUME FilesInit PROVE FilesInv
  OBVIOUS
<1>1. FilesTypeOK
  BY DEF FilesInit, FilesTypeOK, Idle, RowValues, Kinds
<1>2. \A w \in Requests : Saved(w) /\ InFlight(w)
  BY DEF FilesInit, Saved, InFlight, Idle
<1> QED  BY <1>1, <1>2 DEF FilesInv

\* The requests as a step begins one.
LEMMA FilesBeginKeeps ==
    ASSUME FilesInv, NEW w \in Requests, NEW r \in Rows, NEW k \in Kinds,
           NEW new \in Files \cup {Null},
           NEW op \in {"edit", "set", "delete"}, Begin(w, op, r, k, new)
    PROVE  FilesInv'
<1> USE DEF FilesInv
<1>1. row[r] \in RowValues
  BY DEF FilesTypeOK
<1>2. FilesTypeOK'
  BY <1>1 DEF Begin, FilesTypeOK
<1>3. ASSUME NEW v \in Requests PROVE Saved(v)' /\ InFlight(v)'
  <2>1. CASE v = w
    BY <2>1, <1>1 DEF Begin, FilesTypeOK, Saved, InFlight
  <2>2. CASE v # w
    <3>1. req'[v] = req[v] /\ row' = row
      BY <2>2 DEF Begin, FilesTypeOK
    <3> QED  BY <3>1 DEF Saved, InFlight
  <2> QED  BY <2>1, <2>2
<1> QED  BY <1>2, <1>3

LEMMA FilesIdle ==
    /\ Idle \in [op: {"idle", "edit", "set", "delete"}, stage: {"read", "removed", "saved"},
                 row: Rows \cup {Null}, kind: Kinds, entity: RowValues \cup {Null},
                 new: Files \cup {Null}, crossed: BOOLEAN]
    /\ Idle.op = "idle"
  BY DEF Idle, Kinds

\* A request that ends takes nothing from the others.
LEMMA FilesEndKeeps ==
    ASSUME FilesInv, NEW w \in Requests, req' = [req EXCEPT ![w] = Idle], row' = row,
           file' \in [Files -> {"unused", "stored", "removed"}]
    PROVE  FilesInv'
<1> USE DEF FilesInv
<1>1. FilesTypeOK'
  BY FilesIdle DEF FilesTypeOK
<1>2. ASSUME NEW v \in Requests PROVE Saved(v)' /\ InFlight(v)'
  <2>1. CASE v = w
    BY <2>1, FilesIdle DEF FilesTypeOK, Saved, InFlight
  <2>2. CASE v # w
    <3>1. req'[v] = req[v]
      BY <2>2 DEF FilesTypeOK
    <3> QED  BY <3>1 DEF Saved, InFlight
  <2> QED  BY <2>1, <2>2
<1> QED  BY <1>1, <1>2

LEMMA RemoveType ==
    ASSUME file \in [Files -> {"unused", "stored", "removed"}], NEW f, Remove(f)
    PROVE  file' \in [Files -> {"unused", "stored", "removed"}]
  BY DEF Remove

\* Marking a request as crossed changes nothing else of it.
LEMMA CrossedAlone ==
    ASSUME NEW S, NEW T, NEW U, NEW V, NEW W, NEW X,
           NEW x \in [op: S, stage: T, row: U, kind: V, entity: W, new: X, crossed: BOOLEAN],
           NEW b \in BOOLEAN
    PROVE  LET y == [x EXCEPT !.crossed = b] IN
           /\ y \in [op: S, stage: T, row: U, kind: V, entity: W, new: X, crossed: BOOLEAN]
           /\ y.op = x.op /\ y.stage = x.stage /\ y.row = x.row /\ y.kind = x.kind
           /\ y.entity = x.entity /\ y.new = x.new /\ y.crossed = b
  OBVIOUS

LEMMA FilesSaveKeeps ==
    ASSUME FilesInv, NEW w \in Requests, Save(w)
    PROVE  FilesInv'
<1> USE DEF FilesInv
<1> DEFINE r == req[w].row
           values == [req[w].entity EXCEPT ![req[w].kind] = req[w].new]
<1>1. r \in Rows /\ req[w].entity \in RowValues /\ req[w].kind \in Kinds
      /\ req[w].new \in Files \cup {Null}
  BY DEF Save, MaySave, InFlight, FilesTypeOK
<1>2. values \in RowValues /\ values[req[w].kind] = req[w].new
  BY <1>1 DEF RowValues
<1>3. row' = [row EXCEPT ![r] = values] /\ row'[r] = values
  BY <1>1 DEF Save, FilesTypeOK
<1> DEFINE ReqRow == [op: {"idle", "edit", "set", "delete"}, stage: {"read", "removed", "saved"},
                      row: Rows \cup {Null}, kind: Kinds, entity: RowValues \cup {Null},
                      new: Files \cup {Null}, crossed: BOOLEAN]
           crosses(v) == req[v].row = r /\ req[v].stage = "saved"
<1>4. ASSUME NEW v \in Requests, v # w
      PROVE  /\ req'[v] \in ReqRow
             /\ req'[v].op = req[v].op /\ req'[v].stage = req[v].stage
             /\ req'[v].row = req[v].row /\ req'[v].kind = req[v].kind
             /\ req'[v].new = req[v].new /\ req'[v].entity = req[v].entity
             /\ ~req'[v].crossed => ~req[v].crossed /\ ~crosses(v)
  <2>1. req[v] \in ReqRow
    BY DEF FilesTypeOK
  <2>2. PICK b \in BOOLEAN : b = (req[v].crossed \/ crosses(v))
    <3>1. (req[v].crossed \/ crosses(v)) \in BOOLEAN
      OBVIOUS
    <3> QED  BY <3>1
  <2>3. req'[v] = [req[v] EXCEPT !.crossed = b]
    <3>1. req'[v] = [req[v] EXCEPT !.crossed = req[v].crossed \/ crosses(v)]
      BY <1>4 DEF Save
    <3> QED  BY <2>2, <3>1
  <2> HIDE DEF ReqRow
  <2>4. /\ req'[v] \in ReqRow /\ req'[v].crossed = b
        /\ req'[v].op = req[v].op /\ req'[v].stage = req[v].stage
        /\ req'[v].row = req[v].row /\ req'[v].kind = req[v].kind
        /\ req'[v].new = req[v].new /\ req'[v].entity = req[v].entity
    BY <2>1, <2>3, CrossedAlone DEF ReqRow
  <2> QED  BY <2>2, <2>4
<1>5. req'[w] = IF req[w].op = "set" /\ ReplacesAnother(w)
                THEN [req[w] EXCEPT !.stage = "saved"] ELSE Idle
  BY DEF Save
<1>6. FilesTypeOK'
  <2>1. row' \in [Rows -> RowValues]
    BY <1>2, <1>3 DEF FilesTypeOK
  <2>2. req' = [v \in Requests |-> req'[v]]
    BY DEF Save
  <2>3. ASSUME NEW v \in Requests
        PROVE  req'[v] \in ReqRow
    BY <1>4, <1>5, FilesIdle DEF FilesTypeOK
  <2>4. file' = file
    BY DEF Save
  <2> QED  BY <2>1, <2>2, <2>3, <2>4 DEF FilesTypeOK
<1>7. ASSUME NEW v \in Requests PROVE Saved(v)' /\ InFlight(v)'
  <2>1. CASE v = w /\ req[w].op = "set" /\ ReplacesAnother(w)
    <3>1. /\ req'[w].row = r /\ req'[w].kind = req[w].kind /\ req'[w].new = req[w].new
          /\ req'[w].entity = req[w].entity
      BY <2>1, <1>5 DEF FilesTypeOK
    <3>2. req[w].new # req[w].entity[req[w].kind]
      BY <2>1 DEF ReplacesAnother, Previous
    <3> QED  BY <2>1, <3>1, <3>2, <1>1, <1>2, <1>3 DEF Saved, InFlight
  <2>2. CASE v = w /\ ~(req[w].op = "set" /\ ReplacesAnother(w))
    <3>1. req'[v] = Idle
      BY <2>2, <1>5
    <3> QED  BY <3>1, FilesIdle DEF Saved, InFlight
  <2>3. CASE v # w
    <3>1. /\ req'[v].op = req[v].op /\ req'[v].stage = req[v].stage
          /\ req'[v].row = req[v].row /\ req'[v].kind = req[v].kind
          /\ req'[v].new = req[v].new /\ req'[v].entity = req[v].entity
          /\ ~req'[v].crossed => ~req[v].crossed /\ ~crosses(v)
      BY <2>3, <1>4
    <3>2. InFlight(v)'
      BY <3>1 DEF InFlight
    <3>3. Saved(v)'
      <4>1. SUFFICES ASSUME req'[v].op = "set", req'[v].stage = "saved", ~req'[v].crossed
                     PROVE  /\ row'[req'[v].row][req'[v].kind] = req'[v].new
                            /\ req'[v].new # req'[v].entity[req'[v].kind]
        BY DEF Saved
      <4>2. ~req[v].crossed /\ req[v].row # r /\ req[v].row \in Rows
        BY <3>1, <4>1 DEF InFlight
      <4>3. row'[req[v].row] = row[req[v].row]
        BY <4>2, <1>3 DEF FilesTypeOK
      <4> QED  BY <3>1, <4>1, <4>2, <4>3 DEF Saved
    <3> QED  BY <3>2, <3>3
  <2> QED  BY <2>1, <2>2, <2>3
<1> QED  BY <1>6, <1>7

LEMMA FilesStep == FilesInv /\ [FilesNext]_filesVars => FilesInv'
<1> SUFFICES ASSUME FilesInv, [FilesNext]_filesVars PROVE FilesInv'
  OBVIOUS
<1>t. FilesTypeOK
  BY DEF FilesInv
<1>1. ASSUME NEW f \in Files, CreateUpload(f) PROVE FilesInv'
  <2>1. file' \in [Files -> {"unused", "stored", "removed"}] /\ UNCHANGED <<row, req>>
    BY <1>1, <1>t DEF CreateUpload, FilesTypeOK
  <2> QED  BY <2>1 DEF FilesInv, FilesTypeOK, Saved, InFlight
<1>2. ASSUME NEW w \in Requests, NEW r \in Rows, NEW k \in Kinds, NEW f \in Files,
             Edit(w, r, k, f) \/ Set(w, r, k, f)
      PROVE  FilesInv'
  BY <1>2, FilesBeginKeeps DEF Edit, Set
<1>3. ASSUME NEW w \in Requests, NEW r \in Rows, NEW k \in Kinds, Delete(w, r, k)
      PROVE  FilesInv'
  BY <1>3, FilesBeginKeeps DEF Delete
<1>4. ASSUME NEW w \in Requests, DeleteRemove(w) PROVE FilesInv'
  <2>1. file' \in [Files -> {"unused", "stored", "removed"}] /\ row' = row
    BY <1>4, <1>t, RemoveType DEF DeleteRemove, FilesTypeOK
  <2>2. CASE req' = [req EXCEPT ![w] = Idle]
    BY <2>1, <2>2, FilesEndKeeps
  <2>3. CASE req' = [req EXCEPT ![w].stage = "removed"]
    <3>1. FilesTypeOK'
      BY <2>1, <2>3, <1>t DEF FilesTypeOK
    <3>2. ASSUME NEW v \in Requests PROVE Saved(v)' /\ InFlight(v)'
      BY <2>1, <2>3, <1>t DEF FilesInv, FilesTypeOK, Saved, InFlight
    <3> QED  BY <3>1, <3>2 DEF FilesInv
  <2> QED  BY <1>4, <2>2, <2>3 DEF DeleteRemove
<1>5. ASSUME NEW w \in Requests, Save(w) PROVE FilesInv'
  BY <1>5, FilesSaveKeeps
<1>6. ASSUME NEW w \in Requests, SetRemove(w) PROVE FilesInv'
  BY <1>6, <1>t, FilesEndKeeps, RemoveType DEF SetRemove, FilesTypeOK
<1>7. ASSUME NEW w \in Requests, Fail(w) PROVE FilesInv'
  BY <1>7, <1>t, FilesEndKeeps DEF Fail, FilesTypeOK
<1>8. CASE UNCHANGED filesVars
  BY <1>8 DEF filesVars, FilesInv, FilesTypeOK, Saved, InFlight
<1> QED  BY <1>1, <1>2, <1>3, <1>4, <1>5, <1>6, <1>7, <1>8 DEF FilesNext

\* Rows, files and requests are well formed.
THEOREM FilesTypeCorrect == FilesSpec => []FilesTypeOK
<1>1. FilesInv => FilesTypeOK
  BY DEF FilesInv
<1> QED  BY <1>1, FilesInvInit, FilesStep, PTL DEF FilesSpec

-----------------------------------------------------------------------------
\* Only the removals of a delete and of a replacement take a file away, each the URL it
\* found in its row.
LEMMA WhoRemoves ==
    ASSUME FilesInv, FilesNext, NEW f \in Files, Removed(f)
    PROVE  \E w \in Requests :
             /\ DeleteRemove(w) \/ SetRemove(w)
             /\ f = Previous(w) /\ Managed(req[w].row, req[w].kind, f)
             /\ req[w].op # "idle" /\ req'[w] # req[w]
             /\ \A v \in Requests : v # w => req'[v] = req[v]
<1>t. FilesTypeOK
  BY DEF FilesInv
<1>1. ASSUME NEW g \in Files, CreateUpload(g) PROVE FALSE
  BY <1>1, <1>t DEF CreateUpload, Removed, FilesTypeOK
<1>2. file' # file
  BY DEF Removed
<1>3. PICK w \in Requests : DeleteRemove(w) \/ SetRemove(w)
  BY <1>1, <1>2 DEF FilesNext, Edit, Set, Delete, Begin, Save, Fail
<1>4. Managed(req[w].row, req[w].kind, Previous(w)) /\ Remove(Previous(w))
  BY <1>2, <1>3 DEF DeleteRemove, SetRemove
<1>5. f = Previous(w)
  BY <1>4, <1>t DEF Remove, Removed, FilesTypeOK
<1>6. req[w].op # "idle" /\ req'[w] # req[w]
  <2>1. CASE DeleteRemove(w)
    BY <2>1, <1>4, <1>t DEF DeleteRemove, FilesTypeOK
  <2>2. CASE SetRemove(w)
    BY <2>2, <1>t, FilesIdle DEF SetRemove, FilesTypeOK
  <2> QED  BY <1>3, <2>1, <2>2
<1>7. ASSUME NEW v \in Requests, v # w PROVE req'[v] = req[v]
  BY <1>3, <1>7, <1>t DEF DeleteRemove, SetRemove, FilesTypeOK
<1> QED  BY <1>3, <1>4, <1>5, <1>6, <1>7

\* A file disappears only by a request on a row of its own vendor, for a column of its
\* kind, whatever URLs clients put into rows and stale saves bring back (managedPath and
\* managedVendorLogoPath).
THEOREM FilesBelongToTheirOwner == FilesSpec => FilesAreRemovedByTheirOwner
<1> DEFINE Owned(f) ==
      Removed(f) =>
        \E w \in Requests :
            /\ req[w].op # "idle" /\ req'[w] # req[w]
            /\ RowOwner[req[w].row] = FileOwner[f]
            /\ req[w].kind = FileKind[f]
<1>1. FilesInv /\ [FilesNext]_filesVars => [\A f \in Files : Owned(f)]_filesVars
  <2> SUFFICES ASSUME FilesInv, FilesNext, NEW f \in Files, Removed(f) PROVE Owned(f)
    OBVIOUS
  <2> QED  BY WhoRemoves DEF Managed
<1> QED  BY <1>1, FilesInvInit, FilesStep, PTL DEF FilesSpec, FilesAreRemovedByTheirOwner

\* A replacement does not remove the file its row names, unless another request saved
\* the row between its save and its clean-up (setDocument, setVendorLogo).
THEOREM ReplacementsSpareTheirRow == FilesSpec => ReplacementLeavesNoDanglingRow
<1> DEFINE Spared(f, w) ==
      Removed(f) /\ req[w].op = "set" /\ req[w].stage # "read"
                 /\ req'[w] # req[w] /\ Previous(w) = f
      => row'[req[w].row][req[w].kind] # f \/ req[w].crossed
<1>1. FilesInv /\ [FilesNext]_filesVars => [\A f \in Files, w \in Requests : Spared(f, w)]_filesVars
  <2> SUFFICES ASSUME FilesInv, FilesNext, NEW f \in Files, NEW w \in Requests, Removed(f),
                      req[w].op = "set", req'[w] # req[w], Previous(w) = f, ~req[w].crossed
               PROVE  row'[req[w].row][req[w].kind] # f
    OBVIOUS
  <2>1. PICK v \in Requests : /\ DeleteRemove(v) \/ SetRemove(v)
                              /\ \A u \in Requests : u # v => req'[u] = req[u]
    BY WhoRemoves
  <2>2. SetRemove(w)
    BY <2>1 DEF DeleteRemove
  <2> QED  BY <2>2 DEF SetRemove, FilesInv, Saved, Previous
<1> QED  BY <1>1, FilesInvInit, FilesStep, PTL DEF FilesSpec, ReplacementLeavesNoDanglingRow
=============================================================================
