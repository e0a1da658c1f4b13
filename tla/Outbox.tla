-------------------------------- MODULE Outbox --------------------------------
(***************************************************************************)
(* The transactional outbox (src/operations/outbox-processor.service.ts)   *)
(* and the export jobs it runs (src/operations/artifact-job.service.ts).   *)
(* Messages are committed together with the change they announce.  Each    *)
(* API instance has one worker that claims the oldest due message with FOR *)
(* UPDATE SKIP LOCKED, hands it to the mail provider or to the artifact    *)
(* job, and then saves what came of it.                                    *)
(***************************************************************************)
EXTENDS Naturals, FiniteSets

CONSTANTS
    Workers,      \* API instances whose worker is enabled
    MaxMessages,  \* bound of the number of messages
    MaxAttempts,  \* OUTBOX_MAX_ATTEMPTS
    None

ASSUME OutboxAssumption ==
    /\ MaxMessages \in Nat /\ MaxAttempts \in Nat \ {0}
    /\ None \notin 1..MaxMessages

VARIABLES
    message,   \* message[m]: the rows of outbox_messages, numbered by createdAt
    worker,    \* worker[w]: what a worker is doing
    job,       \* job[m]: status of the background job that message m announces
    artifact,  \* messages whose job has its object in the storage bucket
    acked,     \* history: messages of which the worker saw the delivery succeed
    crashed,   \* history: messages whose worker stopped while it held them
    unsaved    \* history: messages whose outcome the database did not take

outboxVars == <<message, worker, job, artifact, acked, crashed, unsaved>>

Messages == 1..MaxMessages
NoMessage == [status |-> "absent", topic |-> "none", attempts |-> 0, due |-> FALSE]
IdleWorker == [stage |-> "idle", message |-> None]

OutboxInit ==
    /\ message = [m \in Messages |-> NoMessage]
    /\ worker = [w \in Workers |-> IdleWorker]
    /\ job = [m \in Messages |-> "none"]
    /\ artifact = {}
    /\ acked = {} /\ crashed = {} /\ unsaved = {}

\* enqueue, inside the transaction of the caller.
Enqueue(m, topic) ==
    /\ m \in Messages
    /\ message[m].status = "absent"
    /\ \A older \in 1..(m - 1) : message[older].status # "absent"
    /\ message' = [message EXCEPT ![m] = [status |-> "pending", topic |-> topic,
                                          attempts |-> 0, due |-> TRUE]]
    /\ job' = IF topic = "job.created" THEN [job EXCEPT ![m] = "queued"] ELSE job
    /\ UNCHANGED <<worker, artifact, acked, crashed, unsaved>>

\* availableAt passes.
ComeDue(m) ==
    /\ message[m].status = "pending"
    /\ ~message[m].due
    /\ message' = [message EXCEPT ![m].due = TRUE]
    /\ UNCHANGED <<worker, job, artifact, acked, crashed, unsaved>>

-----------------------------------------------------------------------------
(* claim.                                                                  *)

\* Mutant of Claimable: messages left in processing are taken up again.
ClaimableAgain(m) ==
    message[m].status = "processing" \/ (message[m].status = "pending" /\ message[m].due)

Claimable(m) == message[m].status = "pending" /\ message[m].due

\* Mutant of LockedBy: the SELECT takes no lock.
LockedByNobody(w, m) == FALSE

LockedBy(w, m) == worker[w].stage = "locked" /\ worker[w].message = m

\* The oldest claimable row that no other claim has locked.
ClaimLock(w, m) ==
    LET open == {k \in Messages : Claimable(k) /\ \A v \in Workers : ~LockedBy(v, k)}
    IN
    /\ worker[w].stage = "idle"
    /\ m \in open
    /\ \A k \in open : m <= k
    /\ worker' = [worker EXCEPT ![w] = [stage |-> "locked", message |-> m]]
    /\ UNCHANGED <<message, job, artifact, acked, crashed, unsaved>>

ClaimCommit(w) ==
    LET m == worker[w].message IN
    /\ worker[w].stage = "locked"
    /\ message' = [message EXCEPT ![m].status = "processing", ![m].attempts = @ + 1]
    /\ worker' = [worker EXCEPT ![w].stage = "claimed"]
    /\ UNCHANGED <<job, artifact, acked, crashed, unsaved>>

\* The transaction fails or the instance stops: the claim is rolled back.
ClaimRollback(w) ==
    /\ worker[w].stage = "locked"
    /\ worker' = [worker EXCEPT ![w] = IdleWorker]
    /\ UNCHANGED <<message, job, artifact, acked, crashed, unsaved>>

-----------------------------------------------------------------------------
(* process: the e-mail.                                                    *)

Handles(w, topic) == worker[w].stage = "claimed" /\ message[worker[w].message].topic = topic
GoTo(w, stage) == worker' = [worker EXCEPT ![w].stage = stage]

\* The provider takes the e-mail and says so.
SendOk(w) ==
    LET m == worker[w].message IN
    /\ Handles(w, "email.send")
    /\ acked' = acked \cup {m}
    /\ GoTo(w, "delivered")
    /\ UNCHANGED <<message, job, artifact, crashed, unsaved>>

\* An error or a timeout, whether or not the provider took the e-mail.
SendError(w) ==
    /\ Handles(w, "email.send")
    /\ GoTo(w, "failed")
    /\ UNCHANGED <<message, job, artifact, acked, crashed, unsaved>>

-----------------------------------------------------------------------------
(* process: the artifact job.  Every statement of it can fail; a failure     *)
(* before its try block, or in its catch block, leaves the job as it is.     *)

JobStart(w) ==
    /\ Handles(w, "job.created")
    /\ job' = [job EXCEPT ![worker[w].message] = "processing"]
    /\ GoTo(w, "content")
    /\ UNCHANGED <<message, artifact, acked, crashed, unsaved>>

\* upload with upsert: false, which refuses an object that exists.
Upload(w) ==
    LET m == worker[w].message IN
    /\ worker[w].stage = "content"
    /\ artifact' = artifact \cup {m}
    /\ GoTo(w, IF m \in artifact THEN "job_failing" ELSE "uploaded")
    /\ UNCHANGED <<message, job, acked, crashed, unsaved>>

\* The content or the upload fails, the latter perhaps after it was stored.
UploadError(w, stored) ==
    /\ worker[w].stage = "content"
    /\ artifact' = IF stored THEN artifact \cup {worker[w].message} ELSE artifact
    /\ GoTo(w, "job_failing")
    /\ UNCHANGED <<message, job, acked, crashed, unsaved>>

\* createSignedUrl and the save of the completed job.
JobComplete(w) ==
    LET m == worker[w].message IN
    /\ worker[w].stage = "uploaded"
    /\ job' = [job EXCEPT ![m] = "completed"]
    /\ acked' = acked \cup {m}
    /\ GoTo(w, "delivered")
    /\ UNCHANGED <<message, artifact, crashed, unsaved>>

JobCompleteError(w) ==
    /\ worker[w].stage = "uploaded"
    /\ GoTo(w, "job_failing")
    /\ UNCHANGED <<message, job, artifact, acked, crashed, unsaved>>

JobFail(w) ==
    /\ worker[w].stage = "job_failing"
    /\ job' = [job EXCEPT ![worker[w].message] = "failed"]
    /\ GoTo(w, "failed")
    /\ UNCHANGED <<message, artifact, acked, crashed, unsaved>>

JobSaveError(w) ==
    /\ Handles(w, "job.created") \/ worker[w].stage = "job_failing"
    /\ GoTo(w, "failed")
    /\ UNCHANGED <<message, job, artifact, acked, crashed, unsaved>>

-----------------------------------------------------------------------------
(* process: the last save.                                                 *)

\* Mutant of Outcome: given up with one attempt left.
GivenUpEarly(row, stage) ==
    IF stage = "delivered" THEN [row EXCEPT !.status = "processed"]
    ELSE [row EXCEPT !.due = FALSE,
                     !.status = IF row.attempts + 1 >= MaxAttempts THEN "dead_letter"
                                                                   ELSE "pending"]

\* Mutant of Outcome: a failed message is not put back.
NotPutBack(row, stage) ==
    IF stage = "delivered" THEN [row EXCEPT !.status = "processed"]
    ELSE [row EXCEPT !.due = FALSE,
                     !.status = IF row.attempts >= MaxAttempts THEN "dead_letter" ELSE @]

Outcome(row, stage) ==
    IF stage = "delivered" THEN [row EXCEPT !.status = "processed"]
    ELSE [row EXCEPT !.due = FALSE,
                     !.status = IF row.attempts >= MaxAttempts THEN "dead_letter"
                                                               ELSE "pending"]

Settle(w) ==
    LET m == worker[w].message IN
    /\ worker[w].stage \in {"delivered", "failed"}
    /\ message' = [message EXCEPT ![m] = Outcome(@, worker[w].stage)]
    /\ worker' = [worker EXCEPT ![w] = IdleWorker]
    /\ UNCHANGED <<job, artifact, acked, crashed, unsaved>>

\* The save fails: drain logs it and goes on with other messages.
SettleError(w) ==
    /\ worker[w].stage \in {"delivered", "failed"}
    /\ unsaved' = unsaved \cup {worker[w].message}
    /\ worker' = [worker EXCEPT ![w] = IdleWorker]
    /\ UNCHANGED <<message, job, artifact, acked, crashed>>

\* The instance stops while its worker holds a message, and starts again.
Crash(w) ==
    /\ worker[w].stage \notin {"idle", "locked"}
    /\ crashed' = crashed \cup {worker[w].message}
    /\ worker' = [worker EXCEPT ![w] = IdleWorker]
    /\ UNCHANGED <<message, job, artifact, acked, unsaved>>

\* What a worker does when its instance runs and the database takes its saves.
WorkerStep(w) ==
    \/ \E m \in Messages : ClaimLock(w, m)
    \/ ClaimCommit(w)
    \/ SendOk(w)
    \/ SendError(w)
    \/ JobStart(w)
    \/ Upload(w)
    \/ \E stored \in BOOLEAN : UploadError(w, stored)
    \/ JobComplete(w)
    \/ JobCompleteError(w)
    \/ JobFail(w)
    \/ Settle(w)

WorkerFault(w) == ClaimRollback(w) \/ JobSaveError(w) \/ SettleError(w) \/ Crash(w)

OutboxNext ==
    \/ \E w \in Workers : WorkerStep(w) \/ WorkerFault(w)
    \/ \E m \in Messages : ComeDue(m) \/ Enqueue(m, "email.send")

-----------------------------------------------------------------------------
(* Properties.                                                             *)

OutboxTypeOK ==
    /\ message \in [Messages ->
            [status: {"absent", "pending", "processing", "processed", "dead_letter"},
             topic: {"none", "email.send", "job.created"},
             attempts: 0..MaxAttempts, due: BOOLEAN]]
    /\ worker \in [Workers ->
            [stage: {"idle", "locked", "claimed", "content", "uploaded",
                     "job_failing", "delivered", "failed"},
             message: Messages \cup {None}]]
    /\ job \in [Messages -> {"none", "queued", "processing", "completed", "failed"}]
    /\ artifact \subseteq Messages
    /\ acked \subseteq Messages /\ crashed \subseteq Messages /\ unsaved \subseteq Messages

\* No two instances work on one message, and what one works on is marked so:
\* SKIP LOCKED and the status processing keep all others away from it.
OneWorkerPerMessage ==
    \A v, w \in Workers :
        worker[v].stage # "idle" /\ worker[v].message = worker[w].message =>
            /\ v = w
            /\ message[worker[v].message].status =
                    IF worker[v].stage = "locked" THEN "pending" ELSE "processing"

\* What was delivered is never taken up again, even when its instance stops or the
\* database refuses to record it: an e-mail that the provider confirmed is not sent
\* a second time, and the job of a message is not run after it completed.
DeliveredOnlyOnce ==
    [][\A m \in acked :
        /\ \A w \in Workers : worker'[w].message = m => worker[w].message = m
        /\ job'[m] = job[m]]_outboxVars

\* The status of a message tells the truth: processed means delivered, with the
\* file in the bucket, and dead_letter means that every attempt has been made.
OutcomeIsTrue ==
    \A m \in Messages :
        /\ message[m].status = "processed" =>
                /\ m \in acked
                /\ message[m].topic = "job.created" => job[m] = "completed" /\ m \in artifact
        /\ message[m].status = "dead_letter" =>
                message[m].attempts = MaxAttempts /\ m \notin acked

Settled(m) == message[m].status \in {"processed", "dead_letter"}

\* Every message is delivered or given up in the end, unless its instance stopped
\* or its outcome could not be saved: a message that keeps failing neither
\* blocks the others nor is retried for ever.
EveryMessageSettles ==
    \A m \in Messages :
        message[m].status = "pending" ~> Settled(m) \/ m \in crashed \cup unsaved
=============================================================================
