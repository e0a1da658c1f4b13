----------------------------- MODULE JobRequests ------------------------------
(***************************************************************************)
(* POST /jobs (src/commerce/commerce.controller.ts, createJob) over the    *)
(* idempotency records of src/operations/reliability.service.ts, execute,  *)
(* composed with the outbox that runs the jobs.  A request finds or        *)
(* inserts the record of its Idempotency-Key, creates the job and its      *)
(* message in a transaction of its own, and then completes the record, or  *)
(* deletes it when anything failed.                                        *)
(***************************************************************************)
EXTENDS Outbox

CONSTANTS
    Clients,  \* POST /jobs requests running concurrently
    Keys      \* values of Idempotency-Key of one user

VARIABLES
    record,   \* record[k]: the row of idempotency_records
    request,  \* request[c]: the requests in flight
    created,  \* history: created[k], the jobs that requests with the key created
    answers,  \* history: answers[k], the jobs that were returned for the key
    undone    \* history: keys whose record was deleted after the job was created

requestVars == <<record, request, created, answers, undone>>
vars == <<outboxVars, requestVars>>

NoRecord == [status |-> "absent", job |-> None]
NoRequest == [stage |-> "idle", key |-> None, job |-> None]

Init ==
    /\ OutboxInit
    /\ record = [k \in Keys |-> NoRecord]
    /\ request = [c \in Clients |-> NoRequest]
    /\ created = [k \in Keys |-> {}]
    /\ answers = [k \in Keys |-> {}]
    /\ undone = {}

\* findOneBy: a completed record answers, one in processing is a conflict.
Find(c, k) ==
    /\ request[c].stage = "idle"
    /\ request' = IF record[k].status = "absent"
                  THEN [request EXCEPT ![c] = [stage |-> "insert", key |-> k, job |-> None]]
                  ELSE request
    /\ answers' = IF record[k].status = "completed"
                  THEN [answers EXCEPT ![k] = @ \cup {record[k].job}] ELSE answers
    /\ UNCHANGED <<outboxVars, record, created, undone>>

\* Mutant of MayInsert: the unique index on the key is missing.
InsertAnyway(k) == TRUE

\* The unique index on organizationId, userId and key.
MayInsert(k) == record[k].status = "absent"

\* The INSERT of the record; a duplicate key ends the request with an error.
Insert(c) ==
    LET k == request[c].key IN
    /\ request[c].stage = "insert"
    /\ record' = IF MayInsert(k)
                 THEN [record EXCEPT ![k] = [status |-> "processing", job |-> None]]
                 ELSE record
    /\ request' = IF MayInsert(k) THEN [request EXCEPT ![c].stage = "work"]
                                  ELSE [request EXCEPT ![c] = NoRequest]
    /\ UNCHANGED <<outboxVars, created, answers, undone>>

\* work: the transaction that inserts the job and its outbox message.
Work(c, m) ==
    LET k == request[c].key IN
    /\ request[c].stage = "work"
    /\ Enqueue(m, "job.created")
    /\ request' = [request EXCEPT ![c].stage = "complete", ![c].job = m]
    /\ created' = [created EXCEPT ![k] = @ \cup {m}]
    /\ UNCHANGED <<record, answers, undone>>

\* The transaction is rolled back: no such batch, or the database failed.
WorkError(c) ==
    /\ request[c].stage = "work"
    /\ request' = [request EXCEPT ![c].stage = "undo"]
    /\ UNCHANGED <<outboxVars, record, created, answers, undone>>

\* The record is completed with the response, which is then returned.
Complete(c) ==
    LET k == request[c].key IN
    /\ request[c].stage = "complete"
    /\ record' = [record EXCEPT ![k] = [status |-> "completed", job |-> request[c].job]]
    /\ answers' = [answers EXCEPT ![k] = @ \cup {request[c].job}]
    /\ request' = [request EXCEPT ![c] = NoRequest]
    /\ UNCHANGED <<outboxVars, created, undone>>

CompleteError(c) ==
    /\ request[c].stage = "complete"
    /\ request' = [request EXCEPT ![c].stage = "undo"]
    /\ UNCHANGED <<outboxVars, record, created, answers, undone>>

\* The catch block deletes the record and passes the error on.
Undo(c) ==
    LET k == request[c].key IN
    /\ request[c].stage = "undo"
    /\ record' = [record EXCEPT ![k] = NoRecord]
    /\ undone' = IF request[c].job # None THEN undone \cup {k} ELSE undone
    /\ request' = [request EXCEPT ![c] = NoRequest]
    /\ UNCHANGED <<outboxVars, created, answers>>

\* The process stops, or the DELETE of the catch block fails as well: the record
\* stays in processing.
Stop(c) ==
    /\ request[c].stage # "idle"
    /\ request' = [request EXCEPT ![c] = NoRequest]
    /\ UNCHANGED <<outboxVars, record, created, answers, undone>>

RequestNext ==
    \E c \in Clients :
        \/ \E k \in Keys : Find(c, k)
        \/ Insert(c)
        \/ \E m \in Messages : Work(c, m)
        \/ WorkError(c)
        \/ Complete(c)
        \/ CompleteError(c)
        \/ Undo(c)
        \/ Stop(c)

Next ==
    \/ RequestNext
    \/ OutboxNext /\ UNCHANGED requestVars

\* The timer of each worker fires again and again, and its steps are statements
\* and calls that return (the provider's with a timeout); availableAt passes; a
\* claim that is tried again and again commits in the end, for the database does
\* not stay away for ever.  Nothing is assumed of requests, and nothing keeps the
\* saves from failing and the instances from stopping.
Fairness ==
    /\ \A w \in Workers :
            /\ WF_vars(WorkerStep(w) /\ UNCHANGED requestVars)
            /\ SF_vars(ClaimCommit(w) /\ UNCHANGED requestVars)
    /\ \A m \in Messages : WF_vars(ComeDue(m) /\ UNCHANGED requestVars)

Spec == Init /\ [][Next]_vars /\ Fairness

-----------------------------------------------------------------------------
(* Properties.                                                             *)

TypeOK ==
    /\ OutboxTypeOK
    /\ record \in [Keys -> [status: {"absent", "processing", "completed"},
                            job: Messages \cup {None}]]
    /\ request \in [Clients -> [stage: {"idle", "insert", "work", "complete", "undo"},
                                key: Keys \cup {None}, job: Messages \cup {None}]]
    /\ created \in [Keys -> SUBSET Messages]
    /\ answers \in [Keys -> SUBSET Messages]
    /\ undone \subseteq Keys

\* A key creates at most one job, and all requests with it that are answered are
\* answered with that job: even when others with the key run concurrently, stop
\* half way or find the database failing (execute).  Where the record could not
\* be completed after the job had been committed and was deleted, a retry creates
\* a second job, but the answers still name a single one.
OneAnswerPerKey ==
    \A k \in Keys :
        /\ Cardinality(answers[k]) <= 1
        /\ answers[k] \subseteq created[k]
        /\ k \notin undone => Cardinality(created[k]) <= 1
=============================================================================
