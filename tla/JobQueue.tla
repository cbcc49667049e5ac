------------------------------- MODULE JobQueue -------------------------------
(***************************************************************************)
(* The background job queue: the table meta_conversion_jobs, the clients   *)
(* that submit jobs to it (JobService.create_job) and the workers that     *)
(* poll, execute, retry and requeue them (job_service.py, job_worker.py).  *)
(*                                                                         *)
(* A step is one transaction, or one run of a job's handler.  A worker     *)
(* refreshes its copy of the job before the run and writes its result from *)
(* that copy, without looking at the table again: no update checks who     *)
(* holds the job.  worker_id is therefore not part of the state.           *)
(***************************************************************************)
EXTENDS Naturals, FiniteSets

CONSTANTS
    Jobs,           \* bound: the jobs that can be created, numbered by created_at
    Keys,           \* dedupe keys
    Priorities,     \* values of the priority column
    Indexing,       \* values of payload["index"] that requests submit
    Clients,        \* requests that submit jobs
    Workers,        \* worker threads, and API calls of /conversions/process
    MaxAttempts,    \* max_attempts of a job
    Limit,          \* the quota max_processing_jobs
    Overrun,        \* may a job pass the stale timeout while it is running?
    MaxCrashes      \* bound: worker crashes

ASSUME JobsAreNumbered == Jobs \subseteq Nat \ {0}
ASSUME PrioritiesAreNat == Priorities \subseteq Nat
ASSUME IndexingIsBoolean == Indexing \subseteq BOOLEAN
ASSUME AttemptsPositive == MaxAttempts \in Nat \ {0}
ASSUME LimitPositive == Limit \in Nat \ {0}
ASSUME OverrunIsBoolean == Overrun \in BOOLEAN
ASSUME CrashesBounded == MaxCrashes \in Nat

VARIABLES
    job,        \* the table: Jobs -> a job record, or NoJob
    cpc,        \* a client: "idle", or "insert" after its dedupe query found nothing
    request,    \* what the client submits
    wpc,        \* where a worker is in its loop
    found,      \* jobs requeue_stale_jobs has read as stale: <<job, attempts left?>>
    held,       \* the job the worker has claimed (0: none)
    copy,       \* the worker's copy of it
    result,     \* how the handler ended
    runs,       \* history: handler runs of a job
    aged,       \* history: jobs a run of which has passed the stale timeout
    crashes

clients == <<cpc, request>>
workers == <<wpc, found, held, copy, result>>
vars == <<job, clients, workers, runs, aged, crashes>>

-----------------------------------------------------------------------------
NoJob == [status |-> "absent"]
Active == {"pending", "processing"}
Statuses == Active \cup {"completed", "failed"}
Submissions == [key: Keys, prio: Priorities, index: Indexing]
Outcomes == {"none", "ok", "value", "error", "fatal"}
WPCs == {"idle", "requeue", "poll", "claim", "claimed", "running", "finished"}

\* due abstracts scheduled_at against now, started started_at against the
\* stale cutoff, index payload["index"].
Job == [status: Statuses, attempts: Nat, due: BOOLEAN,
        started: {"none", "fresh", "stale"}, key: Keys, prio: Priorities, index: BOOLEAN]

Free == {j \in Jobs : job[j] = NoJob}
Processing == {j \in Jobs : job[j].status = "processing"}

TypeOK ==
    /\ job \in [Jobs -> Job \cup {NoJob}]
    /\ cpc \in [Clients -> {"idle", "insert"}]
    /\ request \in [Clients -> Submissions]
    /\ wpc \in [Workers -> WPCs]
    /\ found \in [Workers -> SUBSET (Jobs \X BOOLEAN)]
    /\ held \in [Workers -> Jobs \cup {0}]
    /\ copy \in [Workers -> Job \cup {NoJob}]
    /\ result \in [Workers -> Outcomes]
    /\ runs \in [Jobs -> Nat]
    /\ aged \subseteq Jobs
    /\ crashes \in Nat

Init ==
    /\ job = [j \in Jobs |-> NoJob]
    /\ cpc = [c \in Clients |-> "idle"]
    /\ request \in [Clients -> Submissions]
    /\ wpc = [w \in Workers |-> "idle"]
    /\ found = [w \in Workers |-> {}]
    /\ held = [w \in Workers |-> 0]
    /\ copy = [w \in Workers |-> NoJob]
    /\ result = [w \in Workers |-> "none"]
    /\ runs = [j \in Jobs |-> 0]
    /\ aged = {}
    /\ crashes = 0

-----------------------------------------------------------------------------
(* create_job.                                                              *)

\* Mutant: only pending jobs are looked at.
SameKeyPending(k) == {j \in Jobs : job[j].status = "pending" /\ job[j].key = k}

\* Jobs the dedupe query returns.
SameKeyActive(k) == {j \in Jobs : job[j].status \in Active /\ job[j].key = k}

\* The newest active job with the key is returned to the client; a request for
\* indexing promotes its payload first.
SubmitDeduped(c) ==
    /\ cpc[c] = "idle"
    /\ \E j \in SameKeyActive(request[c].key) :
        /\ \A i \in SameKeyActive(request[c].key) : i <= j
        /\ job' = [job EXCEPT ![j].index = @ \/ request[c].index]
    /\ request' \in {[request EXCEPT ![c] = q] : q \in Submissions}
    /\ UNCHANGED <<cpc, workers, runs, aged, crashes>>

\* No active job: the client goes on to the quota check and the insert.
SubmitNew(c) ==
    /\ cpc[c] = "idle"
    /\ Free # {}
    /\ SameKeyActive(request[c].key) = {}
    /\ cpc' = [cpc EXCEPT ![c] = "insert"]
    /\ UNCHANGED <<job, request, workers, runs, aged, crashes>>

\* The insert, unless the quota on active jobs refuses it.
SubmitInsert(c) ==
    /\ cpc[c] = "insert"
    /\ cpc' = [cpc EXCEPT ![c] = "idle"]
    /\ request' \in {[request EXCEPT ![c] = q] : q \in Submissions}
    /\ \/ \E j \in Free :
            /\ \A i \in Free : j <= i
            /\ job' = [job EXCEPT ![j] =
                  [status |-> "pending", attempts |-> 0, due |-> TRUE, started |-> "none",
                   key |-> request[c].key, prio |-> request[c].prio,
                   index |-> request[c].index]]
       \/ UNCHANGED job
    /\ UNCHANGED <<workers, runs, aged, crashes>>

-----------------------------------------------------------------------------
(* The worker loop: requeue_stale_jobs, poll_next_job, _execute_job.        *)

\* requeue_stale_jobs, its SELECT: no row is locked.
RequeueRead(w) ==
    /\ wpc[w] = "idle"
    /\ found' = [found EXCEPT ![w] =
          {<<j, job[j].attempts < MaxAttempts>> : j \in {i \in Processing : job[i].started = "stale"}}]
    /\ wpc' = [wpc EXCEPT ![w] = IF found'[w] = {} THEN "poll" ELSE "requeue"]
    /\ UNCHANGED <<job, clients, held, copy, result, runs, aged, crashes>>

\* Mutants: the reason written into the status column; the status not reset.
RequeuedAsReason(x, left) ==
    IF left THEN [x EXCEPT !.status = "stale_timeout_requeued", !.started = "none", !.due = FALSE]
            ELSE [x EXCEPT !.status = "failed"]
RequeuedInPlace(x, left) ==
    IF left THEN [x EXCEPT !.started = "none", !.due = FALSE]
            ELSE [x EXCEPT !.status = "failed"]

\* The job after the requeue: back to pending if attempts were left.
Requeued(x, left) ==
    IF left THEN [x EXCEPT !.status = "pending", !.started = "none", !.due = FALSE]
            ELSE [x EXCEPT !.status = "failed"]

\* requeue_stale_jobs, its UPDATE by primary key, whatever became of the job.
RequeueWrite(w) ==
    /\ wpc[w] = "requeue"
    /\ job' = [j \in Jobs |-> IF \E left \in BOOLEAN : <<j, left>> \in found[w]
                               THEN Requeued(job[j], <<j, TRUE>> \in found[w]) ELSE job[j]]
    /\ found' = [found EXCEPT ![w] = {}]
    /\ wpc' = [wpc EXCEPT ![w] = "poll"]
    /\ UNCHANGED <<clients, held, copy, result, runs, aged, crashes>>

\* Mutant: the job about to be claimed is not counted.
PollLimitOffByOne(w) ==
    /\ wpc[w] = "poll"
    /\ wpc' = [wpc EXCEPT ![w] = IF Cardinality(Processing) > Limit THEN "idle" ELSE "claim"]
    /\ UNCHANGED <<job, clients, found, held, copy, result, runs, aged, crashes>>

\* poll_next_job: _processing_limit_reached is a query of its own.
PollLimit(w) ==
    /\ wpc[w] = "poll"
    /\ wpc' = [wpc EXCEPT ![w] = IF Cardinality(Processing) + 1 > Limit THEN "idle" ELSE "claim"]
    /\ UNCHANGED <<job, clients, found, held, copy, result, runs, aged, crashes>>

\* Mutants: the poll query without its status filter, or with a wider one.
DueInAnyStatus == {j \in Jobs : job[j] # NoJob /\ job[j].due}
DueThoughProcessing == {j \in Jobs : job[j].status \in Active /\ job[j].due}

\* What the poll query selects.
Due == {j \in Jobs : job[j].status = "pending" /\ job[j].due}

\* ORDER BY priority, created_at, both ascending.
First(j) == \A i \in Due : \/ job[j].prio < job[i].prio
                           \/ job[j].prio = job[i].prio /\ j <= i

\* Mutant: the claim forgets to count the attempt.
ClaimUncounted(w) ==
    /\ wpc[w] = "claim"
    /\ \E j \in Due :
        /\ First(j)
        /\ job' = [job EXCEPT ![j].status = "processing", ![j].started = "fresh"]
        /\ held' = [held EXCEPT ![w] = j]
    /\ wpc' = [wpc EXCEPT ![w] = "claimed"]
    /\ UNCHANGED <<clients, found, copy, result, runs, aged, crashes>>

\* poll_next_job: FOR UPDATE SKIP LOCKED makes the claim one step.
Claim(w) ==
    /\ wpc[w] = "claim"
    /\ \E j \in Due :
        /\ First(j)
        /\ job' = [job EXCEPT ![j].status = "processing", ![j].started = "fresh",
                              ![j].attempts = @ + 1]
        /\ held' = [held EXCEPT ![w] = j]
    /\ wpc' = [wpc EXCEPT ![w] = "claimed"]
    /\ UNCHANGED <<clients, found, copy, result, runs, aged, crashes>>

NothingDue(w) ==
    /\ wpc[w] = "claim"
    /\ Due = {}
    /\ wpc' = [wpc EXCEPT ![w] = "idle"]
    /\ UNCHANGED <<job, clients, found, held, copy, result, runs, aged, crashes>>

\* _execute_job: the copy is refreshed, for an index promotion made meanwhile.
Refresh(w) ==
    /\ wpc[w] = "claimed"
    /\ copy' = [copy EXCEPT ![w] = job[held[w]]]
    /\ wpc' = [wpc EXCEPT ![w] = "running"]
    /\ UNCHANGED <<job, clients, found, held, result, runs, aged, crashes>>

\* The handler runs on the copy's payload and returns (nothing, or a value to be
\* stored in the payload), raises, or raises JobFatalError.
Run(w) ==
    /\ wpc[w] = "running"
    /\ runs' = [runs EXCEPT ![held[w]] = @ + 1]
    /\ \E o \in Outcomes \ {"none"} : result' = [result EXCEPT ![w] = o]
    /\ wpc' = [wpc EXCEPT ![w] = "finished"]
    /\ UNCHANGED <<job, clients, found, held, copy, aged, crashes>>

\* No handler is registered for the task type: it fails without a run.
NoHandler(w) ==
    /\ wpc[w] = "running"
    /\ result' = [result EXCEPT ![w] = "fatal"]
    /\ wpc' = [wpc EXCEPT ![w] = "finished"]
    /\ UNCHANGED <<job, clients, found, held, copy, runs, aged, crashes>>

\* An attribute is written only if it differs from its value in the copy.
Written(old, was, new) == IF new = was THEN old ELSE new

\* Mutant: one retry too many.
FinishedOffByOne(x, m, o) ==
    IF o \in {"ok", "value"} THEN
        [x EXCEPT !.status = Written(@, m.status, "completed"),
                  !.index = IF o = "value" THEN m.index ELSE @]
    ELSE IF o = "fatal" \/ m.attempts > MaxAttempts THEN
        [x EXCEPT !.status = Written(@, m.status, "failed"), !.index = m.index]
    ELSE
        [x EXCEPT !.status = Written(@, m.status, "pending"), !.index = m.index,
                  !.started = Written(@, m.started, "none"), !.due = FALSE]

\* complete_job and fail_job: x is the job in the table, m the copy.  fail_job, and
\* complete_job if it has a value to store, write the payload, and with it the
\* index flag, back from the copy.
Finished(x, m, o) ==
    IF o \in {"ok", "value"} THEN
        [x EXCEPT !.status = Written(@, m.status, "completed"),
                  !.index = IF o = "value" THEN m.index ELSE @]
    ELSE IF o = "fatal" \/ m.attempts >= MaxAttempts THEN
        [x EXCEPT !.status = Written(@, m.status, "failed"), !.index = m.index]
    ELSE
        [x EXCEPT !.status = Written(@, m.status, "pending"), !.index = m.index,
                  !.started = Written(@, m.started, "none"), !.due = FALSE]

Finish(w) ==
    /\ wpc[w] = "finished"
    /\ job' = [job EXCEPT ![held[w]] = Finished(@, copy[w], result[w])]
    /\ wpc' = [wpc EXCEPT ![w] = "idle"]
    /\ held' = [held EXCEPT ![w] = 0]
    /\ copy' = [copy EXCEPT ![w] = NoJob]
    /\ result' = [result EXCEPT ![w] = "none"]
    /\ UNCHANGED <<clients, found, runs, aged, crashes>>

\* The worker dies, or its loop drops the tick on a database error.
Crash(w) ==
    /\ crashes < MaxCrashes
    /\ wpc[w] # "idle"
    /\ crashes' = crashes + 1
    /\ wpc' = [wpc EXCEPT ![w] = "idle"]
    /\ found' = [found EXCEPT ![w] = {}]
    /\ held' = [held EXCEPT ![w] = 0]
    /\ copy' = [copy EXCEPT ![w] = NoJob]
    /\ result' = [result EXCEPT ![w] = "none"]
    /\ UNCHANGED <<job, clients, runs, aged>>

-----------------------------------------------------------------------------
(* Time.                                                                    *)

\* started_at passes the stale cutoff.
RunAges(j) ==
    /\ job[j].status = "processing" /\ job[j].started = "fresh"
    /\ Overrun \/ \A w \in Workers : held[w] # j
    /\ job' = [job EXCEPT ![j].started = "stale"]
    /\ aged' = aged \cup {j}
    /\ UNCHANGED <<clients, workers, runs, crashes>>

\* scheduled_at is reached.
BackoffElapses(j) ==
    /\ job[j].status = "pending" /\ ~job[j].due
    /\ job' = [job EXCEPT ![j].due = TRUE]
    /\ UNCHANGED <<clients, workers, runs, aged, crashes>>

-----------------------------------------------------------------------------
Submit(c) == SubmitDeduped(c) \/ SubmitNew(c) \/ SubmitInsert(c)
Work(w) == \/ RequeueRead(w) \/ RequeueWrite(w) \/ PollLimit(w) \/ Claim(w)
           \/ NothingDue(w) \/ Refresh(w) \/ Run(w) \/ NoHandler(w) \/ Finish(w)
Time(j) == RunAges(j) \/ BackoffElapses(j)

Next == \/ \E c \in Clients : Submit(c)
        \/ \E w \in Workers : Work(w) \/ Crash(w)
        \/ \E j \in Jobs : Time(j)

Spec == Init /\ [][Next]_vars

\* The workers keep polling, and time passes.
FairSpec == /\ Spec
            /\ \A w \in Workers : WF_vars(Work(w))
            /\ \A j \in Jobs : WF_vars(Time(j))

-----------------------------------------------------------------------------
(* Properties.                                                              *)

\* Jobs no second worker can have taken a claim of: the claim was never seen past
\* the stale timeout, or there is no other worker to see it.  Every update of the
\* others may come late, from a copy or a requeue list of somebody else's run.
Undisturbed == {j \in Jobs : j \notin aged \/ \A v, w \in Workers : v = w}

\* Every run of a handler was paid for by a claim: attempt_count is written
\* only under the claim's row lock, so no stale copy can give attempts back.
RunsAreAttempts == \A j \in Jobs : job[j] # NoJob => runs[j] <= job[j].attempts

\* max_attempts holds through retries, crashes and stale requeues, but for one claim
\* more from each other worker that requeues a job it saw before the last claim.
AttemptsBounded ==
    \A j \in Jobs : job[j] # NoJob =>
        job[j].attempts <= MaxAttempts + (IF j \in aged THEN Cardinality(Workers) - 1 ELSE 0)

\* A finished job stays finished (complete_job, fail_job), whatever the workers do
\* that run other jobs, crash or requeue.
FinishedIsFinal ==
    [][\A j \in Undisturbed : job[j].status \in {"completed", "failed"}
                                 => job'[j].status = job[j].status]_job

\* A dedupe key has at most one pending or processing job per client that can be
\* between the query and the insert: nothing else makes a second one (create_job).
DedupeUnique ==
    \A k \in Keys :
        Cardinality({j \in Undisturbed : job[j].status \in Active /\ job[j].key = k})
            <= Cardinality(Clients)

\* No two workers process the same job (FOR UPDATE SKIP LOCKED).
NoDoubleProcessing ==
    \A v, w \in Workers : held[v] = held[w] /\ held[v] # 0 => v = w

\* Nor do they after crashes and stale requeues, unless the stale timeout passed
\* for a claim of this very job.
ClaimsKeptApart ==
    \A v, w \in Workers : held[v] = held[w] /\ held[v] \in Jobs \ aged => v = w

\* The quota on processing jobs (_processing_limit_reached) is exceeded by no more
\* than the other workers that counted before a claim.
LimitKept == Cardinality(Processing) <= Limit + Cardinality(Workers) - 1

\* Every pending job is eventually completed or failed.
Settles == \A j \in Jobs : job[j].status = "pending" ~> job[j].status \in {"completed", "failed"}
=============================================================================
