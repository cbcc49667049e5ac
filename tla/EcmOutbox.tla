------------------------------ MODULE EcmOutbox ------------------------------
(***************************************************************************)
(* The PLM -> ECM publication outbox: the table                            *)
(* meta_ecm_publication_outbox, the enqueue done by a version release, the *)
(* drain workers, the operator's replay and the retention prune            *)
(* (ecm_publication/{models,service,worker}.py).                           *)
(*                                                                         *)
(* One row stands for one controlled file of one released version.  Rows   *)
(* are numbered in the order of their snapshot's released_at, and every    *)
(* row belongs to a lineage, its (item_id, file_role, target_system): the  *)
(* identity of the Athena document that successive versions overwrite.     *)
(*                                                                         *)
(* Sessions are READ COMMITTED with expire_on_commit off, so a worker      *)
(* works on copies made when it claimed its batch and writes back the      *)
(* attributes it changed, whatever the table holds by then.  A step below  *)
(* is one database transaction or one remote call.                         *)
(***************************************************************************)
EXTENDS Naturals, FiniteSets

CONSTANTS
    Rows,           \* the rows, numbered by released_at
    Lineage,        \* the lineage of each row
    Fps,            \* content fingerprints a controlled file can have
    Workers,        \* worker processes
    MaxAttempts,    \* max_attempts of a row
    BatchSize,      \* rows claimed per tick
    Retention,      \* is the retention prune switched on?
    MaxCrashes,     \* bound: worker crashes
    MaxReplays,     \* bound: operator replays
    MaxOverruns,    \* bound: claims that pass the stale timeout under a live worker
    MaxRaces        \* bound: releases of a version that raced another one

ASSUME RowsAreNumbered == Rows \subseteq Nat \ {0}
ASSUME LineageOfRows == Lineage \in [Rows -> Nat]
ASSUME BoundsAreNat == {MaxAttempts, MaxCrashes, MaxReplays, MaxRaces, MaxOverruns} \subseteq Nat
ASSUME SomeAttempts == MaxAttempts > 0
ASSUME BatchIsPositive == BatchSize \in Nat \ {0}
ASSUME ModesAreBoolean == Retention \in BOOLEAN

VARIABLES
    row,        \* the table: Rows -> a row record, or NoRow
    released,   \* versions whose release has run
    content,    \* the file as the database shows it now
    pc,         \* where a worker is in its tick
    queue,      \* claimed rows the worker has still to process
    cur,        \* the row being processed (0: none)
    mem,        \* the worker's in-memory copy of that row and of its batch
    found,      \* rows _reclaim_stale has read as stale
    expired,    \* a rollback has expired the worker's copies
    outcome,    \* reason of a failed attempt, NoReason for an acknowledged one
    enabled,    \* ECM_PUBLISH_ENABLED in the deployment
    cached,     \* its value in each worker's lru_cached settings
    doc,        \* Athena: the row whose content a lineage's document holds
    acked,      \* history: rows a send of which Athena has answered with success
    everSent,   \* history: rows some worker has committed as SENT
    sends,      \* history: send calls of a row since enqueue or replay
    crashes, replays, races, overruns   \* counters of the bounded events

local == <<pc, queue, cur, mem, found, expired, outcome, cached>>
remote == <<doc, acked, everSent, sends>>
bounds == <<crashes, replays, races, overruns>>
vars == <<row, released, content, local, enabled, remote, bounds>>

-----------------------------------------------------------------------------
NoRow == [state |-> "absent"]
NoReason == "none"
Retryable == {"remote_error", "adapter_error"}          \* _RETRYABLE
Reasons == Retryable \cup {NoReason, "not_eligible", "validation_error"}
States == {"pending", "sent", "failed", "skipped"}
PCs == {"idle", "reclaim", "claim", "batch", "checked", "ready", "done"}

\* claim abstracts worker_id / claimed_at against the stale cutoff, due
\* next_attempt_at against now, conflict properties["conflict_after_sent"].
Row == [state: States, reason: Reasons, fp: Fps, attempts: Nat,
        claim: {"none", "fresh", "stale"}, due: BOOLEAN, conflict: BOOLEAN]

Lineages == {Lineage[r] : r \in Rows}
Present(r) == row[r] # NoRow
Newer(r, s) == Lineage[r] = Lineage[s] /\ s > r
Holds(w, r) == r \in queue[w] \/ cur[w] = r

\* Mutant: the released_at comparison the wrong way round.
SupersededByOlder(r) == \E s \in Rows : Newer(s, r) /\ row[s].state = "sent"

\* A SENT row of the same lineage with a newer released_at.
Superseded(r) == \E s \in Rows : Newer(r, s) /\ row[s].state = "sent"

TypeOK ==
    /\ row \in [Rows -> Row \cup {NoRow}]
    /\ released \subseteq Rows
    /\ content \in [Rows -> Fps \cup {"nofile", "noversion"}]
    /\ pc \in [Workers -> PCs]
    /\ queue \in [Workers -> SUBSET Rows]
    /\ cur \in [Workers -> Rows \cup {0}]
    /\ mem \in [Workers -> [Rows -> Row \cup {NoRow}]]
    /\ found \in [Workers -> SUBSET Rows]
    /\ expired \in [Workers -> BOOLEAN]
    /\ outcome \in [Workers -> Reasons]
    /\ enabled \in BOOLEAN
    /\ cached \in [Workers -> BOOLEAN]
    /\ doc \in [Lineages -> Rows \cup {0}]
    /\ acked \subseteq Rows
    /\ everSent \subseteq Rows
    /\ sends \in [Rows -> Nat]
    /\ crashes \in Nat /\ replays \in Nat /\ races \in Nat /\ overruns \in Nat

Init ==
    /\ row = [r \in Rows |-> NoRow]
    /\ released = {}
    /\ content \in [Rows -> Fps]
    /\ pc = [w \in Workers |-> "idle"]
    /\ queue = [w \in Workers |-> {}]
    /\ cur = [w \in Workers |-> 0]
    /\ mem = [w \in Workers |-> [r \in Rows |-> NoRow]]
    /\ found = [w \in Workers |-> {}]
    /\ expired = [w \in Workers |-> FALSE]
    /\ outcome = [w \in Workers |-> NoReason]
    /\ enabled = TRUE
    /\ cached = [w \in Workers |-> TRUE]
    /\ doc = [l \in Lineages |-> 0]
    /\ acked = {}
    /\ everSent = {}
    /\ sends = [r \in Rows |-> 0]
    /\ crashes = 0 /\ replays = 0 /\ races = 0 /\ overruns = 0

-----------------------------------------------------------------------------
(* The release side: VersionService.release -> enqueue_release.  The whole  *)
(* call is one transaction.                                                 *)

NewRow(fp) == [state |-> "pending", reason |-> NoReason, fp |-> fp,
               attempts |-> 0, claim |-> "none", due |-> TRUE, conflict |-> FALSE]

\* No row is created when the kill switch is off, the tenant is not entitled, the
\* version carries two files of the role, or the enqueue's SAVEPOINT rolls back.
Release(r) ==
    /\ r \notin released
    /\ released' = released \cup {r}
    /\ \/ /\ enabled /\ content[r] \in Fps
          /\ row' = [row EXCEPT ![r] = NewRow(content[r])]
       \/ UNCHANGED row
    /\ UNCHANGED <<content, local, enabled, remote, bounds>>

\* _enqueue_existing: the row a second release of the version finds.  The new
\* snapshot has that release's released_at: it is assumed to keep the row's place,
\* no later version having been released between the two requests.
Reenqueued(x, fp) ==
    IF x.fp = fp THEN x
    ELSE IF x.state = "sent" THEN [x EXCEPT !.conflict = TRUE]
    ELSE [x EXCEPT !.fp = fp, !.state = "pending", !.reason = NoReason]

\* release() returns early for a released version, so a second enqueue needs a
\* request that read the version before the first one committed.
RacingRelease(r) ==
    /\ races < MaxRaces
    /\ r \in released /\ Present(r)
    /\ enabled /\ content[r] \in Fps
    /\ row' = [row EXCEPT ![r] = Reenqueued(row[r], content[r])]
    /\ races' = races + 1
    /\ UNCHANGED <<released, content, local, enabled, remote, crashes, replays, overruns>>

\* The file or its metadata changes, is detached, or its version is deleted.
FileChanges(r) ==
    /\ \E c \in Fps \cup {"nofile", "noversion"} : content' = [content EXCEPT ![r] = c]
    /\ UNCHANGED <<row, released, local, enabled, remote, bounds>>

-----------------------------------------------------------------------------
(* The worker's tick: run_once_with_session.                                *)

\* _reclaim_stale, its SELECT: no row is locked.
ReclaimRead(w) ==
    /\ pc[w] = "idle"
    /\ found' = [found EXCEPT ![w] =
                    {r \in Rows : row[r].state = "pending" /\ row[r].claim = "stale"}]
    /\ pc' = [pc EXCEPT ![w] = IF found'[w] = {} THEN "claim" ELSE "reclaim"]
    /\ UNCHANGED <<row, released, content, queue, cur, mem, expired, outcome,
                   cached, enabled, remote, bounds>>

\* _reclaim_stale, its UPDATE by primary key: it clears whatever claim is there.
ReclaimWrite(w) ==
    /\ pc[w] = "reclaim"
    /\ row' = [r \in Rows |-> IF r \in found[w] /\ Present(r)
                              THEN [row[r] EXCEPT !.claim = "none"] ELSE row[r]]
    /\ found' = [found EXCEPT ![w] = {}]
    /\ pc' = [pc EXCEPT ![w] = "claim"]
    /\ UNCHANGED <<released, content, queue, cur, mem, expired, outcome,
                   cached, enabled, remote, bounds>>

\* Mutants: the query without its state filter, or without its claim filter.
ClaimableInAnyState(r) == row[r] # NoRow /\ row[r].due /\ row[r].claim \in {"none", "stale"}
ClaimableThoughClaimed(r) == row[r].state = "pending" /\ row[r].due

Claimable(r) == /\ row[r].state = "pending"
                /\ row[r].due
                /\ row[r].claim \in {"none", "stale"}

\* The size of the next batch of candidates c.
BatchOf(c) == IF Cardinality(c) < BatchSize THEN Cardinality(c) ELSE BatchSize

\* _claim_batch: FOR UPDATE SKIP LOCKED, so reading and claiming are one step.
\* The kill switch is read from the process's cached settings.
ClaimBatch(w) ==
    /\ pc[w] = "claim"
    /\ LET due == IF cached[w] THEN {r \in Rows : Claimable(r)} ELSE {}
       IN \E batch \in SUBSET due :
            /\ Cardinality(batch) = BatchOf(due)
            /\ row' = [r \in Rows |-> IF r \in batch
                                      THEN [row[r] EXCEPT !.claim = "fresh"] ELSE row[r]]
            /\ queue' = [queue EXCEPT ![w] = batch]
            /\ mem' = [mem EXCEPT ![w] = [r \in Rows |-> IF r \in batch THEN row'[r] ELSE NoRow]]
            /\ pc' = [pc EXCEPT ![w] = IF batch = {} THEN "idle" ELSE "batch"]
    /\ UNCHANGED <<released, content, cur, found, expired, outcome, cached,
                   enabled, remote, bounds>>

\* Leaving row r: the worker goes on with the rest of its batch.
NextInBatch(w, r) ==
    /\ queue' = [queue EXCEPT ![w] = @ \ {r}]
    /\ cur' = [cur EXCEPT ![w] = 0]
    /\ mem' = [mem EXCEPT ![w][r] = NoRow]
    /\ outcome' = [outcome EXCEPT ![w] = NoReason]
    /\ pc' = [pc EXCEPT ![w] = IF queue'[w] = {} THEN "idle" ELSE "batch"]
    /\ expired' = [expired EXCEPT ![w] = @ /\ queue'[w] # {}]
    /\ UNCHANGED <<released, content, found, cached, enabled>>

\* The copy of r the worker works on: a rollback makes it reload the row.
Copy(w, r) == IF expired[w] THEN row[r] ELSE mem[w][r]

\* Mutant: the reason written into the state column.
SkippedAsState(old, x) == [old EXCEPT !.state = "not_eligible", !.conflict = x.conflict]

\* SKIPPED/not_eligible, properties rewritten from the copy x.
Skipped(old, x) == [old EXCEPT !.state = "skipped", !.reason = "not_eligible",
                               !.conflict = x.conflict]

\* _process_row: the version is gone, or a newer publish of the lineage is SENT.
SkipRow(w) ==
    /\ pc[w] = "batch"
    /\ \E r \in queue[w] :
        /\ Present(r)
        /\ content[r] = "noversion" \/ Superseded(r)
        /\ row' = [row EXCEPT ![r] = [Skipped(@, Copy(w, r)) EXCEPT !.claim = "none"]]
        /\ NextInBatch(w, r)
    /\ UNCHANGED <<remote, bounds>>

\* Mutant: the worker does not ask for a newer publish before it processes a row.
CheckRowUnguarded(w) ==
    /\ pc[w] = "batch"
    /\ \E r \in queue[w] :
        /\ Present(r) \/ ~expired[w]
        /\ mem' = [mem EXCEPT ![w][r] = Copy(w, r)]
        /\ queue' = [queue EXCEPT ![w] = @ \ {r}]
        /\ cur' = [cur EXCEPT ![w] = r]
    /\ pc' = [pc EXCEPT ![w] = "checked"]
    /\ UNCHANGED <<row, released, content, found, expired, outcome, cached,
                   enabled, remote, bounds>>

\* Latest-wins holds at this read: process() starts.
CheckRow(w) ==
    /\ pc[w] = "batch"
    /\ \E r \in queue[w] :
        /\ Present(r) \/ ~expired[w]
        /\ content[r] # "noversion" /\ ~Superseded(r)
        /\ mem' = [mem EXCEPT ![w][r] = Copy(w, r)]
        /\ queue' = [queue EXCEPT ![w] = @ \ {r}]
        /\ cur' = [cur EXCEPT ![w] = r]
    /\ pc' = [pc EXCEPT ![w] = "checked"]
    /\ UNCHANGED <<row, released, content, found, expired, outcome, cached,
                   enabled, remote, bounds>>

\* A row pruned under the worker: outside process() the error ends the tick.
AbortTick(w) ==
    /\ pc[w] = "batch"
    /\ \E r \in queue[w] :
        /\ ~Present(r)
        /\ expired[w] \/ content[r] = "noversion" \/ Superseded(r)
    /\ pc' = [pc EXCEPT ![w] = "idle"]
    /\ queue' = [queue EXCEPT ![w] = {}]
    /\ mem' = [mem EXCEPT ![w] = [r \in Rows |-> NoRow]]
    /\ expired' = [expired EXCEPT ![w] = FALSE]
    /\ UNCHANGED <<row, released, content, cur, found, outcome, cached, enabled,
                   remote, bounds>>

Allowed(w) == mem[w][cur[w]].state = "pending" /\ content[cur[w]] = mem[w][cur[w]].fp

\* process: _revalidate_allows_send says no (detached file or drifted content);
\* the claim stays on the row.
RevalidateRejects(w) ==
    /\ pc[w] = "checked"
    /\ LET r == cur[w] IN
        /\ Present(r) /\ mem[w][r].state = "pending" /\ content[r] # mem[w][r].fp
        /\ row' = [row EXCEPT ![r] = Skipped(@, mem[w][r])]
        /\ NextInBatch(w, r)
    /\ UNCHANGED <<remote, bounds>>

\* process: revalidated; build_payload and validate_contract succeed, and the
\* only pre-send bump of attempt_count is made.
Prepare(w) ==
    /\ pc[w] = "checked"
    /\ Allowed(w)
    /\ mem' = [mem EXCEPT ![w][cur[w]].attempts = @ + 1]
    /\ pc' = [pc EXCEPT ![w] = "ready"]
    /\ UNCHANGED <<row, released, content, queue, cur, found, expired, outcome,
                   cached, enabled, remote, bounds>>

\* Mutant: guard #1 missing, a pre-send adapter_error consumes no attempt.
PrepareFailsUncounted(w) ==
    /\ pc[w] = "checked"
    /\ Allowed(w)
    /\ \E why \in {"adapter_error", "validation_error"} :
        outcome' = [outcome EXCEPT ![w] = why]
    /\ pc' = [pc EXCEPT ![w] = "done"]
    /\ UNCHANGED <<row, released, content, queue, cur, mem, found, expired, cached,
                   enabled, remote, bounds>>

\* process: build_payload raises (counted later, by reschedule_retry) or
\* validate_contract refuses (never counted).
PrepareFails(w) ==
    /\ pc[w] = "checked"
    /\ Allowed(w)
    /\ \E why \in {"adapter_error", "validation_error"} :
        /\ outcome' = [outcome EXCEPT ![w] = why]
        /\ mem' = [mem EXCEPT ![w][cur[w]].attempts =
                        IF why = "adapter_error" THEN @ + 1 ELSE @]
    /\ pc' = [pc EXCEPT ![w] = "done"]
    /\ UNCHANGED <<row, released, content, queue, cur, found, expired, cached,
                   enabled, remote, bounds>>

\* adapter.send.  Athena overwrites the lineage's document with the row's content
\* or leaves it as it is, and either way may answer with success: a disposition
\* UNCHANGED or SKIPPED is one.  Otherwise the answer is lost or refuses
\* (remote_error, adapter_error), or is one the adapter rejects (validation_error).
Send(w) ==
    /\ pc[w] = "ready"
    /\ sends' = [sends EXCEPT ![cur[w]] = @ + 1]
    /\ \/ doc' = [doc EXCEPT ![Lineage[cur[w]]] = cur[w]]
       \/ UNCHANGED doc
    /\ \/ /\ outcome' = [outcome EXCEPT ![w] = NoReason]
          /\ acked' = acked \cup {cur[w]}
       \/ /\ \E o \in Retryable \cup {"validation_error"} : outcome' = [outcome EXCEPT ![w] = o]
          /\ UNCHANGED acked
    /\ pc' = [pc EXCEPT ![w] = "done"]
    /\ UNCHANGED <<row, released, content, queue, cur, mem, found, expired,
                   cached, enabled, everSent, bounds>>

\* process's result written back: old is the row in the table, x the copy.
Sent(old, x) == [old EXCEPT !.state = "sent", !.attempts = x.attempts,
                            !.conflict = x.conflict]
Failed(old, x, why) == [old EXCEPT !.state = "failed", !.reason = why,
                                   !.attempts = x.attempts]

\* reschedule_retry.
Rescheduled(old, x, why) ==
    IF x.attempts >= MaxAttempts
    THEN [Failed(old, x, why) EXCEPT !.claim = "none"]
    ELSE [old EXCEPT !.state = "pending", !.reason = NoReason, !.claim = "none",
                     !.due = FALSE, !.attempts = x.attempts]

\* Mutant: the send result is not looked at.
ResultIgnored(old, x, why) == Sent(old, x)

Result(old, x, why) ==
    IF why = NoReason THEN Sent(old, x)
    ELSE IF why \in Retryable THEN Rescheduled(old, x, why)
    ELSE Failed(old, x, why)

Commit(w) ==
    /\ pc[w] = "done"
    /\ Present(cur[w])
    /\ row' = [row EXCEPT ![cur[w]] = Result(@, mem[w][cur[w]], outcome[w])]
    /\ everSent' = IF outcome[w] = NoReason THEN everSent \cup {cur[w]} ELSE everSent
    /\ NextInBatch(w, cur[w])
    /\ UNCHANGED <<doc, acked, sends, bounds>>

\* Mutant: an exception releases the claim and consumes no attempt.
DeferredUncounted(old) == [old EXCEPT !.claim = "none", !.due = FALSE]

\* _process_row's except branch: the row is read anew and an attempt consumed.
Deferred(old) ==
    LET x == [old EXCEPT !.attempts = @ + 1, !.claim = "none"]
    IN IF x.attempts >= MaxAttempts
       THEN [x EXCEPT !.state = "failed", !.reason = "remote_error"]
       ELSE [x EXCEPT !.due = FALSE]

\* process() raises: in the revalidation, for a copy that is no longer pending,
\* or at the flush of its result.  The rollback drops that result and the copies;
\* for a row pruned meanwhile the handler itself raises, which ends the tick.
ProcessRaises(w) ==
    /\ pc[w] \in {"checked", "done"}
    /\ LET r == cur[w] IN
        /\ row' = IF Present(r) THEN [row EXCEPT ![r] = Deferred(@)] ELSE row
        /\ queue' = [queue EXCEPT ![w] = IF Present(r) THEN @ \ {r} ELSE {}]
        /\ cur' = [cur EXCEPT ![w] = 0]
        /\ mem' = [mem EXCEPT ![w] = [s \in Rows |-> NoRow]]
        /\ outcome' = [outcome EXCEPT ![w] = NoReason]
        /\ pc' = [pc EXCEPT ![w] = IF queue'[w] = {} THEN "idle" ELSE "batch"]
        /\ expired' = [expired EXCEPT ![w] = queue'[w] # {}]
    /\ UNCHANGED <<released, content, found, cached, enabled, remote, bounds>>

\* The process dies and restarts, reading its settings afresh.  What Athena
\* has applied stays applied, what was not committed is lost.
Crash(w) ==
    /\ crashes < MaxCrashes
    /\ crashes' = crashes + 1
    /\ pc' = [pc EXCEPT ![w] = "idle"]
    /\ queue' = [queue EXCEPT ![w] = {}]
    /\ cur' = [cur EXCEPT ![w] = 0]
    /\ mem' = [mem EXCEPT ![w] = [r \in Rows |-> NoRow]]
    /\ found' = [found EXCEPT ![w] = {}]
    /\ expired' = [expired EXCEPT ![w] = FALSE]
    /\ outcome' = [outcome EXCEPT ![w] = NoReason]
    /\ cached' = [cached EXCEPT ![w] = enabled]
    /\ UNCHANGED <<row, released, content, enabled, remote, replays, races, overruns>>

-----------------------------------------------------------------------------
(* Time, the operator and the retention job.                                *)

\* claimed_at passes the stale cutoff.
ClaimAges(r) ==
    /\ row[r].state = "pending" /\ row[r].claim = "fresh"
    /\ LET live == \E w \in Workers : Holds(w, r)
       IN  /\ live => overruns < MaxOverruns
           /\ overruns' = IF live THEN overruns + 1 ELSE overruns
    /\ row' = [row EXCEPT ![r].claim = "stale"]
    /\ UNCHANGED <<released, content, local, enabled, remote, crashes, replays, races>>

\* next_attempt_at is reached.
BackoffElapses(r) ==
    /\ row[r].state = "pending" /\ ~row[r].due
    /\ row' = [row EXCEPT ![r].due = TRUE]
    /\ UNCHANGED <<released, content, local, enabled, remote, bounds>>

\* replay: a retryable FAILED row starts afresh.
Replay(r) ==
    /\ replays < MaxReplays
    /\ row[r].state = "failed" /\ row[r].reason \in Retryable
    /\ row' = [row EXCEPT ![r] = [@ EXCEPT !.state = "pending", !.reason = NoReason,
                                   !.attempts = 0, !.claim = "none", !.due = TRUE]]
    /\ sends' = [sends EXCEPT ![r] = 0]
    /\ replays' = replays + 1
    /\ UNCHANGED <<released, content, local, enabled, doc, acked,
                   everSent, crashes, races, overruns>>

\* prune_terminal: a SENT row past the retention is deleted unless its
\* conflict flag is set.
Prune(r) ==
    /\ Retention
    /\ row[r].state = "sent" /\ ~row[r].conflict
    /\ row' = [row EXCEPT ![r] = NoRow]
    /\ UNCHANGED <<released, content, local, enabled, remote, bounds>>

\* Ops turn ECM_PUBLISH_ENABLED off.
SwitchOff ==
    /\ enabled /\ enabled' = FALSE
    /\ UNCHANGED <<row, released, content, local, remote, bounds>>

-----------------------------------------------------------------------------
Tick(w) == \/ ReclaimRead(w) \/ ReclaimWrite(w) \/ ClaimBatch(w) \/ SkipRow(w)
           \/ CheckRow(w) \/ AbortTick(w) \/ RevalidateRejects(w) \/ Prepare(w)
           \/ PrepareFails(w) \/ Send(w) \/ Commit(w) \/ ProcessRaises(w)
Time(r) == ClaimAges(r) \/ BackoffElapses(r)

Next == \/ \E w \in Workers : Tick(w) \/ Crash(w)
        \/ \E r \in Rows : \/ Time(r) \/ Release(r) \/ RacingRelease(r)
                           \/ FileChanges(r) \/ Replay(r) \/ Prune(r)
        \/ SwitchOff

Spec == Init /\ [][Next]_vars

\* The daemon loop keeps ticking, and time passes.
FairSpec == /\ Spec
            /\ \A w \in Workers : WF_vars(Tick(w))
            /\ \A r \in Rows : WF_vars(Time(r))

-----------------------------------------------------------------------------
(* Properties.                                                              *)

\* A row recorded as SENT is one that Athena has acknowledged, whatever workers,
\* crashes and stale copies did on the way (process writes SENT only for an ok
\* result); whether it applied the content is not for the outbox to know.
SentWasAcknowledged == \A r \in Rows : row[r].state = "sent" => r \in acked

\* The whole protocol of a single drain worker is an outbox as PublicationOutbox
\* promises it: claims, copies, rollbacks, reschedules and crashes add no step to it.
Outbox == INSTANCE PublicationOutbox
            WITH state <- [r \in Rows |-> row[r].state],
                 acknowledged <- acked,
                 shown <- doc
OutboxSpec == Outbox!Spec

\* Latest-wins (_superseded_by_newer_sent): once a version has been recorded as
\* SENT, no older version overwrites the lineage's document.
LatestWins ==
    [][\A r \in everSent :
          doc'[Lineage[r]] # doc[Lineage[r]] => doc'[Lineage[r]] >= r]_doc

\* SENT is terminal: no reclaim, retry, exception path or racing release takes
\* a row out of it; only the retention prune removes it.
SentIsFinal ==
    [][\A r \in Rows : row[r].state = "sent" => row'[r].state \in {"sent", "absent"}]_row

\* max_attempts bounds the send calls of a row: a crash can hide one send from
\* attempt_count, and a racing re-enqueue reopens a dead letter for one more.
SendsWithinBudget == \A r \in Rows : sends[r] <= MaxAttempts + crashes + races

\* A claimed row is worked on by one worker at a time, the stale reclaim and the
\* operator notwithstanding, until a claim is left behind: by a worker that crashes or
\* outlives it, or by a racing release that reopens a settled row, claim and all.
ClaimExclusive ==
    (crashes = 0 /\ overruns = 0 /\ races = 0) =>
        \A r \in Rows, v, w \in Workers : Holds(v, r) /\ Holds(w, r) => v = w

\* Every pending row is eventually settled -- sent, skipped or dead-lettered --
\* as long as the kill switch stays on: backoff, stale claims and exceptions
\* cannot defer it for ever.
Settles ==
    \A r \in Rows : row[r].state = "pending" ~> (row[r].state # "pending" \/ ~enabled)
=============================================================================
