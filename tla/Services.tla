------------------------------- MODULE Services -------------------------------
(***************************************************************************)
(* Components side by side: a behaviour is one of the module named by      *)
(* part, and the variables of the others are 0 throughout (those of Eco    *)
(* and of NotificationOutbox, whose properties are stated as they are, in  *)
(* their initial state).  EcmOutbox prunes nothing here.                   *)
(***************************************************************************)
EXTENDS Eco

CONSTANTS
    \* Numbering; Callers are also the requests of Events, BomLines and Writeback
    Items, Callers, FirstNumber, TokenMode, MaxNumber,
    \* EcoActivities
    MaxActivities, Blocking, Targets,
    \* NotificationOutbox; MaxAttempts is also that of EcmOutbox, MaxCrashes that of the
    \* other queues
    Deliveries, NoAddress, Workers, BatchSize, MaxAttempts, MaxCrashes, MaxOverruns,
    \* MesInbox
    Keys, Payloads, Drains,
    \* Promotion
    LifeStates, Arcs, StartState, ReleasedState, Obsolete, Permission, Flow, FlowSteps, Route,
    \* Events
    IndexedItems, ItemContents, MaxPending,
    \* BomLines
    Parts, MaxLines,
    \* Writeback
    Lines, Cells, Values, CellKeys, MaxWrites, MaxEdits,
    \* Breaker
    Calls, Threshold, MaxProbes,
    \* JobQueue
    Jobs, JobKeys, Priorities, Indexing, Clients, JobWorkers, JobAttempts, Limit,
    \* EcmOutbox
    Rows, Lineage, Fps, EcmWorkers, EcmBatch, MaxReplays, EcmOverruns, MaxRaces

\* What EcmOutbox and JobQueue assume of their constants.
ASSUME QueueConstants ==
    /\ Rows \subseteq Nat \ {0} /\ Lineage \in [Rows -> Nat] /\ EcmBatch \in Nat \ {0}
    /\ {MaxCrashes, MaxReplays, MaxRaces, EcmOverruns} \subseteq Nat
    /\ {MaxAttempts, JobAttempts} \subseteq Nat \ {0} /\ Indexing \subseteq BOOLEAN
    /\ Jobs \subseteq Nat \ {0} /\ Priorities \subseteq Nat /\ Limit \in Nat \ {0}

\* A sequence starts at a positive number; calls, workers and parts are finitely many.
ASSUME NumbersArePositive == FirstNumber \in Nat \ {0} /\ MaxNumber \in Nat
ASSUME FinitelyMany == IsFiniteSet(Calls) /\ IsFiniteSet(Workers) /\ IsFiniteSet(Parts)

\* A payload is not mistaken for the lack of one, nor an item for its absence; a
\* delivery has a number that is not 0.
ASSUME NamesAreApart ==
    /\ "none" \notin Payloads
    /\ ItemContents \cap {"absent", "gone", "same", "nothing"} = {}
    /\ Deliveries \subseteq Nat \ {0} /\ BatchSize \in Nat

\* A bulk transition is asked for one of the statuses an activity has.
ASSUME BulkConstants ==
    /\ MaxActivities \in Nat
    /\ Targets \subseteq {"pending", "active", "completed", "canceled", "exception"}

\* The arcs of a lifecycle map join its states, of which the released one is not the first.
ASSUME MapIsWhole ==
    Arcs \subseteq LifeStates \X LifeStates /\ StartState \in LifeStates \ {ReleasedState}

VARIABLES
    part,
    \* Numbering
    status, number, explicit, last, raised, mine, view, scanned, seen,
    \* EcoActivities
    act, bulk,
    \* NotificationOutbox
    delivery, sending, count, stale, answer, mails, accepted, confirmed, died, overran,
    \* MesInbox
    inbox, record, drained, attempt, shared,
    \* Promotion
    item, versionable,
    \* Events
    store, work, pending, feed, got, index, spoiled,
    \* BomLines
    lines, new, missed, unchecked,
    \* Writeback
    line, audit, asked, edits, mixed,
    \* Breaker
    state, failures, inflight, call,
    \* JobQueue
    job, cpc, request, wpc, late, held, copy, result, runs, aged, jobCrashes,
    \* EcmOutbox
    row, released, content, pc, queue, cur, mem, found, expired, outcome, enabled,
    cached, doc, acked, everSent, sends, crashes, replays, races, overruns

numVars == <<status, number, explicit, last, raised, mine, view, scanned, seen>>
actVars == <<act, bulk>>
noteVars == <<delivery, sending, count, stale, answer, mails, accepted, confirmed, died, overran>>
mesVars == <<inbox, record, drained, attempt, shared>>
lifeVars == <<item, versionable>>
eventVars == <<store, work, pending, feed, got, index, spoiled>>
bomVars == <<lines, new, missed, unchecked>>
cellVars == <<line, audit, asked, edits, mixed>>
breakerVars == <<state, failures, inflight, call>>
jobVars == <<job, cpc, request, wpc, late, held, copy, result, runs, aged, jobCrashes>>
ecmVars == <<row, released, content, pc, queue, cur, mem, found, expired, outcome,
             enabled, cached, doc, acked, everSent, sends, crashes, replays, races,
             overruns>>

NumOff ==
    /\ status = 0 /\ number = 0 /\ explicit = 0 /\ last = 0 /\ raised = 0
    /\ mine = 0 /\ view = 0 /\ scanned = 0 /\ seen = 0
ActOff ==
    /\ act = 0 /\ bulk = 0
MesOff ==
    /\ inbox = 0 /\ record = 0 /\ drained = 0 /\ attempt = 0 /\ shared = 0
LifeOff ==
    /\ item = 0 /\ versionable = 0
EventsOff ==
    /\ store = 0 /\ work = 0 /\ pending = 0 /\ feed = 0 /\ got = 0
    /\ index = 0 /\ spoiled = 0
BomOff ==
    /\ lines = 0 /\ new = 0 /\ missed = 0 /\ unchecked = 0
CellsOff ==
    /\ line = 0 /\ audit = 0 /\ asked = 0 /\ edits = 0 /\ mixed = 0
BreakerOff ==
    /\ state = 0 /\ failures = 0 /\ inflight = 0 /\ call = 0
JobsOff ==
    /\ job = 0 /\ cpc = 0 /\ request = 0 /\ wpc = 0 /\ late = 0
    /\ held = 0 /\ copy = 0 /\ result = 0 /\ runs = 0 /\ aged = 0
    /\ jobCrashes = 0
EcmOff ==
    /\ row = 0 /\ released = 0 /\ content = 0 /\ pc = 0 /\ queue = 0
    /\ cur = 0 /\ mem = 0 /\ found = 0 /\ expired = 0 /\ outcome = 0
    /\ enabled = 0 /\ cached = 0 /\ doc = 0 /\ acked = 0 /\ everSent = 0
    /\ sends = 0 /\ crashes = 0 /\ replays = 0 /\ races = 0 /\ overruns = 0

Num == INSTANCE Numbering WITH Requests <- Callers, Start <- FirstNumber

Act == INSTANCE EcoActivities

Note == INSTANCE NotificationOutbox
    WITH row <- delivery, batch <- sending, found <- stale, sends <- mails,
         crashes <- died, overruns <- overran

Mes == INSTANCE MesInbox WITH batch <- drained, copy <- attempt

Life == INSTANCE Promotion
    WITH States <- LifeStates, Released <- ReleasedState, Activities <- FlowSteps

Ev == INSTANCE Events
    WITH Items <- IndexedItems, Contents <- ItemContents, Requests <- Callers

Bom == INSTANCE BomLines WITH Requests <- Callers, stale <- missed

Cell == INSTANCE Writeback WITH Keys <- CellKeys, Requests <- Callers, req <- asked

Brk == INSTANCE Breaker

Queue == INSTANCE JobQueue
    WITH Keys <- JobKeys, Workers <- JobWorkers, MaxAttempts <- JobAttempts, Overrun <- FALSE,
         found <- late, crashes <- jobCrashes

Ecm == INSTANCE EcmOutbox
    WITH Workers <- EcmWorkers, BatchSize <- EcmBatch, Retention <- FALSE,
         MaxOverruns <- EcmOverruns

-----------------------------------------------------------------------------
SumInit ==
    /\ part \in {"numbering", "activities", "notifications", "mes", "promotion",
                "events", "bom", "writeback", "breaker", "jobs", "ecm", "eco"}
    /\ Init
    /\ Note!Init
    /\ IF part = "numbering" THEN Num!Init ELSE NumOff
    /\ IF part = "activities" THEN Act!Init ELSE ActOff
    /\ IF part = "mes" THEN Mes!Init ELSE MesOff
    /\ IF part = "promotion" THEN Life!Init ELSE LifeOff
    /\ IF part = "events" THEN Ev!Init ELSE EventsOff
    /\ IF part = "bom" THEN Bom!Init ELSE BomOff
    /\ IF part = "writeback" THEN Cell!Init ELSE CellsOff
    /\ IF part = "breaker" THEN Brk!Init ELSE BreakerOff
    /\ IF part = "jobs" THEN Queue!Init ELSE JobsOff
    /\ IF part = "ecm" THEN Ecm!Init ELSE EcmOff

SumNext ==
    \/ /\ part = "numbering" /\ Num!Next
       /\ UNCHANGED <<part, vars, actVars, noteVars, mesVars, lifeVars, eventVars, bomVars,
                      cellVars, breakerVars, jobVars, ecmVars>>
    \/ /\ part = "activities" /\ Act!Next
       /\ UNCHANGED <<part, vars, numVars, noteVars, mesVars, lifeVars, eventVars, bomVars,
                      cellVars, breakerVars, jobVars, ecmVars>>
    \/ /\ part = "notifications" /\ Note!Next
       /\ UNCHANGED <<part, vars, numVars, actVars, mesVars, lifeVars, eventVars, bomVars,
                      cellVars, breakerVars, jobVars, ecmVars>>
    \/ /\ part = "mes" /\ Mes!Next
       /\ UNCHANGED <<part, vars, numVars, actVars, noteVars, lifeVars, eventVars, bomVars,
                      cellVars, breakerVars, jobVars, ecmVars>>
    \/ /\ part = "promotion" /\ Life!Next
       /\ UNCHANGED <<part, vars, numVars, actVars, noteVars, mesVars, eventVars, bomVars,
                      cellVars, breakerVars, jobVars, ecmVars>>
    \/ /\ part = "events" /\ Ev!Next
       /\ UNCHANGED <<part, vars, numVars, actVars, noteVars, mesVars, lifeVars, bomVars,
                      cellVars, breakerVars, jobVars, ecmVars>>
    \/ /\ part = "bom" /\ Bom!Next
       /\ UNCHANGED <<part, vars, numVars, actVars, noteVars, mesVars, lifeVars, eventVars,
                      cellVars, breakerVars, jobVars, ecmVars>>
    \/ /\ part = "writeback" /\ Cell!Next
       /\ UNCHANGED <<part, vars, numVars, actVars, noteVars, mesVars, lifeVars, eventVars,
                      bomVars, breakerVars, jobVars, ecmVars>>
    \/ /\ part = "breaker" /\ Brk!Next
       /\ UNCHANGED <<part, vars, numVars, actVars, noteVars, mesVars, lifeVars, eventVars,
                      bomVars, cellVars, jobVars, ecmVars>>
    \/ /\ part = "jobs" /\ Queue!Next
       /\ UNCHANGED <<part, vars, numVars, actVars, noteVars, mesVars, lifeVars, eventVars,
                      bomVars, cellVars, breakerVars, ecmVars>>
    \/ /\ part = "ecm" /\ Ecm!Next
       /\ UNCHANGED <<part, vars, numVars, actVars, noteVars, mesVars, lifeVars, eventVars,
                      bomVars, cellVars, breakerVars, jobVars>>
    \/ /\ part = "eco" /\ Next
       /\ UNCHANGED <<part, numVars, actVars, noteVars, mesVars, lifeVars, eventVars,
                      bomVars, cellVars, breakerVars, jobVars, ecmVars>>

sumVars == <<part, vars, numVars, actVars, noteVars, mesVars, lifeVars, eventVars, bomVars,
          cellVars, breakerVars, jobVars, ecmVars>>
SumSpec == SumInit /\ [][SumNext]_sumVars

-----------------------------------------------------------------------------
(* The properties of the parts, as their modules state them.                *)

\* Overlapping transactions, rolled back or not, give no two items one number
\* (numbering_service.py).
NumbersUnique == part = "numbering" => Num!NumbersUnique

\* A bulk transition leaves no activity of its set that could still be moved, and
\* moves none before the ones it depends on, in whatever order it visits them
\* (transition_activities_bulk).
BulkIsComplete == part = "activities" => Act!BulkIsComplete
BulkKeepsOrder == part = "activities" => Act!BulkKeepsOrder

\* A notification is sent at most MaxAttempts times, and once more for each crash or
\* claim that was outlived (notifications/worker.py).
SendsWithinBudget == Note!SendsWithinBudget

\* The notification outbox, its lost answers and crashes included, is the abstract
\* outbox: what is recorded as sent the adapter has answered ok for.
OutboxSpec == Note!OutboxSpec

\* An inbox row that says processed, or a duplicate, has its consumption recorded with
\* the payload it carries, and one refused for good has not counted
\* (consumption_mes_inbox_service.py).
ProcessedIsRecorded == part = "mes" => Mes!ProcessedIsRecorded
RefusedIsNotCounted == part = "mes" => Mes!RefusedIsNotCounted

\* Through failed hooks, nested promotes and workflows an item has the permission of its
\* state, and a released one its released version if it has versions
\* (lifecycle/service.py).
PermissionFollowsState == part = "promotion" => Life!PermissionFollowsState
ReleasedHasVersion == part = "promotion" => Life!ReleasedHasVersion

\* When every event has been handled the search index is the table, unless a savepoint
\* or a failed handler lost one (events/, search_indexer.py).
IndexFollowsStore == part = "events" => Ev!IndexFollowsStore

\* The lines add_child has checked against every committed line make no cycle, after
\* removals and lines added behind its back (bom_service.py).
CheckedIsDag == part = "bom" => Bom!CheckedIsDag

\* The audit of the write-backs explains the cells of the line, through retries with an
\* old key (bom_multitable_writeback_service.py).
AuditMatchesLine == part = "writeback" => Cell!AuditMatchesLine

\* A half-open breaker's slots are its running probes (circuit_breaker.py).
SlotsAreProbes == part = "breaker" => Brk!SlotsAreProbes

\* Workers that crash and requeue each other's jobs exceed the quota, and overlapping
\* clients the one job of a dedupe key, by no more than their number minus one
\* (job_service.py).
LimitKept == part = "jobs" => Queue!LimitKept
DedupeUnique == part = "jobs" => Queue!DedupeUnique

\* The attempt budget of an ECM row bounds its send calls, but for one more for each
\* crash and each release that raced another (ecm_publication/{service,worker}.py).
EcmSendsWithinBudget == part = "ecm" => Ecm!SendsWithinBudget
=============================================================================
