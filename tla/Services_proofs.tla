--------------------------- MODULE Services_proofs ---------------------------
(***************************************************************************)
(* Proofs about the components side by side, for every value of their      *)
(* constants.  Each is about one component: a step of the sum is a step of *)
(* that component or leaves its variables alone.  Four components have     *)
(* their lemmas in modules of their own, instantiated here.                *)
(***************************************************************************)
EXTENDS Services, FiniteSetTheorems, TLAPS

NumP == INSTANCE Numbering_proofs WITH Requests <- Callers, Start <- FirstNumber
BrkP == INSTANCE Breaker_proofs
QueueP == INSTANCE JobQueue_proofs
    WITH Keys <- JobKeys, Workers <- JobWorkers, MaxAttempts <- JobAttempts, Overrun <- FALSE,
         found <- late, crashes <- jobCrashes
EcmP == INSTANCE EcmRefinement_proofs
    WITH Workers <- EcmWorkers, BatchSize <- EcmBatch, Retention <- FALSE,
         MaxOverruns <- EcmOverruns

\* The instances of a module and of the module of its proofs are the same.
LEMMA SameNumbering ==
    /\ Num!Init <=> NumP!Init
    /\ Num!Next <=> NumP!Next
    /\ Num!NumbersUnique <=> NumP!NumbersUnique
  BY Zenon DEF Num!Init, Num!Largest, Num!Floor, Num!Visible, Num!Scan, Num!Holds, Num!Counter,
                Num!NextNumber, Num!Allocate, Num!TakeExplicit, Num!Commit, Num!Rollback,
                Num!Delete, Num!Next, Num!NumbersUnique, NumP!Init, NumP!Largest, NumP!Floor,
                NumP!Visible, NumP!Scan, NumP!Holds, NumP!Counter, NumP!NextNumber, NumP!Allocate,
                NumP!TakeExplicit, NumP!Commit, NumP!Rollback, NumP!Delete, NumP!Next,
                NumP!NumbersUnique

LEMMA SameBreaker ==
    /\ Brk!Init <=> BrkP!Init
    /\ Brk!Next <=> BrkP!Next
    /\ Brk!SlotsAreProbes <=> BrkP!SlotsAreProbes
  BY Zenon DEF Brk!Cardinality, Brk!Init, Brk!Probes, Brk!StartClosed, Brk!StartOpen,
                Brk!StartHalfOpen, Brk!Freed, Brk!EpisodeOver, Brk!Succeed, Brk!Interrupt,
                Brk!Fail, Brk!Next, Brk!SlotsAreProbes, BrkP!Cardinality, BrkP!Init, BrkP!Probes,
                BrkP!StartClosed, BrkP!StartOpen, BrkP!StartHalfOpen, BrkP!Freed, BrkP!EpisodeOver,
                BrkP!Succeed, BrkP!Interrupt, BrkP!Fail, BrkP!Next, BrkP!SlotsAreProbes

LEMMA SameQueue ==
    /\ Queue!Init <=> QueueP!Init
    /\ Queue!Next <=> QueueP!Next
    /\ Queue!LimitKept <=> QueueP!LimitKept
    /\ Queue!DedupeUnique <=> QueueP!DedupeUnique
  BY Zenon DEF Queue!Cardinality, Queue!clients, Queue!workers, Queue!NoJob, Queue!Active,
                Queue!Submissions, Queue!Outcomes, Queue!Free, Queue!Processing, Queue!Init,
                Queue!SameKeyActive, Queue!SubmitDeduped, Queue!SubmitNew, Queue!SubmitInsert,
                Queue!RequeueRead, Queue!Requeued, Queue!RequeueWrite, Queue!PollLimit, Queue!Due,
                Queue!First, Queue!Claim, Queue!NothingDue, Queue!Refresh, Queue!Run,
                Queue!NoHandler, Queue!Written, Queue!Finished, Queue!Finish, Queue!Crash,
                Queue!RunAges, Queue!BackoffElapses, Queue!Submit, Queue!Work, Queue!Time,
                Queue!Next, Queue!Undisturbed, Queue!LimitKept, Queue!DedupeUnique,
                QueueP!Cardinality, QueueP!clients, QueueP!workers, QueueP!NoJob, QueueP!Active,
                QueueP!Submissions, QueueP!Outcomes, QueueP!Free, QueueP!Processing, QueueP!Init,
                QueueP!SameKeyActive, QueueP!SubmitDeduped, QueueP!SubmitNew, QueueP!SubmitInsert,
                QueueP!RequeueRead, QueueP!Requeued, QueueP!RequeueWrite, QueueP!PollLimit,
                QueueP!Due, QueueP!First, QueueP!Claim, QueueP!NothingDue, QueueP!Refresh,
                QueueP!Run, QueueP!NoHandler, QueueP!Written, QueueP!Finished, QueueP!Finish,
                QueueP!Crash, QueueP!RunAges, QueueP!BackoffElapses, QueueP!Submit, QueueP!Work,
                QueueP!Time, QueueP!Next, QueueP!Undisturbed, QueueP!LimitKept,
                QueueP!DedupeUnique

LEMMA SameEcm ==
    /\ Ecm!Init <=> EcmP!Init
    /\ Ecm!Next <=> EcmP!Next
    /\ Ecm!SendsWithinBudget <=> EcmP!SendsWithinBudget
  BY Zenon DEF Ecm!Cardinality, Ecm!local, Ecm!remote, Ecm!bounds, Ecm!NoRow, Ecm!NoReason,
                Ecm!Retryable, Ecm!Lineages, Ecm!Present, Ecm!Newer, Ecm!Holds, Ecm!Superseded,
                Ecm!Init, Ecm!NewRow, Ecm!Release, Ecm!Reenqueued, Ecm!RacingRelease,
                Ecm!FileChanges, Ecm!ReclaimRead, Ecm!ReclaimWrite, Ecm!Claimable, Ecm!BatchOf,
                Ecm!ClaimBatch, Ecm!NextInBatch, Ecm!Copy, Ecm!Skipped, Ecm!SkipRow, Ecm!CheckRow,
                Ecm!AbortTick, Ecm!Allowed, Ecm!RevalidateRejects, Ecm!Prepare, Ecm!PrepareFails,
                Ecm!Send, Ecm!Sent, Ecm!Failed, Ecm!Rescheduled, Ecm!Result, Ecm!Commit,
                Ecm!Deferred, Ecm!ProcessRaises, Ecm!Crash, Ecm!ClaimAges, Ecm!BackoffElapses,
                Ecm!Replay, Ecm!Prune, Ecm!SwitchOff, Ecm!Tick, Ecm!Time, Ecm!Next,
                Ecm!SendsWithinBudget, EcmP!Cardinality, EcmP!local, EcmP!remote, EcmP!bounds,
                EcmP!NoRow, EcmP!NoReason, EcmP!Retryable, EcmP!Lineages, EcmP!Present, EcmP!Newer,
                EcmP!Holds, EcmP!Superseded, EcmP!Init, EcmP!NewRow, EcmP!Release, EcmP!Reenqueued,
                EcmP!RacingRelease, EcmP!FileChanges, EcmP!ReclaimRead, EcmP!ReclaimWrite,
                EcmP!Claimable, EcmP!BatchOf, EcmP!ClaimBatch, EcmP!NextInBatch, EcmP!Copy,
                EcmP!Skipped, EcmP!SkipRow, EcmP!CheckRow, EcmP!AbortTick, EcmP!Allowed,
                EcmP!RevalidateRejects, EcmP!Prepare, EcmP!PrepareFails, EcmP!Send, EcmP!Sent,
                EcmP!Failed, EcmP!Rescheduled, EcmP!Result, EcmP!Commit, EcmP!Deferred,
                EcmP!ProcessRaises, EcmP!Crash, EcmP!ClaimAges, EcmP!BackoffElapses, EcmP!Replay,
                EcmP!Prune, EcmP!SwitchOff, EcmP!Tick, EcmP!Time, EcmP!Next, EcmP!SendsWithinBudget

-----------------------------------------------------------------------------
\* A behaviour is of one component all along ...
LEMMA SumStart ==
    ASSUME SumInit
    PROVE  /\ Note!Init
           /\ part = "numbering" => Num!Init
           /\ part = "activities" => Act!Init
           /\ part = "mes" => Mes!Init
           /\ part = "promotion" => Life!Init
           /\ part = "events" => Ev!Init
           /\ part = "bom" => Bom!Init
           /\ part = "writeback" => Cell!Init
           /\ part = "breaker" => Brk!Init
           /\ part = "jobs" => Queue!Init
           /\ part = "ecm" => Ecm!Init
  BY DEF SumInit

\* ... of which each of its steps is a step, or none.
LEMMA SumStep ==
    ASSUME [SumNext]_sumVars
    PROVE  /\ part' = part
           /\ Note!Next \/ UNCHANGED noteVars
           /\ part = "numbering" => Num!Next \/ UNCHANGED numVars
           /\ part = "activities" => Act!Next \/ UNCHANGED actVars
           /\ part = "mes" => Mes!Next \/ UNCHANGED mesVars
           /\ part = "promotion" => Life!Next \/ UNCHANGED lifeVars
           /\ part = "events" => Ev!Next \/ UNCHANGED eventVars
           /\ part = "bom" => Bom!Next \/ UNCHANGED bomVars
           /\ part = "writeback" => Cell!Next \/ UNCHANGED cellVars
           /\ part = "breaker" => Brk!Next \/ UNCHANGED breakerVars
           /\ part = "jobs" => Queue!Next \/ UNCHANGED jobVars
           /\ part = "ecm" => Ecm!Next \/ UNCHANGED ecmVars
  BY DEF SumNext, sumVars

-----------------------------------------------------------------------------
(* Components proved in modules of their own.                               *)

\* A generated number is nobody else's, whatever transactions overlap and roll back:
\* the counter is above every number that was generated (numbering_service.py:321-378).
THEOREM NumbersStayUnique == SumSpec => []NumbersUnique
<1>. DEFINE Inv == part = "numbering" => NumP!NInv
<1>1. SumInit => Inv
  BY SumStart, NumbersArePositive, SameNumbering, NumP!NumberingInit
<1>2. Inv /\ [SumNext]_sumVars => Inv'
  <2>1. ASSUME NumP!NInv, Num!Next \/ UNCHANGED numVars PROVE NumP!NInv'
    <3>1. [NumP!Next]_(NumP!vars)
      BY <2>1, SameNumbering DEF numVars, NumP!vars
    <3>. QED BY <2>1, <3>1, NumbersArePositive, NumP!NumberingNext
  <2>. QED BY <2>1, SumStep
<1>3. Inv => NumbersUnique
  BY SameNumbering, NumP!InvariantGivesUnique DEF NumbersUnique
<1>. QED BY <1>1, <1>2, <1>3, PTL DEF SumSpec

\* A half-open breaker counts a slot for a probe that is running and for no other call,
\* however the calls of earlier episodes end (circuit_breaker.py).
THEOREM ProbesHoldSlots == SumSpec => []SlotsAreProbes
<1>. DEFINE Inv == part = "breaker" => BrkP!BInv
<1>1. SumInit => Inv
  BY SumStart, SameBreaker, BrkP!BreakerInit
<1>2. Inv /\ [SumNext]_sumVars => Inv'
  <2>1. ASSUME BrkP!BInv, Brk!Next \/ UNCHANGED breakerVars PROVE BrkP!BInv'
    <3>1. [BrkP!Next]_(BrkP!vars)
      BY <2>1, SameBreaker DEF breakerVars, BrkP!vars
    <3>2. BrkP!IsFiniteSet(Calls)
      BY FinitelyMany DEF IsFiniteSet, BrkP!IsFiniteSet
    <3>. QED BY <2>1, <3>1, <3>2, BrkP!BreakerNext
  <2>. QED BY <2>1, SumStep
<1>3. Inv => SlotsAreProbes
  BY SameBreaker DEF SlotsAreProbes, BrkP!BInv
<1>. QED BY <1>1, <1>2, <1>3, PTL DEF SumSpec

\* What JobQueue assumes of its constants.
LEMMA JobQueueAssumed ==
    /\ Jobs \subseteq Nat \ {0} /\ Priorities \subseteq Nat /\ Indexing \subseteq BOOLEAN
    /\ JobAttempts \in Nat \ {0} /\ Limit \in Nat \ {0} /\ FALSE \in BOOLEAN
    /\ MaxCrashes \in Nat
  BY QueueConstants

LEMMA QueueVars ==
    ASSUME Queue!Next \/ UNCHANGED jobVars
    PROVE  [QueueP!Next]_(QueueP!vars)
  BY SameQueue DEF jobVars, QueueP!vars, QueueP!clients, QueueP!workers

\* The processing quota is exceeded by fewer jobs than there are workers: each of the others
\* may have counted before a claim (job_service.py:84-123, 395-408).
THEOREM QuotaIsKept ==
    ASSUME IsFiniteSet(JobWorkers)
    PROVE  SumSpec => []LimitKept
<1>. DEFINE Inv == part = "jobs" => QueueP!QuotaInv
<1>0. QueueP!IsFiniteSet(JobWorkers)
  BY DEF IsFiniteSet, QueueP!IsFiniteSet
<1>1. SumInit => Inv
  BY <1>0, SumStart, SameQueue, JobQueueAssumed, QueueP!QuotaInit
<1>2. Inv /\ [SumNext]_sumVars => Inv'
  <2>1. ASSUME QueueP!QuotaInv, Queue!Next \/ UNCHANGED jobVars PROVE QueueP!QuotaInv'
    BY <1>0, <2>1, QueueVars, JobQueueAssumed, QueueP!QuotaStep
  <2>. QED BY <2>1, SumStep
<1>3. Inv => LimitKept
  BY <1>0, SameQueue, JobQueueAssumed, QueueP!QuotaBounds DEF LimitKept
<1>. QED BY <1>1, <1>2, <1>3, PTL DEF SumSpec

\* A dedupe key never has more active jobs than there are clients whose requests can
\* overlap: each of them may have found none before another's insert (job_service.py:42-82).
THEOREM KeysAreDeduped ==
    ASSUME IsFiniteSet(Clients)
    PROVE  SumSpec => []DedupeUnique
<1>. DEFINE Inv == part = "jobs" => QueueP!KeyInv
<1>0. QueueP!IsFiniteSet(Clients)
  BY DEF IsFiniteSet, QueueP!IsFiniteSet
<1>1. SumInit => Inv
  BY <1>0, SumStart, SameQueue, JobQueueAssumed, QueueP!KeyInit
<1>2. Inv /\ [SumNext]_sumVars => Inv'
  <2>1. ASSUME QueueP!KeyInv, Queue!Next \/ UNCHANGED jobVars PROVE QueueP!KeyInv'
    BY <1>0, <2>1, QueueVars, JobQueueAssumed, QueueP!KeyStep
  <2>. QED BY <2>1, SumStep
<1>3. Inv => DedupeUnique
  BY <1>0, SameQueue, JobQueueAssumed, QueueP!KeyBounds DEF DedupeUnique
<1>. QED BY <1>1, <1>2, <1>3, PTL DEF SumSpec

\* What EcmOutbox assumes of its constants.
LEMMA EcmOutboxAssumed ==
    /\ Rows \subseteq Nat \ {0} /\ Lineage \in [Rows -> Nat]
    /\ {MaxAttempts, MaxCrashes, MaxReplays, MaxRaces, EcmOverruns} \subseteq Nat
    /\ MaxAttempts > 0 /\ EcmBatch \in Nat \ {0} /\ FALSE \in BOOLEAN
  BY QueueConstants

\* With one drain worker the attempt budget of an ECM row bounds its sends, but for one
\* more for each crash and each release that raced another
\* (ecm_publication/service.py, worker.py).
THEOREM EcmSendsAreBudgeted ==
    ASSUME \A v, w \in EcmWorkers : v = w
    PROVE  SumSpec => []EcmSendsWithinBudget
<1>. DEFINE Inv == part = "ecm" => EcmP!BudgetInv
<1>1. SumInit => Inv
  BY SumStart, SameEcm, EcmOutboxAssumed, EcmP!BudgetInit
<1>2. Inv /\ [SumNext]_sumVars => Inv'
  <2>1. ASSUME EcmP!BudgetInv, Ecm!Next \/ UNCHANGED ecmVars PROVE EcmP!BudgetInv'
    <3>1. [EcmP!Next]_(EcmP!vars)
      BY <2>1, SameEcm DEF ecmVars, EcmP!vars, EcmP!local, EcmP!remote, EcmP!bounds
    <3>. QED BY <2>1, <3>1, EcmOutboxAssumed, EcmP!BudgetStep
  <2>. QED BY <2>1, SumStep
<1>3. Inv => EcmSendsWithinBudget
  BY SameEcm, EcmOutboxAssumed, EcmP!BudgetBounds DEF EcmSendsWithinBudget
<1>. QED BY <1>1, <1>2, <1>3, PTL DEF SumSpec

-----------------------------------------------------------------------------
(* The write-backs of a BOM line.                                           *)

AuditRow == [key : CellKeys, line : Lines, after : Cell!Payload]

\* Every open request has loaded some cells, and the audit is a table of its rows.
WritebackTypes ==
    /\ line \in [Lines -> Cell!Contents]
    /\ audit \in Seq(AuditRow)
    /\ asked \in [Callers -> [key : CellKeys, line : Lines, after : Cell!Payload,
                              loaded : Cell!Contents] \cup {Cell!Idle}]

WritebackInv == WritebackTypes /\ Cell!AuditMatchesLine

\* What a write makes of a cell is what its audit row says of it, and the rows before
\* say of a cell it leaves alone.
LEMMA AuditedAfter ==
    ASSUME WritebackTypes, NEW x \in AuditRow, audit' = Append(audit, x),
           NEW l \in Lines, NEW c \in Cells
    PROVE  Cell!AuditedCell(l, c)' =
             (IF x.line = l /\ x.after[c] # Cell!Kept THEN x.after[c] ELSE Cell!AuditedCell(l, c))
<1>. DEFINE n == Len(audit) + 1
            before == {k \in DOMAIN audit : audit[k].line = l /\ audit[k].after[c] # Cell!Kept}
            later == {k \in DOMAIN audit' : audit'[k].line = l /\ audit'[k].after[c] # Cell!Kept}
<1>1. /\ audit \in Seq(AuditRow) /\ DOMAIN audit = 1..Len(audit) /\ Len(audit) \in Nat
      /\ DOMAIN audit' = 1..n /\ audit'[n] = x
      /\ \A k \in DOMAIN audit : k \in 1..n /\ k # n /\ audit'[k] = audit[k]
  BY DEF WritebackTypes
<1>2. CASE x.line = l /\ x.after[c] # Cell!Kept
  <2>1. n \in later /\ \A k \in later : k <= n
    BY <1>1, <1>2
  <2>2. \A k \in later : (\A m \in later : m <= k) => k = n
    BY <1>1, <2>1
  <2>3. (CHOOSE k \in later : \A m \in later : m <= k) = n
    BY <2>1, <2>2
  <2>. HIDE DEF n
  <2>4. Cell!AuditedCell(l, c)' = audit'[CHOOSE k \in later : \A m \in later : m <= k].after[c]
    BY <2>1 DEF Cell!AuditedCell
  <2>. QED BY <1>1, <1>2, <2>3, <2>4
<1>3. CASE ~(x.line = l /\ x.after[c] # Cell!Kept)
  <2>1. later = before
    BY <1>1, <1>3
  <2>2. CASE before = {}
    BY <1>3, <2>1, <2>2 DEF Cell!AuditedCell
  <2>3. CASE before # {}
    <3>. DEFINE top == CHOOSE k \in before : \A m \in before : m <= k
                dist == {Len(audit) - k : k \in before}
    <3>1. dist \subseteq Nat /\ dist # {}
      BY <1>1, <2>3
    <3>2. \E k \in before : \A m \in before : m <= k
      <4>1. PICK y \in dist : \A z \in dist : y <= z
        <5>. HIDE DEF dist
        <5>. QED BY <3>1, NumP!LeastNatural
      <4>2. PICK k \in before : y = Len(audit) - k
        OBVIOUS
      <4>3. \A m \in before : Len(audit) - k <= Len(audit) - m /\ m \in Nat
        BY <1>1, <4>1, <4>2
      <4>. QED BY <1>1, <4>2, <4>3
    <3>3. top \in before
      BY <3>2
    <3>4. Cell!AuditedCell(l, c) = audit[top].after[c]
      BY <2>3 DEF Cell!AuditedCell
    <3>5. Cell!AuditedCell(l, c)' = audit'[CHOOSE k \in later : \A m \in later : m <= k].after[c]
      BY <2>1, <2>3 DEF Cell!AuditedCell
    <3>6. Cell!AuditedCell(l, c)' = audit'[top].after[c]
      BY <2>1, <3>5
    <3>7. audit'[top] = audit[top]
      BY <1>1, <3>3
    <3>. QED BY <1>3, <3>4, <3>6, <3>7
  <2>. QED BY <2>2, <2>3
<1>. QED BY <1>2, <1>3

LEMMA WritebackInit == Cell!Init => WritebackInv
<1>. SUFFICES ASSUME Cell!Init PROVE WritebackInv
  OBVIOUS
<1>1. Cell!Start \in Cell!Contents /\ audit = <<>>
  BY DEF Cell!Init, Cell!Start, Cell!Contents
<1>2. WritebackTypes
  BY <1>1 DEF Cell!Init, WritebackTypes
<1>3. \A l \in Lines, c \in Cells : Cell!AuditedCell(l, c) = "blank" /\ line[l][c] = "blank"
  BY <1>1 DEF Cell!AuditedCell, Cell!Init, Cell!Start
<1>. QED BY <1>2, <1>3 DEF WritebackInv, Cell!AuditMatchesLine

LEMMA WritebackStep ==
    ASSUME WritebackInv, Cell!Next \/ UNCHANGED cellVars
    PROVE  WritebackInv'
<1>. USE DEF WritebackInv
<1>a. Cell!AuditMatchesLine' <=>
        \A l \in Lines \ mixed' : \A c \in Cells : line'[l][c] = Cell!AuditedCell(l, c)'
  BY DEF Cell!AuditMatchesLine
<1>b. audit' = audit => \A l \in Lines, c \in Cells :
                           Cell!AuditedCell(l, c)' = Cell!AuditedCell(l, c)
  BY DEF Cell!AuditedCell
<1>q. ASSUME UNCHANGED <<line, audit, mixed>>, WritebackTypes' PROVE WritebackInv'
  BY <1>a, <1>b, <1>q DEF Cell!AuditMatchesLine
<1>1. ASSUME NEW r \in Callers, NEW key \in CellKeys, NEW l \in Lines, NEW after \in Cell!Payload,
             Cell!Ask(r, key, l, after)
      PROVE  WritebackInv'
  <2>. DEFINE q == [key |-> key, line |-> l, after |-> after, loaded |-> line[l]]
  <2>1. q \in [key : CellKeys, line : Lines, after : Cell!Payload, loaded : Cell!Contents]
    BY DEF WritebackTypes
  <2>2. asked' = [asked EXCEPT ![r] = q] /\ UNCHANGED <<line, audit, mixed>>
    BY <1>1 DEF Cell!Ask
  <2>. HIDE DEF q
  <2>3. WritebackTypes'
    BY <2>1, <2>2 DEF WritebackTypes
  <2>. QED BY <1>q, <2>2, <2>3
<1>2. ASSUME NEW r \in Callers, Cell!Write(r) PROVE WritebackInv'
  <2>. DEFINE q == asked[r]
              x == [key |-> q.key, line |-> q.line, after |-> q.after]
              now == Cell!Applied(q.loaded, q.after)
  <2>1. /\ q \in [key : CellKeys, line : Lines, after : Cell!Payload, loaded : Cell!Contents]
        /\ q.line \in Lines
    BY <1>2 DEF WritebackTypes, Cell!Write
  <2>2. /\ audit' = Append(audit, x) /\ line' = [line EXCEPT ![q.line] = now]
        /\ mixed' = IF q.loaded # line[q.line] THEN mixed \cup {q.line} ELSE mixed
        /\ asked' = [asked EXCEPT ![r] = Cell!Idle]
    BY <1>2 DEF Cell!Write
  <2>3. x \in AuditRow
    BY <2>1 DEF AuditRow
  <2>4. now \in Cell!Contents
    BY <2>1 DEF Cell!Applied, Cell!Contents, Cell!Payload
  <2>5. \A c \in Cells : now[c] = IF x.after[c] = Cell!Kept THEN q.loaded[c] ELSE x.after[c]
    BY DEF Cell!Applied
  <2>. HIDE DEF x, now
  <2>6. WritebackTypes'
    BY <2>1, <2>2, <2>3, <2>4 DEF WritebackTypes
  <2>7. ASSUME NEW l \in Lines \ mixed', NEW c \in Cells
        PROVE  line'[l][c] = Cell!AuditedCell(l, c)'
    <3>1. Cell!AuditedCell(l, c)' =
            (IF x.line = l /\ x.after[c] # Cell!Kept THEN x.after[c] ELSE Cell!AuditedCell(l, c))
      BY <2>2, <2>3, AuditedAfter
    <3>2. l \notin mixed /\ line[l][c] = Cell!AuditedCell(l, c)
      BY <2>2, <2>7 DEF Cell!AuditMatchesLine
    <3>3. x.line = q.line
      BY DEF x
    <3>4. CASE l = q.line
      <4>1. line'[l] = now /\ q.loaded = line[l]
        BY <2>1, <2>2, <2>7, <3>4 DEF WritebackTypes
      <4>. QED BY <2>5, <3>1, <3>2, <3>3, <3>4, <4>1
    <3>5. CASE l # q.line
      <4>1. line'[l] = line[l]
        BY <2>2, <3>5 DEF WritebackTypes
      <4>. QED BY <3>1, <3>2, <3>3, <3>5, <4>1
    <3>. QED BY <3>4, <3>5
  <2>. QED BY <1>a, <2>6, <2>7
<1>3. ASSUME NEW r \in Callers, Cell!EndUnapplied(r) PROVE WritebackInv'
  BY <1>3, <1>q DEF Cell!EndUnapplied, WritebackTypes
<1>4. ASSUME NEW l \in Lines, NEW cells \in Cell!Contents, Cell!OtherEdit(l, cells)
      PROVE  WritebackInv'
  <2>1. WritebackTypes'
    BY <1>4 DEF Cell!OtherEdit, WritebackTypes
  <2>2. ASSUME NEW k \in Lines \ mixed', NEW c \in Cells
        PROVE  line'[k][c] = Cell!AuditedCell(k, c)'
    <3>1. k # l /\ k \notin mixed /\ line'[k] = line[k] /\ audit' = audit
      BY <1>4, <2>2 DEF Cell!OtherEdit, WritebackTypes
    <3>. QED BY <1>b, <3>1 DEF Cell!AuditMatchesLine
  <2>. QED BY <1>a, <2>1, <2>2
<1>5. CASE UNCHANGED cellVars
  BY <1>5, <1>q DEF cellVars, WritebackTypes
<1>. QED BY <1>1, <1>2, <1>3, <1>4, <1>5 DEF Cell!Next

\* The audit explains every cell of a line nobody wrote over unseen: keys sent again,
\* stale reads of other lines and lost requests leave no cell that the last audited
\* write of it does not account for (bom_multitable_writeback_service.py).
THEOREM AuditExplainsLine == SumSpec => []AuditMatchesLine
<1>. DEFINE Inv == part = "writeback" => WritebackInv
<1>1. SumInit => Inv
  BY SumStart, WritebackInit
<1>2. Inv /\ [SumNext]_sumVars => Inv'
  BY SumStep, WritebackStep
<1>3. Inv => AuditMatchesLine
  BY DEF AuditMatchesLine, WritebackInv
<1>. QED BY <1>1, <1>2, <1>3, PTL DEF SumSpec

-----------------------------------------------------------------------------
(* The MES inbox.                                                           *)

MesStates == {"pending", "processed", "conflict", "failed"}

MesTypes ==
    /\ inbox \in [Keys -> [payload : Payloads \cup {Mes!None}, state : MesStates \cup {Mes!None},
                           attempts : Nat]]
    /\ record \in [Keys -> [payload : Payloads \cup {Mes!None}, by : {"route", "drain", Mes!None}]]
    /\ drained \in [Drains -> SUBSET Keys]
    /\ attempt \in [Drains -> [Keys -> Nat]]

\* A row has the payload it was accepted with; a drain holds accepted rows.
RowsHavePayloads ==
    /\ \A k \in Keys : inbox[k].state # Mes!None => inbox[k].payload \in Payloads
    /\ \A d \in Drains : \A k \in drained[d] : inbox[k].state # Mes!None

\* Until two drains have held it, a row has one drain, which holds it pending, and
\* its event is recorded by the drain that processes it.
OneDrain ==
    \A k \in Keys \ shared :
        /\ \A d, e \in Drains : k \in drained[d] \cap drained[e] => d = e
        /\ \A d \in Drains : k \in drained[d] => inbox[k].state = "pending"
        /\ record[k].by = "drain" => inbox[k].state = "processed"

MesInv == MesTypes /\ RowsHavePayloads /\ Mes!ProcessedIsRecorded /\ OneDrain

LEMMA MesInit == Mes!Init => MesInv
  BY DEF Mes!Init, MesInv, MesTypes, RowsHavePayloads, OneDrain, Mes!ProcessedIsRecorded,
         Mes!None, MesStates

LEMMA MesStep ==
    ASSUME MesInv, Mes!None \notin Payloads, Mes!Next \/ UNCHANGED mesVars
    PROVE  MesInv'
<1>. USE DEF MesInv, Mes!None
<1>1. ASSUME NEW k \in Keys, NEW p \in Payloads, Mes!Accept(k, p) PROVE MesInv'
  <2>. DEFINE row1 == [payload |-> p, state |-> "pending", attempts |-> 0]
  <2>1. /\ inbox[k].state = "none" /\ inbox' = [inbox EXCEPT ![k] = row1]
        /\ UNCHANGED <<record, drained, attempt, shared>>
    BY <1>1 DEF Mes!Accept
  <2>2. MesTypes'
    BY <2>1 DEF MesTypes, MesStates
  <2>3. inbox'[k] = row1 /\ \A j \in Keys \ {k} : inbox'[j] = inbox[j]
    BY <2>1 DEF MesTypes
  <2>4. RowsHavePayloads' /\ Mes!ProcessedIsRecorded' /\ OneDrain'
    BY <2>1, <2>3 DEF MesTypes, RowsHavePayloads, Mes!ProcessedIsRecorded, OneDrain
  <2>. QED BY <2>2, <2>4
<1>2. ASSUME NEW k \in Keys, NEW p \in Payloads, Mes!IngestNow(k, p) PROVE MesInv'
  <2>1. /\ record[k].payload = "none"
        /\ record' = [record EXCEPT ![k] = [payload |-> p, by |-> "route"]]
        /\ UNCHANGED <<inbox, drained, attempt, shared>>
    BY <1>2 DEF Mes!IngestNow
  <2>2. MesTypes'
    BY <2>1 DEF MesTypes
  <2>3. /\ record'[k] = [payload |-> p, by |-> "route"]
        /\ \A j \in Keys \ {k} : record'[j] = record[j]
    BY <2>1 DEF MesTypes
  <2>4. inbox[k].state # "processed"
    BY <2>1 DEF RowsHavePayloads, Mes!ProcessedIsRecorded
  <2>5. RowsHavePayloads' /\ Mes!ProcessedIsRecorded' /\ OneDrain'
    BY <2>1, <2>3, <2>4 DEF MesTypes, RowsHavePayloads, Mes!ProcessedIsRecorded, OneDrain
  <2>. QED BY <2>2, <2>5
<1>3. ASSUME NEW d \in Drains, Mes!ClaimDue(d) PROVE MesInv'
  <2>. DEFINE due == {k \in Keys : inbox[k].state = "pending"}
  <2>1. /\ drained[d] = {} /\ drained' = [drained EXCEPT ![d] = due]
        /\ attempt' = [attempt EXCEPT ![d] =
              [k \in Keys |-> IF k \in due THEN inbox[k].attempts ELSE 0]]
        /\ shared' = shared \cup {k \in due : \E e \in Drains : k \in drained[e]}
        /\ UNCHANGED <<inbox, record>>
    BY <1>3 DEF Mes!ClaimDue
  <2>2. MesTypes'
    BY <2>1 DEF MesTypes
  <2>3. drained'[d] = due /\ \A e \in Drains \ {d} : drained'[e] = drained[e]
    BY <2>1 DEF MesTypes
  <2>4. RowsHavePayloads' /\ Mes!ProcessedIsRecorded' /\ OneDrain'
    BY <2>1, <2>3 DEF MesTypes, RowsHavePayloads, Mes!ProcessedIsRecorded, OneDrain
  <2>. QED BY <2>2, <2>4
\* A drain settles row k: another drain may hold it, if it is shared.
<1>s. ASSUME NEW d \in Drains, NEW k \in drained[d],
             drained' = [drained EXCEPT ![d] = @ \ {k}], UNCHANGED <<attempt, shared>>,
             NEW r1, inbox' = [inbox EXCEPT ![k] = r1],
             r1 \in [payload : Payloads \cup {"none"}, state : MesStates, attempts : Nat],
             r1.payload = inbox[k].payload,
             \A j \in Keys \ {k} : record'[j] = record[j],
             record' \in [Keys -> [payload : Payloads \cup {"none"}, by : {"route", "drain", "none"}]],
             r1.state = "processed" => record'[k].payload = r1.payload,
             k \notin shared /\ record'[k].by = "drain" => r1.state = "processed"
      PROVE  MesInv'
  <2>1. k \in Keys /\ MesTypes'
    BY <1>s DEF MesTypes
  <2>2. /\ inbox'[k] = r1 /\ \A j \in Keys \ {k} : inbox'[j] = inbox[j]
        /\ drained'[d] = drained[d] \ {k} /\ \A e \in Drains \ {d} : drained'[e] = drained[e]
    BY <1>s, <2>1 DEF MesTypes
  <2>3. RowsHavePayloads'
    BY <1>s, <2>1, <2>2 DEF RowsHavePayloads, MesTypes, MesStates
  <2>4. Mes!ProcessedIsRecorded'
    BY <1>s, <2>1, <2>2 DEF Mes!ProcessedIsRecorded
  <2>5. OneDrain'
    BY <1>s, <2>1, <2>2 DEF OneDrain
  <2>. QED BY <2>1, <2>3, <2>4, <2>5
<1>h. \A d \in Drains : \A k \in drained[d] :
        /\ k \in Keys /\ inbox[k].payload \in Payloads /\ attempt[d][k] + 1 \in Nat
        /\ inbox[k].state \in MesStates
        /\ k \notin shared => inbox[k].state = "pending" /\ record[k].by # "drain"
  BY DEF MesTypes, RowsHavePayloads, OneDrain
<1>4. ASSUME NEW d \in Drains, NEW k \in Keys, Mes!Process(d, k) PROVE MesInv'
  <2>. PICK refused \in BOOLEAN :
        /\ record' = IF Mes!Inserts(k, refused)
                     THEN [record EXCEPT ![k] = [payload |-> inbox[k].payload, by |-> "drain"]]
                     ELSE record
        /\ inbox' = [inbox EXCEPT ![k] =
            IF refused THEN [@ EXCEPT !.state = "conflict", !.attempts = attempt[d][k] + 1]
            ELSE [@ EXCEPT !.state =
                    IF Mes!SamePayload(record'[k].payload, inbox[k].payload)
                    THEN "processed" ELSE "conflict"]]
    BY <1>4 DEF Mes!Process
  <2>. DEFINE r1 == IF refused
                    THEN [inbox[k] EXCEPT !.state = "conflict", !.attempts = attempt[d][k] + 1]
                    ELSE [inbox[k] EXCEPT !.state =
                            IF Mes!SamePayload(record'[k].payload, inbox[k].payload)
                            THEN "processed" ELSE "conflict"]
  <2>1. /\ k \in drained[d] /\ drained' = [drained EXCEPT ![d] = @ \ {k}]
        /\ UNCHANGED <<attempt, shared>>
    BY <1>4 DEF Mes!Process
  <2>2. inbox' = [inbox EXCEPT ![k] = r1]
    BY DEF MesTypes
  <2>3. /\ r1 \in [payload : Payloads \cup {"none"}, state : MesStates, attempts : Nat]
        /\ r1.payload = inbox[k].payload
        /\ r1.state = "processed" <=> ~refused /\ record'[k].payload = inbox[k].payload
    BY <1>h, <2>1 DEF MesTypes, MesStates, Mes!SamePayload
  <2>4. /\ \A j \in Keys \ {k} : record'[j] = record[j]
        /\ record' \in [Keys -> [payload : Payloads \cup {"none"}, by : {"route", "drain", "none"}]]
        /\ record'[k].by = "drain" =>
              record[k].by = "drain" \/ (~refused /\ record'[k].payload = inbox[k].payload)
    BY <1>h, <2>1 DEF MesTypes, Mes!Inserts
  <2>. HIDE DEF r1
  <2>5. /\ k \notin shared /\ record'[k].by = "drain" => r1.state = "processed"
        /\ r1.state = "processed" => record'[k].payload = r1.payload
    BY <1>h, <2>1, <2>3, <2>4
  <2>. QED BY <1>s, <2>1, <2>2, <2>3, <2>4, <2>5
<1>5. ASSUME NEW d \in Drains, NEW k \in Keys, Mes!ProcessFails(d, k) \/ Mes!Poison(d, k)
      PROVE  MesInv'
  <2>1. /\ k \in drained[d] /\ drained' = [drained EXCEPT ![d] = @ \ {k}]
        /\ UNCHANGED <<record, attempt, shared>>
    BY <1>5 DEF Mes!ProcessFails, Mes!Poison
  <2>2. PICK s \in {"failed", inbox[k].state} :
          inbox' = [inbox EXCEPT ![k] = [@ EXCEPT !.attempts = attempt[d][k] + 1, !.state = s]]
    BY <1>5 DEF Mes!ProcessFails, Mes!Poison, MesTypes
  <2>. DEFINE r1 == [inbox[k] EXCEPT !.attempts = attempt[d][k] + 1, !.state = s]
  <2>3. inbox' = [inbox EXCEPT ![k] = r1]
    BY <2>2
  <2>4. /\ r1 \in [payload : Payloads \cup {"none"}, state : MesStates, attempts : Nat]
        /\ r1.payload = inbox[k].payload /\ (r1.state = "processed" => inbox[k].state = "processed")
    BY <1>h, <2>1 DEF MesTypes, MesStates
  <2>5. inbox[k].state = "processed" => record[k].payload = inbox[k].payload
    BY DEF Mes!ProcessedIsRecorded
  <2>6. record \in [Keys -> [payload : Payloads \cup {"none"}, by : {"route", "drain", "none"}]]
    BY DEF MesTypes
  <2>. HIDE DEF r1
  <2>7. /\ k \notin shared /\ record'[k].by = "drain" => r1.state = "processed"
        /\ r1.state = "processed" => record'[k].payload = r1.payload
        /\ \A j \in Keys \ {k} : record'[j] = record[j]
    BY <1>h, <2>1, <2>4, <2>5
  <2>8. record' \in [Keys -> [payload : Payloads \cup {"none"}, by : {"route", "drain", "none"}]]
    BY <2>1, <2>6
  <2>. QED BY <1>s, <2>1, <2>3, <2>4, <2>7, <2>8
<1>6. ASSUME NEW d \in Drains, Mes!Crash(d) PROVE MesInv'
  BY <1>6 DEF Mes!Crash, MesTypes, RowsHavePayloads, Mes!ProcessedIsRecorded, OneDrain
<1>7. CASE UNCHANGED mesVars
  BY <1>7 DEF mesVars, MesTypes, RowsHavePayloads, Mes!ProcessedIsRecorded, OneDrain
<1>. QED BY <1>1, <1>2, <1>3, <1>4, <1>5, <1>6, <1>7 DEF Mes!Next

LEMMA MesInvariance == SumSpec => [](part = "mes" => MesInv)
<1>1. SumInit => (part = "mes" => MesInv)
  BY SumStart, MesInit
<1>2. (part = "mes" => MesInv) /\ [SumNext]_sumVars => (part = "mes" => MesInv)'
  BY SumStep, MesStep, NamesAreApart DEF Mes!None
<1>. QED BY <1>1, <1>2, PTL DEF SumSpec

\* An inbox row that says processed has its own payload in the consumption record,
\* although the route may record an event at the same time and several drains may hold
\* the row (consumption_mes_inbox_service.py:110-145).
THEOREM ProcessedStaysRecorded == SumSpec => []ProcessedIsRecorded
<1>1. (part = "mes" => MesInv) => ProcessedIsRecorded
  BY DEF MesInv, ProcessedIsRecorded
<1>. QED BY <1>1, MesInvariance, PTL

\* A row given up or in conflict has not been counted by a drain with its own payload,
\* through crashes and retries, unless two drains have held it at once.
THEOREM RefusedStaysUncounted == SumSpec => []RefusedIsNotCounted
<1>1. (part = "mes" => MesInv) => RefusedIsNotCounted
  BY DEF MesInv, MesTypes, OneDrain, RefusedIsNotCounted, Mes!RefusedIsNotCounted
<1>. QED BY <1>1, MesInvariance, PTL

-----------------------------------------------------------------------------
(* The lifecycle of an item.                                                *)

\* An item i: one in a state of the map, with the permission of the state, and with a
\* released version if it is released and versionable.
Shaped(i) ==
    i \in [state : LifeStates, permission : {i.permission}, released : BOOLEAN,
           process : {i.process}, task : {i.task}]
Permitted(i) ==
    Permission[i.state] # Life!NoPermission => i.permission = Permission[i.state]
Versioned(i) == i.state = ReleasedState /\ versionable => i.released

LifeInv == Shaped(item) /\ Permitted(item) /\ Versioned(item)

\* An item that has entered state t, and may not have its released version yet.
LEMMA EnteredItem ==
    ASSUME NEW i, NEW t \in LifeStates, Shaped(i)
    PROVE  /\ Shaped(Life!Entered(i, t)) /\ Permitted(Life!Entered(i, t))
           /\ Life!Entered(i, t).state = t /\ Life!Entered(i, t).released = i.released
<1>. DEFINE p == IF Permission[t] = Life!NoPermission THEN i.permission ELSE Permission[t]
            e == [i EXCEPT !.state = t, !.permission = p]
<1>1. Life!Entered(i, t) = e
  BY DEF Life!Entered, Shaped
<1>2. p = IF Permission[t] = Life!NoPermission THEN i.permission ELSE Permission[t]
  OBVIOUS
<1>. HIDE DEF p
<1>3. Shaped(e) /\ e.state = t /\ e.permission = p /\ e.released = i.released
  BY DEF Shaped
<1>4. Permitted(e)
  BY <1>2, <1>3 DEF Permitted
<1>. QED BY <1>1, <1>3, <1>4

\* One that a failed promote has set back to what o was.
LEMMA RestoredItem ==
    ASSUME NEW i, Shaped(i), NEW o, Shaped(o), Permitted(o)
    PROVE  /\ Shaped(Life!Restored(i, o)) /\ Permitted(Life!Restored(i, o))
           /\ Life!Restored(i, o).state = o.state /\ Life!Restored(i, o).released = i.released
<1>. DEFINE s == o.state
            p == o.permission
            e == [i EXCEPT !.state = s, !.permission = p]
<1>1. Life!Restored(i, o) = e
  BY DEF Life!Restored
<1>2. s \in LifeStates /\ s = o.state /\ p = o.permission
  BY DEF Shaped
<1>. HIDE DEF s, p
<1>3. Shaped(e) /\ e.state = s /\ e.permission = p /\ e.released = i.released
  BY <1>2 DEF Shaped
<1>4. Permitted(e)
  BY <1>2, <1>3 DEF Permitted
<1>. QED BY <1>1, <1>2, <1>3, <1>4

\* The process, the task and the version are changed apart from state and permission.
LEMMA OtherFields ==
    ASSUME NEW i, Shaped(i), Permitted(i), NEW a, NEW b,
           NEW j \in {[i EXCEPT !.process = a], [i EXCEPT !.task = b],
                      [i EXCEPT !.process = a, !.task = b], [i EXCEPT !.released = TRUE]}
    PROVE  /\ Shaped(j) /\ Permitted(j) /\ j.state = i.state
           /\ i.released => j.released
  BY DEF Shaped, Permitted

-----------------------------------------------------------------------------
\* The promote at the end of a workflow; PromoteAtEnd and Ended keep the release.
LEMMA CompletedItem ==
    ASSUME NEW i, Shaped(i), Permitted(i), NEW o, Shaped(o), Permitted(o), NEW fail,
           NEW t, o.released => i.released,
           i.state = ReleasedState /\ versionable => t = ReleasedState \/ i.released
    PROVE  LET c == Life!Completed(i, t, o, fail) IN
           /\ c.ok \in BOOLEAN
           /\ Shaped(c.item) /\ Permitted(c.item)
           /\ o.released => c.item.released
           /\ c.ok => Versioned(c.item)
           /\ ~c.ok => c.item.state = o.state
<1>. DEFINE c == Life!Completed(i, t, o, fail)
            g == [i EXCEPT !.released = TRUE]
<1>1. CASE t # ReleasedState \/ ~versionable
  <2>1. c.ok = TRUE /\ c.item = i
    BY <1>1 DEF Life!Completed
  <2>. QED BY <1>1, <2>1 DEF Versioned
<1>2. CASE t = ReleasedState /\ versionable /\ fail = "release"
  <2>1. c.ok = FALSE /\ c.item = Life!Restored(i, o)
    BY <1>2 DEF Life!Completed, Life!Failed
  <2>2. /\ Shaped(Life!Restored(i, o)) /\ Permitted(Life!Restored(i, o))
        /\ Life!Restored(i, o).state = o.state /\ Life!Restored(i, o).released = i.released
    BY RestoredItem
  <2>. QED BY <2>1, <2>2
<1>3. CASE t = ReleasedState /\ versionable /\ fail # "release"
  <2>1. c.ok = TRUE /\ c.item = g
    BY <1>3 DEF Life!Completed
  <2>2. Shaped(g) /\ Permitted(g)
    BY OtherFields
  <2>3. g.released = TRUE
    BY DEF Shaped
  <2>. HIDE DEF g
  <2>. QED BY <2>1, <2>2, <2>3 DEF Versioned
<1>. QED BY <1>1, <1>2, <1>3

LEMMA PromoteAtEndItem ==
    ASSUME NEW i, Shaped(i), Permitted(i), NEW t \in LifeStates, NEW fail
    PROVE  LET c == Life!PromoteAtEnd(i, t, fail) IN
           /\ Shaped(c.item) /\ Permitted(c.item)
           /\ i.released => c.item.released
           /\ Versioned(i) => Versioned(c.item)
           /\ c.item.state = i.state \/ Versioned(c.item)
<1>. DEFINE c == Life!PromoteAtEnd(i, t, fail)
            e == Life!Entered(i, t)
<1>e. Shaped(e) /\ Permitted(e) /\ e.state = t /\ e.released = i.released
  BY EnteredItem
<1>. HIDE DEF e
<1>1. CASE <<i.state, t>> \notin Arcs \/ fail = "gate"
  <2>1. c.item = i
    BY <1>1 DEF Life!PromoteAtEnd, Life!Failed
  <2>. QED BY <2>1
<1>2. CASE ~(<<i.state, t>> \notin Arcs \/ fail = "gate") /\ (fail = "enter" \/ t \in DOMAIN Flow)
  <2>1. c.item = Life!Restored(e, i)
    BY <1>2 DEF Life!PromoteAtEnd, Life!Failed, e
  <2>2. /\ Shaped(Life!Restored(e, i)) /\ Permitted(Life!Restored(e, i))
        /\ Life!Restored(e, i).state = i.state /\ Life!Restored(e, i).released = e.released
    BY <1>e, RestoredItem
  <2>. QED BY <1>e, <2>1, <2>2 DEF Versioned
<1>3. CASE ~(<<i.state, t>> \notin Arcs \/ fail = "gate") /\ ~(fail = "enter" \/ t \in DOMAIN Flow)
  <2>. DEFINE d == Life!Completed(e, t, i, fail)
  <2>1. c = d
    BY <1>3 DEF Life!PromoteAtEnd, e
  <2>2. /\ d.ok \in BOOLEAN
        /\ Shaped(d.item) /\ Permitted(d.item)
        /\ i.released => d.item.released
        /\ d.ok => Versioned(d.item)
        /\ ~d.ok => d.item.state = i.state
    BY <1>e, CompletedItem
  <2>. HIDE DEF d
  <2>3. Versioned(i) /\ ~d.ok => Versioned(d.item)
    BY <2>2 DEF Versioned
  <2>. QED BY <2>1, <2>2, <2>3
<1>. QED BY <1>1, <1>2, <1>3

\* The end of a workflow promotes to some state of the map, or leaves the item there.
LEMMA EndedItem ==
    ASSUME NEW i, Shaped(i), Permitted(i), NEW fail
    PROVE  /\ Shaped(Life!Ended(i, fail)) /\ Permitted(Life!Ended(i, fail))
           /\ i.released => Life!Ended(i, fail).released
           /\ Versioned(i) => Versioned(Life!Ended(i, fail))
           /\ Life!Ended(i, fail).state = i.state \/ Versioned(Life!Ended(i, fail))
<1>. DEFINE e == [i EXCEPT !.process = "ended", !.task = "none"]
            f == Life!Ended(i, fail)
            t == CHOOSE s \in Life!Onward(e.state) : TRUE
            c == Life!PromoteAtEnd(e, t, fail)
<1>1. Shaped(e) /\ Permitted(e) /\ e.state = i.state /\ e.released = i.released
  BY DEF Shaped, Permitted
<1>. HIDE DEF e
<1>2. CASE Life!Onward(e.state) = {}
  <2>1. f = e
    BY <1>2 DEF Life!Ended, e
  <2>. QED BY <1>1, <2>1 DEF Versioned
<1>3. CASE Life!Onward(e.state) # {}
  <2>1. f = c.item
    BY <1>3 DEF Life!Ended, e
  <2>2. t \in Life!Onward(e.state)
    BY <1>3
  <2>3. Life!Onward(e.state) \subseteq LifeStates
    <3>1. {s \in LifeStates : <<e.state, s>> \in Arcs} \subseteq LifeStates
      OBVIOUS
    <3>. QED BY <3>1 DEF Life!Onward
  <2>4. t \in LifeStates
    BY <2>2, <2>3
  <2>. HIDE DEF t
  <2>5. /\ Shaped(c.item) /\ Permitted(c.item)
        /\ e.released => c.item.released
        /\ Versioned(e) => Versioned(c.item)
        /\ c.item.state = e.state \/ Versioned(c.item)
    BY <1>1, <2>4, PromoteAtEndItem
  <2>6. Versioned(i) => Versioned(e)
    BY <1>1 DEF Versioned
  <2>. HIDE DEF c, f
  <2>7. /\ Shaped(f) /\ Permitted(f)
        /\ i.released => f.released
        /\ Versioned(i) => Versioned(f)
        /\ f.state = i.state \/ Versioned(f)
    BY <1>1, <2>1, <2>5, <2>6
  <2>. QED BY <2>7 DEF f
<1>. QED BY <1>2, <1>3

\* A workflow that is not started leaves the item's state and release alone.
LEMMA StartedItem ==
    ASSUME NEW i, Shaped(i), Permitted(i), NEW first, NEW fail
    PROVE  LET c == Life!Started(i, first, fail) IN
           /\ c.ok \in BOOLEAN
           /\ Shaped(c.item) /\ Permitted(c.item)
           /\ i.released => c.item.released
           /\ Versioned(i) => Versioned(c.item)
           /\ c.item.state = i.state \/ Versioned(c.item)
<1>. DEFINE c == Life!Started(i, first, fail)
            b == [i EXCEPT !.process = "active"]
            a == [i EXCEPT !.process = "active", !.task = first]
            f == Life!Ended(i, fail)
<1>1. /\ Shaped(b) /\ Permitted(b) /\ b.state = i.state /\ b.released = i.released
      /\ Shaped(a) /\ Permitted(a) /\ a.state = i.state /\ a.released = i.released
  BY DEF Shaped, Permitted
<1>2. /\ Shaped(f) /\ Permitted(f)
      /\ i.released => f.released
      /\ Versioned(i) => Versioned(f)
      /\ f.state = i.state \/ Versioned(f)
  BY EndedItem
<1>3. (Versioned(i) => Versioned(a)) /\ (Versioned(i) => Versioned(b))
  BY <1>1 DEF Versioned
<1>4. c.ok \in BOOLEAN /\ c.item \in {i, a, b, f}
  BY DEF Life!Started, Life!Failed
<1>. HIDE DEF a, b, f
<1>. QED BY <1>1, <1>2, <1>3, <1>4

LEMMA PromotedItem ==
    ASSUME NEW i, Shaped(i), Permitted(i), Versioned(i), NEW t \in LifeStates,
           NEW fail, NEW failIn
    PROVE  LET c == Life!Promote(i, t, fail, failIn).item IN
           Shaped(c) /\ Permitted(c) /\ Versioned(c)
<1>. DEFINE p == Life!Promote(i, t, fail, failIn)
            c == p.item
            e == Life!Entered(i, t)
            r == Life!Restored(e, i)
<1>e. Shaped(e) /\ Permitted(e) /\ e.state = t /\ e.released = i.released
  BY EnteredItem
<1>. HIDE DEF e
<1>r. Shaped(r) /\ Permitted(r) /\ Versioned(r)
  <2>1. /\ Shaped(r) /\ Permitted(r) /\ r.state = i.state /\ r.released = e.released
    BY <1>e, RestoredItem
  <2>. QED BY <1>e, <2>1 DEF Versioned
<1>. HIDE DEF r
<1>1. CASE <<i.state, t>> \notin Arcs \/ fail = "gate"
  <2>1. c = i
    BY <1>1 DEF Life!Promote, Life!Failed
  <2>. QED BY <2>1
<1>2. CASE ~(<<i.state, t>> \notin Arcs \/ fail = "gate") /\ fail = "enter"
  <2>1. c = r
    BY <1>2 DEF Life!Promote, Life!Failed, e, r
  <2>. QED BY <1>r, <2>1
<1>3. CASE ~(<<i.state, t>> \notin Arcs \/ fail = "gate") /\ fail # "enter" /\ t \notin DOMAIN Flow
  <2>. DEFINE d == Life!Completed(e, t, i, fail)
  <2>1. p = d
    BY <1>3 DEF Life!Promote, e
  <2>2. /\ d.ok \in BOOLEAN
        /\ Shaped(d.item) /\ Permitted(d.item)
        /\ i.released => d.item.released
        /\ d.ok => Versioned(d.item)
        /\ ~d.ok => d.item.state = i.state
    BY <1>e, CompletedItem
  <2>. HIDE DEF d
  <2>3. Versioned(d.item)
    BY <2>2 DEF Versioned
  <2>. QED BY <2>1, <2>2, <2>3
<1>4. CASE ~(<<i.state, t>> \notin Arcs \/ fail = "gate") /\ fail # "enter" /\ t \in DOMAIN Flow
  <2>. DEFINE s == Life!Started(e, Flow[t], failIn)
              d == Life!Completed(s.item, t, i, fail)
              q == Life!Restored(s.item, i)
  <2>1. /\ s.ok \in BOOLEAN
        /\ Shaped(s.item) /\ Permitted(s.item)
        /\ e.released => s.item.released
        /\ s.item.state = e.state \/ Versioned(s.item)
    BY <1>e, StartedItem
  <2>2. p = IF s.ok THEN d ELSE Life!Failed(q)
    BY <1>4 DEF Life!Promote, e
  <2>. HIDE DEF s
  <2>3. s.item.state = ReleasedState /\ versionable => t = ReleasedState \/ s.item.released
    BY <1>e, <2>1 DEF Versioned
  <2>4. /\ d.ok \in BOOLEAN
        /\ Shaped(d.item) /\ Permitted(d.item)
        /\ i.released => d.item.released
        /\ d.ok => Versioned(d.item)
        /\ ~d.ok => d.item.state = i.state
    BY <1>e, <2>1, <2>3, CompletedItem
  <2>5. /\ Shaped(q) /\ Permitted(q) /\ q.state = i.state /\ q.released = s.item.released
    BY <2>1, RestoredItem
  <2>. HIDE DEF d, q
  <2>6. Versioned(d.item) /\ Versioned(q)
    BY <1>e, <2>1, <2>4, <2>5 DEF Versioned
  <2>7. Life!Failed(q).item = q
    BY DEF Life!Failed
  <2>8. c = d.item \/ c = q
    BY <2>2, <2>7
  <2>. QED BY <2>4, <2>5, <2>6, <2>8
<1>. QED BY <1>1, <1>2, <1>3, <1>4

-----------------------------------------------------------------------------
LEMMA LifeInit == Life!Init => LifeInv
BY MapIsWhole DEF Life!Init, LifeInv, Shaped, Permitted, Versioned

LEMMA LifeKeeps == LifeInv /\ [Life!Next]_lifeVars => LifeInv'
<1>. SUFFICES ASSUME LifeInv, [Life!Next]_lifeVars PROVE LifeInv'
  OBVIOUS
<1>. DEFINE Good(i) == Shaped(i) /\ Permitted(i) /\ Versioned(i)
<1>0. Good(item)
  BY DEF LifeInv
<1>v. versionable' = versionable
  BY DEF Life!Next, lifeVars
<1>. SUFFICES Good(item')
  BY <1>v DEF LifeInv, Shaped, Permitted, Versioned
<1>1. ASSUME NEW t \in LifeStates, NEW fail, NEW failIn, Life!PromoteItem(t, fail, failIn)
      PROVE  Good(item')
  <2>1. item' = Life!Promote(item, t, fail, failIn).item
    BY <1>1 DEF Life!PromoteItem
  <2>. QED BY <1>0, <2>1, PromotedItem
<1>2. ASSUME NEW fail, NEW failIn, Life!ObsoleteExpired(fail, failIn)
      PROVE  Good(item')
  <2>1. item' = Life!Promote(item, Obsolete, fail, failIn).item
    BY <1>2 DEF Life!ObsoleteExpired
  <2>2. CASE Obsolete \notin LifeStates
    <3>1. <<item.state, Obsolete>> \notin Arcs
      BY <2>2, MapIsWhole
    <3>2. item' = item
      BY <2>1, <3>1 DEF Life!Promote, Life!Failed
    <3>. QED BY <1>0, <3>2
  <2>. QED BY <1>0, <2>1, <2>2, PromotedItem
<1>3. ASSUME NEW first, NEW fail, Life!StartWorkflow(first, fail)
      PROVE  Good(item')
  <2>1. item' = Life!Started(item, first, fail).item
    BY <1>3 DEF Life!StartWorkflow
  <2>. QED BY <1>0, <2>1, StartedItem
<1>4. ASSUME NEW o, NEW fail, Life!Vote(o, fail)
      PROVE  Good(item')
  <2>. DEFINE n == Route[item.task][o]
  <2>1. item' = IF n = "End" THEN Life!Ended(item, fail) ELSE [item EXCEPT !.task = n]
    BY <1>4 DEF Life!Vote
  <2>2. Good(Life!Ended(item, fail))
    BY <1>0, EndedItem
  <2>. HIDE DEF n
  <2>3. Good([item EXCEPT !.task = n])
    BY <1>0 DEF Shaped, Permitted, Versioned
  <2>. QED BY <2>1, <2>2, <2>3
<1>5. CASE UNCHANGED lifeVars
  BY <1>0, <1>5 DEF lifeVars
<1>. HIDE DEF Good
<1>. QED BY <1>1, <1>2, <1>3, <1>4, <1>5 DEF Life!Next

LEMMA LifeSafe == SumSpec => [](part = "promotion" => LifeInv)
<1>1. SumInit => (part = "promotion" => LifeInv)
  BY SumStart, LifeInit
<1>2. (part = "promotion" => LifeInv) /\ [SumNext]_sumVars => (part = "promotion" => LifeInv)'
  BY SumStep, LifeKeeps
<1>. QED BY <1>1, <1>2, PTL DEF SumSpec

\* The permission is that of the state after promotes that failed at any stage and were
\* committed nonetheless, and after those nested in the start or at the end of a workflow
\* (lifecycle/service.py, workflow/service.py).
THEOREM PermissionsFollow == SumSpec => []PermissionFollowsState
<1>1. (part = "promotion" => LifeInv) => PermissionFollowsState
  BY DEF LifeInv, Permitted, PermissionFollowsState, Life!PermissionFollowsState
<1>. QED BY <1>1, LifeSafe, PTL

\* No way into the state Released leaves a versionable item without a released version:
\* not the promote of a workflow's end, nor one whose release failed and that was set back.
THEOREM ReleasesHaveVersions == SumSpec => []ReleasedHasVersion
<1>1. (part = "promotion" => LifeInv) => ReleasedHasVersion
  BY DEF LifeInv, Versioned, ReleasedHasVersion, Life!ReleasedHasVersion
<1>. QED BY <1>1, LifeSafe, PTL

-----------------------------------------------------------------------------
(* The bulk transition of activities.                                       *)

LEMMA SameCardinality == \A S : Act!Cardinality(S) = Cardinality(S)
BY DEF Cardinality, Act!Cardinality

ActRow == [status : Act!Status \cup {"none"}, deps : SUBSET (Act!Activities \cup {Act!Missing})]
BulkRow ==
    [target : Act!Status \cup {"none"}, candidates : SUBSET Act!Activities,
     remaining : SUBSET Act!Activities, visited : SUBSET Act!Activities,
     progressed : BOOLEAN, rounds : Nat]

ActTypes ==
    /\ act \in [Act!Activities -> ActRow]
    /\ bulk \in BulkRow

\* Enough rounds are left for the activities that remain, one of which at least each
\* round that goes on has moved; and what a round without progress has visited, it
\* could not move.
RoundsSuffice ==
    /\ bulk.rounds > 0 =>
        Cardinality(bulk.remaining) <= IF bulk.progressed THEN bulk.rounds - 1 ELSE bulk.rounds
    /\ bulk.rounds > 0 /\ ~bulk.progressed =>
        \A a \in bulk.remaining \cap bulk.visited : ~Act!CanTransition(a, bulk.target)
    /\ bulk.rounds = 0 => \A a \in bulk.remaining : ~Act!CanTransition(a, bulk.target)

BulkInv == ActTypes /\ RoundsSuffice /\ Act!BulkKeepsOrder

\* The activities are finitely many, and moving one of some leaves one less.
LEMMA FewActivities ==
    ASSUME NEW S \in SUBSET Act!Activities
    PROVE  /\ IsFiniteSet(S) /\ Cardinality(S) \in Nat
           /\ S = {} <=> Cardinality(S) = 0
           /\ \A a \in S : Cardinality(S \ {a}) = Cardinality(S) - 1
<1>1. IsFiniteSet(Act!Activities)
  BY BulkConstants, FS_Interval DEF Act!Activities
<1>2. IsFiniteSet(S)
  BY <1>1, FS_Subset
<1>. QED BY <1>2, FS_CardinalityType, FS_EmptySet, FS_RemoveElement

LEMMA BulkInit == Act!Init => BulkInv
<1>. SUFFICES ASSUME Act!Init PROVE BulkInv
  OBVIOUS
<1>. USE DEF Act!Init, Act!NoBulk
<1>1. ActTypes
  BY DEF ActTypes, ActRow, BulkRow
<1>2. RoundsSuffice
  BY DEF RoundsSuffice
<1>3. Act!BulkKeepsOrder
  BY DEF Act!BulkKeepsOrder
<1>. QED BY <1>1, <1>2, <1>3 DEF BulkInv

LEMMA BulkStep ==
    ASSUME BulkInv, Act!Next \/ UNCHANGED actVars
    PROVE  BulkInv'
<1>. USE DEF BulkInv
<1>n. Act!NoBulk \in BulkRow
  BY DEF Act!NoBulk, BulkRow
<1>e. Act!Existing \subseteq Act!Activities
  BY DEF Act!Existing
<1>f. ASSUME bulk' = Act!NoBulk PROVE (RoundsSuffice /\ Act!BulkKeepsOrder)'
  BY <1>f DEF Act!NoBulk, RoundsSuffice, Act!BulkKeepsOrder
<1>1. ASSUME NEW a \in Act!Activities, Act!Create(a) PROVE BulkInv'
  <2>1. PICK deps \in SUBSET (Act!Existing \cup {Act!Missing}) :
            act' = [act EXCEPT ![a] = [status |-> "pending", deps |-> deps]]
    BY <1>1 DEF Act!Create
  <2>2. [status |-> "pending", deps |-> deps] \in ActRow
    BY <1>e DEF ActRow, Act!Status
  <2>3. ActTypes'
    BY <1>1, <2>1, <2>2 DEF ActTypes, Act!Create
  <2>4. bulk' = Act!NoBulk
    BY <1>1 DEF Act!Create
  <2>. QED BY <1>f, <2>3, <2>4
<1>2. ASSUME NEW a \in Act!Activities, NEW target \in Act!Status, Act!Transition(a, target)
      PROVE  BulkInv'
  <2>1. ActTypes'
    BY <1>2 DEF ActTypes, ActRow, Act!Transition
  <2>2. bulk' = Act!NoBulk
    BY <1>2 DEF Act!Transition
  <2>. QED BY <1>f, <2>1, <2>2
<1>3. ASSUME NEW a \in Act!Activities, Act!BulkVisit(a) PROVE BulkInv'
  <2>. DEFINE t == bulk.target
              can == Act!CanTransition(a, t)
  <2>1. /\ bulk.rounds > 0 /\ a \in bulk.remaining \ bulk.visited
        /\ act' = IF can THEN [act EXCEPT ![a].status = t] ELSE act
        /\ bulk' = [bulk EXCEPT !.visited = @ \cup {a},
                                !.remaining = IF can THEN @ \ {a} ELSE @,
                                !.progressed = @ \/ can]
    BY <1>3 DEF Act!BulkVisit
  <2>2. can \in BOOLEAN
    BY DEF Act!CanTransition
  <2>3. CASE ~can
    <3>1. /\ act' = act
          /\ bulk'.visited = bulk.visited \cup {a} /\ bulk'.remaining = bulk.remaining
          /\ bulk'.progressed = bulk.progressed /\ bulk'.rounds = bulk.rounds
          /\ bulk'.target = t /\ bulk'.candidates = bulk.candidates /\ bulk' \in BulkRow
      BY <2>1, <2>3 DEF ActTypes, BulkRow
    <3>2. \A b, u : Act!CanTransition(b, u)' <=> Act!CanTransition(b, u)
      BY <3>1 DEF Act!CanTransition, Act!Ready, Act!Existing
    <3>3. RoundsSuffice'
      BY <2>3, <3>1, <3>2, <2>1 DEF RoundsSuffice
    <3>4. Act!BulkKeepsOrder'
      BY <3>1 DEF Act!BulkKeepsOrder, Act!Existing
    <3>. QED BY <3>1, <3>3, <3>4 DEF ActTypes
  <2>4. CASE can
    <3>1. /\ act' = [act EXCEPT ![a].status = t]
          /\ bulk'.visited = bulk.visited \cup {a} /\ bulk'.remaining = bulk.remaining \ {a}
          /\ bulk'.progressed = TRUE /\ bulk'.rounds = bulk.rounds
          /\ bulk'.target = t /\ bulk'.candidates = bulk.candidates /\ bulk' \in BulkRow
      BY <2>1, <2>4 DEF ActTypes, BulkRow
    <3>2. t \in Act!Status \cup {"none"}
      BY DEF ActTypes, BulkRow
    <3>3. act' \in [Act!Activities -> ActRow]
      BY <3>1, <3>2 DEF ActTypes, ActRow
    <3>4. RoundsSuffice'
      <4>1. bulk.remaining \in SUBSET Act!Activities /\ bulk.rounds \in Nat
        BY DEF ActTypes, BulkRow
      <4>2. /\ Cardinality(bulk.remaining) \in Nat
            /\ Cardinality(bulk.remaining \ {a}) = Cardinality(bulk.remaining) - 1
        BY <2>1, <4>1, FewActivities
      <4>3. Cardinality(bulk.remaining) <= bulk.rounds
        BY <2>1, <4>1, <4>2 DEF RoundsSuffice
      <4>. QED BY <2>1, <3>1, <4>1, <4>2, <4>3 DEF RoundsSuffice
    <3>5. Act!BulkKeepsOrder'
      <4>. SUFFICES ASSUME t = "completed",
                           NEW b \in bulk.candidates \ (bulk.remaining \ {a}),
                           NEW d \in act'[b].deps
                    PROVE  d \in Act!Existing' /\ act'[d].status = "completed"
        BY <3>1 DEF Act!BulkKeepsOrder
      <4>1. b \in Act!Activities
        BY DEF ActTypes, BulkRow
      <4>2. act'[b].deps = act[b].deps
        BY <3>1, <4>1 DEF ActTypes, ActRow
      <4>3. d \in Act!Existing /\ act[d].status = "completed"
        BY <2>4, <4>2 DEF Act!BulkKeepsOrder, Act!CanTransition, Act!Ready
      <4>4. act'[d].status = "completed"
        BY <1>e, <3>1, <4>3 DEF ActTypes, ActRow
      <4>. QED BY <1>e, <4>3, <4>4 DEF Act!Existing
    <3>. QED BY <3>1, <3>3, <3>4, <3>5 DEF ActTypes
  <2>. QED BY <2>3, <2>4
<1>4. ASSUME NEW some \in SUBSET Act!Activities, NEW target \in Targets,
             NEW terminal \in BOOLEAN, NEW nonBlocking \in BOOLEAN,
             Act!BulkStart(some, target, terminal, nonBlocking)
      PROVE  BulkInv'
  <2>. DEFINE cs == Act!Candidates(some, terminal, nonBlocking)
  <2>1. /\ act' = act
        /\ bulk' = [target |-> target, candidates |-> cs, remaining |-> cs, visited |-> {},
                    progressed |-> FALSE, rounds |-> Act!MaxRounds(cs)]
    BY <1>4 DEF Act!BulkStart
  <2>2. cs \in SUBSET Act!Activities
    BY DEF Act!Candidates
  <2>. HIDE DEF cs
  <2>3. Act!MaxRounds(cs) \in Nat \ {0} /\ Cardinality(cs) <= Act!MaxRounds(cs)
    <3>1. Cardinality(cs) \in Nat /\ (cs = {} <=> Cardinality(cs) = 0)
      BY <2>2, FewActivities
    <3>. QED BY <3>1, SameCardinality DEF Act!MaxRounds
  <2>4. target \in Act!Status
    BY BulkConstants DEF Act!Status
  <2>5. ActTypes'
    BY <2>1, <2>2, <2>3, <2>4 DEF ActTypes, BulkRow
  <2>6. RoundsSuffice'
    BY <2>1, <2>3 DEF RoundsSuffice
  <2>7. Act!BulkKeepsOrder'
    BY <2>1 DEF Act!BulkKeepsOrder
  <2>. QED BY <2>5, <2>6, <2>7
<1>5. CASE Act!BulkRound
  <2>1. /\ bulk.rounds > 0 /\ bulk.remaining \subseteq bulk.visited /\ act' = act
        /\ bulk' = [bulk EXCEPT !.visited = {}, !.progressed = FALSE,
                                !.rounds = IF bulk.progressed THEN @ - 1 ELSE 0]
    BY <1>5 DEF Act!BulkRound
  <2>2. /\ bulk'.visited = {} /\ bulk'.remaining = bulk.remaining /\ bulk'.progressed = FALSE
        /\ bulk'.rounds = IF bulk.progressed THEN bulk.rounds - 1 ELSE 0
        /\ bulk'.target = bulk.target /\ bulk'.candidates = bulk.candidates
    BY <2>1 DEF ActTypes, BulkRow
  <2>3. bulk.rounds \in Nat /\ bulk.progressed \in BOOLEAN /\ bulk.remaining \in SUBSET Act!Activities
    BY DEF ActTypes, BulkRow
  <2>4. ActTypes'
    <3>. DEFINE n == IF bulk.progressed THEN bulk.rounds - 1 ELSE 0
    <3>1. n \in Nat
      BY <2>1, <2>3
    <3>2. bulk' = [bulk EXCEPT !.visited = {}, !.progressed = FALSE, !.rounds = n]
      BY <2>1, <2>2 DEF ActTypes, BulkRow
    <3>. HIDE DEF n
    <3>3. bulk' \in BulkRow
      BY <3>1, <3>2 DEF ActTypes, BulkRow
    <3>. QED BY <2>1, <3>3 DEF ActTypes
  <2>5. \A b, u : Act!CanTransition(b, u)' <=> Act!CanTransition(b, u)
    BY <2>1 DEF Act!CanTransition, Act!Ready, Act!Existing
  <2>6. RoundsSuffice'
    <3>1. CASE bulk.progressed
      <4>1. Cardinality(bulk.remaining) <= bulk.rounds - 1
        BY <2>1, <3>1 DEF RoundsSuffice
      <4>2. Cardinality(bulk.remaining) \in Nat /\ (bulk.remaining = {} <=> Cardinality(bulk.remaining) = 0)
        BY <2>3, FewActivities
      <4>3. bulk'.rounds = 0 => bulk'.remaining = {}
        BY <2>2, <2>3, <3>1, <4>1, <4>2
      <4>. QED BY <2>1, <2>2, <2>3, <3>1, <4>1, <4>2, <4>3 DEF RoundsSuffice
    <3>2. CASE ~bulk.progressed
      BY <2>1, <2>2, <2>5, <3>2 DEF RoundsSuffice
    <3>. QED BY <3>1, <3>2
  <2>7. Act!BulkKeepsOrder'
    BY <2>1, <2>2 DEF Act!BulkKeepsOrder, Act!Existing
  <2>. QED BY <2>4, <2>6, <2>7
<1>6. CASE Act!BulkEnd
  <2>1. bulk' = Act!NoBulk /\ act' = act
    BY <1>6 DEF Act!BulkEnd
  <2>2. ActTypes'
    BY <1>n, <2>1 DEF ActTypes
  <2>. QED BY <1>f, <2>1, <2>2
<1>7. CASE UNCHANGED actVars
  BY <1>7 DEF actVars, ActTypes, RoundsSuffice, Act!BulkKeepsOrder, Act!CanTransition,
      Act!Ready, Act!Existing
<1>. QED BY <1>1, <1>2, <1>3, <1>4, <1>5, <1>6, <1>7 DEF Act!Next

LEMMA BulkSafe == SumSpec => [](part = "activities" => BulkInv)
<1>1. SumInit => (part = "activities" => BulkInv)
  BY SumStart, BulkInit
<1>2. (part = "activities" => BulkInv) /\ [SumNext]_sumVars => (part = "activities" => BulkInv)'
  BY SumStep, BulkStep
<1>. QED BY <1>1, <1>2, PTL DEF SumSpec

\* As many rounds as there are candidates are enough for any order in which Python walks
\* the set: each round but the last moves one (transition_activities_bulk).
THEOREM BulksComplete == SumSpec => []BulkIsComplete
<1>1. (part = "activities" => BulkInv) => BulkIsComplete
  BY DEF BulkInv, RoundsSuffice, BulkIsComplete, Act!BulkIsComplete
<1>. QED BY <1>1, BulkSafe, PTL

\* No order of visits completes an activity before the ones it depends on.
THEOREM BulksKeepOrder == SumSpec => []BulkKeepsOrder
<1>1. (part = "activities" => BulkInv) => BulkKeepsOrder
  BY DEF BulkInv, BulkKeepsOrder
<1>. QED BY <1>1, BulkSafe, PTL

-----------------------------------------------------------------------------
(* The notification outbox, with one drain worker.                          *)

OneNotifier == \A v, w \in Workers : v = w

NoteRow ==
    [state : {"absent", "pending", "sent", "failed"}, attempts : Nat,
     worker : Workers \cup {"none"}, stale : BOOLEAN, due : BOOLEAN]
NoteAnswer == [delivery : Deliveries, result : {"ok", "retry", "final"}]

NoteTypes ==
    /\ delivery \in [Deliveries -> NoteRow]
    /\ sending \in [Workers -> SUBSET Deliveries]
    /\ count \in [Workers -> [Deliveries -> Nat]]
    /\ answer \in [Workers -> NoteAnswer \cup {Note!NoAnswer}]
    /\ mails \in [Deliveries -> Nat]
    /\ confirmed \subseteq Deliveries
    /\ died \in Nat

\* A worker's rows are pending, its copies of them as new as they are.
CopiesAreFresh ==
    \A w \in Workers : \A d \in sending[w] :
        delivery[d].state = "pending" /\ count[w][d] = delivery[d].attempts
\* It settles the row it has sent, which the adapter confirmed if the answer says so.
AnswersAreOwn ==
    \A w \in Workers : answer[w] # Note!NoAnswer =>
        /\ answer[w].delivery \in sending[w]
        /\ answer[w].result = "ok" => answer[w].delivery \in confirmed
\* A row without an address is never due.
NoAddressFails ==
    \A d \in Deliveries \cap NoAddress : delivery[d].state \in {"absent", "failed"}
\* A send is counted as an attempt, is yet to be settled, or was lost in a crash.
InFlight(d) == \E w \in Workers : answer[w].delivery = d
SendsAreCounted ==
    \A d \in Deliveries :
        /\ mails[d] <= delivery[d].attempts + died + (IF InFlight(d) THEN 1 ELSE 0)
        /\ delivery[d].attempts <= MaxAttempts
        /\ delivery[d].state \in {"absent", "pending"} => delivery[d].attempts < MaxAttempts

NoteInv ==
    /\ NoteTypes /\ CopiesAreFresh /\ AnswersAreOwn /\ NoAddressFails
    /\ SendsAreCounted

LEMMA NoteInit == Note!Init => NoteInv
<1>. SUFFICES ASSUME Note!Init PROVE NoteInv
  OBVIOUS
<1>. USE DEF Note!Init, Note!NoRow, Note!NoAnswer, Note!None
<1>1. NoteTypes
  BY DEF NoteTypes, NoteRow
<1>2. SendsAreCounted
  BY QueueConstants DEF SendsAreCounted, InFlight
<1>3. CopiesAreFresh /\ AnswersAreOwn /\ NoAddressFails
  BY DEF CopiesAreFresh, AnswersAreOwn, NoAddressFails
<1>. QED BY <1>1, <1>2, <1>3 DEF NoteInv

\* The steps that change nothing of a row but its claim and its due time.
LEMMA RowsAsTheyWere ==
    ASSUME NoteInv, OneNotifier, delivery' \in [Deliveries -> NoteRow],
           \A d \in Deliveries : /\ delivery'[d].state = delivery[d].state
                                 /\ delivery'[d].attempts = delivery[d].attempts,
           UNCHANGED <<answer, mails, confirmed, died>>
    PROVE  /\ NoAddressFails' /\ SendsAreCounted'
           /\ UNCHANGED <<sending, count>> => NoteInv'
<1>1. NoAddressFails' /\ SendsAreCounted'
  BY DEF NoteInv, NoAddressFails, SendsAreCounted, InFlight
<1>2. ASSUME UNCHANGED <<sending, count>> PROVE NoteInv'
  <2>1. NoteTypes'
    BY <1>2 DEF NoteInv, NoteTypes
  <2>2. CopiesAreFresh'
    BY <1>2 DEF NoteInv, NoteTypes, CopiesAreFresh
  <2>3. AnswersAreOwn'
    BY <1>2 DEF NoteInv, AnswersAreOwn
  <2>. QED BY <1>1, <2>1, <2>2, <2>3 DEF NoteInv
<1>. QED BY <1>1, <1>2

LEMMA NoteStep ==
    ASSUME OneNotifier, NoteInv, Note!Next \/ UNCHANGED noteVars
    PROVE  NoteInv'
<1>t. NoteTypes
  BY DEF NoteInv
<1>z. 0 \notin Deliveries
  BY NamesAreApart
<1>1. ASSUME NEW d \in Deliveries, Note!Enqueue(d) PROVE NoteInv'
  <2>. DEFINE s == IF d \in NoAddress THEN "failed" ELSE "pending"
  <2>1. /\ delivery[d].state = "absent"
        /\ delivery' = [delivery EXCEPT ![d].state = s]
        /\ UNCHANGED <<sending, count, answer, mails, confirmed, died>>
    BY <1>1 DEF Note!Enqueue
  <2>2. s \in {"failed", "pending"} /\ (d \in NoAddress => s = "failed")
    OBVIOUS
  <2>. HIDE DEF s
  <2>3. NoteTypes'
    BY <1>t, <2>1, <2>2 DEF NoteTypes, NoteRow
  <2>4. CopiesAreFresh'
    BY <1>t, <2>1, <2>2 DEF NoteInv, NoteTypes, NoteRow, CopiesAreFresh
  <2>5. AnswersAreOwn'
    BY <2>1 DEF NoteInv, AnswersAreOwn
  <2>6. NoAddressFails'
    BY <1>t, <2>1, <2>2 DEF NoteInv, NoteTypes, NoteRow, NoAddressFails
  <2>7. SendsAreCounted'
    BY <1>t, <2>1, <2>2 DEF NoteInv, NoteTypes, NoteRow, SendsAreCounted, InFlight
  <2>. QED BY <2>3, <2>4, <2>5, <2>6, <2>7 DEF NoteInv
<1>2. ASSUME NEW w \in Workers, Note!LookForStale(w) PROVE NoteInv'
  BY <1>2, <1>t, RowsAsTheyWere DEF Note!LookForStale, NoteTypes
<1>3. ASSUME NEW w \in Workers, Note!Claim(w) PROVE NoteInv'
  <2>. DEFINE now == Note!Released(w)
              free == {d \in Deliveries : now[d].state = "pending" /\ now[d].due
                                              /\ Note!Unclaimed(now[d])}
  <2>1. PICK b \in SUBSET free :
          /\ sending' = [sending EXCEPT ![w] = b]
          /\ count' = [count EXCEPT ![w] =
                [d \in Deliveries |-> IF d \in b THEN delivery[d].attempts ELSE 0]]
          /\ delivery' = [d \in Deliveries |->
                IF d \in b THEN [now[d] EXCEPT !.worker = w, !.stale = FALSE] ELSE now[d]]
    BY <1>3 DEF Note!Claim
  <2>2. UNCHANGED <<answer, mails, confirmed, died>> /\ sending[w] = {}
    BY <1>3 DEF Note!Claim, Note!Idle
  <2>3. \A d \in Deliveries : /\ now[d] \in NoteRow /\ now[d].state = delivery[d].state
                              /\ now[d].attempts = delivery[d].attempts
    <3>. SUFFICES ASSUME NEW d \in Deliveries
                  PROVE  /\ now[d] \in NoteRow /\ now[d].state = delivery[d].state
                         /\ now[d].attempts = delivery[d].attempts
      OBVIOUS
    <3>1. now[d] = delivery[d] \/ now[d] = [delivery[d] EXCEPT !.worker = "none", !.stale = FALSE]
      BY DEF Note!Released, Note!None
    <3>2. delivery[d] \in NoteRow
      BY <1>t DEF NoteTypes
    <3>. HIDE DEF now
    <3>. QED BY <3>1, <3>2 DEF NoteRow
  <2>. HIDE DEF now
  <2>4. delivery' \in [Deliveries -> NoteRow]
    <3>. SUFFICES ASSUME NEW d \in Deliveries PROVE delivery'[d] \in NoteRow
      BY <2>1
    <3>. QED BY <2>1, <2>3 DEF NoteRow
  <2>5. \A d \in Deliveries : /\ delivery'[d].state = delivery[d].state
                              /\ delivery'[d].attempts = delivery[d].attempts
    BY <2>1, <2>3 DEF NoteRow
  <2>6. NoAddressFails' /\ SendsAreCounted'
    BY <2>2, <2>4, <2>5, RowsAsTheyWere
  <2>7. b \subseteq Deliveries /\ \A d \in b : delivery[d].state = "pending"
    BY <2>3
  <2>8. NoteTypes'
    <3>1. [d \in Deliveries |-> IF d \in b THEN delivery[d].attempts ELSE 0] \in [Deliveries -> Nat]
      BY <1>t DEF NoteTypes, NoteRow
    <3>. QED BY <1>t, <2>1, <2>2, <2>4, <2>7, <3>1 DEF NoteTypes
  <2>9. CopiesAreFresh'
    BY <1>t, <2>1, <2>5, <2>7 DEF OneNotifier, CopiesAreFresh, NoteTypes
  <2>10. AnswersAreOwn'
    BY <2>2 DEF OneNotifier, NoteInv, AnswersAreOwn
  <2>. QED BY <2>6, <2>8, <2>9, <2>10 DEF NoteInv
<1>4. ASSUME NEW w \in Workers, NEW d \in Deliveries, Note!Send(w, d) PROVE NoteInv'
  <2>1. PICK how \in {"ok", "retry", "final"} :
          /\ confirmed' = IF how = "ok" THEN confirmed \cup {d} ELSE confirmed
          /\ answer' = [answer EXCEPT ![w] = [delivery |-> d, result |-> how]]
    BY <1>4 DEF Note!Send
  <2>2. /\ answer[w] = Note!NoAnswer /\ d \in sending[w]
        /\ mails' = [mails EXCEPT ![d] = @ + 1]
        /\ UNCHANGED <<delivery, sending, count, died>>
    BY <1>4 DEF Note!Send
  <2>3. NoteTypes'
    BY <1>t, <2>1, <2>2 DEF NoteTypes, NoteAnswer
  <2>4. answer'[w] = [delivery |-> d, result |-> how] /\ \A v \in Workers : v = w
    BY <1>t, <2>1 DEF NoteTypes, OneNotifier
  <2>5. CopiesAreFresh' /\ NoAddressFails'
    BY <2>2 DEF NoteInv, CopiesAreFresh, NoAddressFails
  <2>6. AnswersAreOwn'
    BY <2>1, <2>2, <2>4 DEF AnswersAreOwn
  <2>7. SendsAreCounted'
    <3>1. InFlight(d)' /\ ~InFlight(d)
      BY <1>z, <2>2, <2>4 DEF InFlight, Note!NoAnswer
    <3>2. \A e \in Deliveries \ {d} : ~InFlight(e)
      BY <1>z, <2>2, <2>4 DEF InFlight, Note!NoAnswer
    <3>. QED BY <1>t, <2>2, <3>1, <3>2 DEF NoteInv, SendsAreCounted, NoteTypes, NoteRow
  <2>. QED BY <2>3, <2>5, <2>6, <2>7 DEF NoteInv
<1>5. ASSUME NEW w \in Workers, Note!Settle(w) PROVE NoteInv'
  <2>0. answer[w].delivery \in Deliveries
    BY <1>5, <1>t DEF Note!Settle, NoteInv, NoteTypes, AnswersAreOwn
  <2>. PICK d \in Deliveries : d = answer[w].delivery
    BY <2>0
  <2>. DEFINE n == count[w][d] + 1
              to == Note!Outcome(n, answer[w].result)
              s == IF to = "pending" THEN delivery[d].state ELSE to
  <2>1. /\ answer[w] # Note!NoAnswer
        /\ delivery' = [delivery EXCEPT ![d] =
                [@ EXCEPT !.state = s, !.attempts = n,
                          !.worker = Note!None, !.stale = FALSE, !.due = (to # "pending")]]
        /\ sending' = [sending EXCEPT ![w] = @ \ {d}]
        /\ answer' = [answer EXCEPT ![w] = Note!NoAnswer]
        /\ UNCHANGED <<count, mails, confirmed, died>>
    BY <1>5 DEF Note!Settle
  <2>2. /\ d \in sending[w] /\ d \in Deliveries
        /\ delivery[d].state = "pending" /\ n = delivery[d].attempts + 1
    BY <1>t, <2>1 DEF NoteInv, NoteTypes, AnswersAreOwn, CopiesAreFresh
  <2>3. n \in Nat /\ n <= MaxAttempts
    BY <1>t, <2>2, QueueConstants DEF NoteInv, NoteTypes, NoteRow, SendsAreCounted
  <2>4. to \in {"sent", "pending", "failed"} /\ (to = "pending" => n < MaxAttempts)
    BY DEF Note!Outcome
  <2>5. s \in {"sent", "pending", "failed"} /\ (s = "pending" => n < MaxAttempts)
    BY <2>2, <2>4
  <2>6. /\ delivery'[d] = [state |-> s, attempts |-> n, worker |-> "none", stale |-> FALSE,
                           due |-> (to # "pending")]
        /\ \A e \in Deliveries \ {d} : delivery'[e] = delivery[e]
    <3>. DEFINE rest == [delivery[d] EXCEPT !.state = s, !.attempts = n, !.worker = "none",
                                            !.stale = FALSE, !.due = (to # "pending")]
    <3>0. delivery' = [delivery EXCEPT ![d] = rest]
      BY <2>1 DEF Note!None
    <3>1. delivery'[d] = rest
      BY <1>t, <3>0 DEF NoteTypes
    <3>2. delivery[d] \in NoteRow
      BY <1>t, <2>2 DEF NoteTypes
    <3>3. \A e \in Deliveries \ {d} : delivery'[e] = delivery[e]
      BY <1>t, <2>1 DEF NoteTypes
    <3>. HIDE DEF s, n, to
    <3>. QED BY <3>1, <3>2, <3>3 DEF NoteRow
  <2>7. answer'[w] = Note!NoAnswer /\ \A v \in Workers : v = w
    BY <1>t, <2>1 DEF NoteTypes, OneNotifier
  <2>8. ~InFlight(d)' /\ \A e \in Deliveries : ~InFlight(e)' /\ (InFlight(e) => e = d)
    BY <1>z, <2>7, <2>2 DEF InFlight, Note!NoAnswer
  <2>9. n = delivery[d].attempts + 1
    BY <2>2
  <2>. HIDE DEF s, n, to
  <2>10. NoteTypes'
    <3>1. delivery'[d] \in NoteRow
      BY <2>3, <2>5, <2>6 DEF NoteRow
    <3>2. delivery' \in [Deliveries -> NoteRow]
      BY <1>t, <2>1, <2>6, <3>1 DEF NoteTypes
    <3>. QED BY <1>t, <2>1, <3>2 DEF NoteTypes
  <2>11. CopiesAreFresh'
    BY <1>t, <2>1, <2>6, <2>7 DEF NoteInv, NoteTypes, CopiesAreFresh
  <2>12. AnswersAreOwn'
    BY <2>7 DEF AnswersAreOwn
  <2>13. NoAddressFails'
    BY <2>2, <2>6 DEF NoteInv, NoAddressFails
  <2>14. SendsAreCounted'
    <3>. SUFFICES ASSUME NEW e \in Deliveries
                  PROVE  /\ mails[e] <= delivery'[e].attempts + died
                         /\ delivery'[e].attempts <= MaxAttempts
                         /\ delivery'[e].state \in {"absent", "pending"} =>
                              delivery'[e].attempts < MaxAttempts
      <4>1. \A e \in Deliveries : /\ mails[e] \in Nat /\ delivery'[e].attempts \in Nat
                                  /\ died \in Nat /\ ~InFlight(e)'
        BY <1>t, <2>8, <2>10 DEF NoteTypes, NoteRow
      <4>2. mails' = mails /\ died' = died
        BY <2>1
      <4>. QED BY <4>1, <4>2 DEF SendsAreCounted
    <3>1. mails[e] \in Nat /\ delivery[e].attempts \in Nat /\ died \in Nat
      BY <1>t DEF NoteTypes, NoteRow
    <3>2. CASE e = d
      <4>1. mails[e] <= delivery[e].attempts + died + 1
        BY <3>1 DEF NoteInv, SendsAreCounted
      <4>2. delivery'[e].attempts = n /\ delivery'[e].state = s
        BY <2>6, <3>2
      <4>. QED BY <2>3, <2>5, <2>9, <3>1, <3>2, <4>1, <4>2
    <3>3. CASE e # d
      BY <2>6, <2>8, <3>1, <3>3 DEF NoteInv, SendsAreCounted
    <3>. QED BY <3>2, <3>3
  <2>. QED BY <2>10, <2>11, <2>12, <2>13, <2>14 DEF NoteInv
<1>6. ASSUME NEW w \in Workers, Note!Crash(w) PROVE NoteInv'
  <2>1. /\ died' = IF answer[w] # Note!NoAnswer THEN died + 1 ELSE died
        /\ sending' = [sending EXCEPT ![w] = {}]
        /\ answer' = [answer EXCEPT ![w] = Note!NoAnswer]
        /\ UNCHANGED <<delivery, count, mails, confirmed>>
    BY <1>6 DEF Note!Crash
  <2>2. answer'[w] = Note!NoAnswer /\ \A v \in Workers : v = w
    BY <1>t, <2>1 DEF NoteTypes, OneNotifier
  <2>3. NoteTypes'
    BY <1>t, <2>1 DEF NoteTypes
  <2>4. CopiesAreFresh'
    BY <1>t, <2>1 DEF NoteInv, NoteTypes, CopiesAreFresh
  <2>5. AnswersAreOwn' /\ NoAddressFails'
    BY <2>1, <2>2 DEF NoteInv, AnswersAreOwn, NoAddressFails
  <2>6. SendsAreCounted'
    <3>. SUFFICES ASSUME NEW e \in Deliveries
                  PROVE  mails[e] <= delivery[e].attempts + died'
      BY <1>t, <2>1, <2>3 DEF NoteInv, SendsAreCounted, NoteTypes, NoteRow
    <3>1. mails[e] \in Nat /\ delivery[e].attempts \in Nat /\ died \in Nat
      BY <1>t DEF NoteTypes, NoteRow
    <3>2. InFlight(e) => died' = died + 1
      BY <1>z, <2>1, <2>2 DEF InFlight, Note!NoAnswer
    <3>3. died' = died \/ died' = died + 1
      BY <2>1
    <3>. QED BY <3>1, <3>2, <3>3 DEF NoteInv, SendsAreCounted
  <2>. QED BY <2>3, <2>4, <2>5, <2>6 DEF NoteInv
<1>7. ASSUME NEW d \in Deliveries, Note!TurnStale(d) PROVE NoteInv'
  <2>1. /\ delivery' = [delivery EXCEPT ![d].stale = TRUE]
        /\ UNCHANGED <<sending, count, answer, mails, confirmed, died>>
    BY <1>7 DEF Note!TurnStale
  <2>2. /\ delivery' \in [Deliveries -> NoteRow]
        /\ \A e \in Deliveries : /\ delivery'[e].state = delivery[e].state
                                 /\ delivery'[e].attempts = delivery[e].attempts
    <3>1. /\ delivery'[d] = [delivery[d] EXCEPT !.stale = TRUE] /\ delivery[d] \in NoteRow
          /\ \A e \in Deliveries \ {d} : delivery'[e] = delivery[e] /\ delivery[e] \in NoteRow
          /\ delivery' = [e \in Deliveries |-> delivery'[e]]
      BY <1>t, <2>1 DEF NoteTypes
    <3>2. /\ delivery'[d] \in NoteRow /\ delivery'[d].state = delivery[d].state
          /\ delivery'[d].attempts = delivery[d].attempts
      BY <3>1 DEF NoteRow
    <3>. QED BY <3>1, <3>2
  <2>. QED BY <2>1, <2>2, RowsAsTheyWere
<1>8. ASSUME NEW d \in Deliveries, Note!BackoffElapses(d) PROVE NoteInv'
  <2>1. /\ delivery' = [delivery EXCEPT ![d].due = TRUE]
        /\ UNCHANGED <<sending, count, answer, mails, confirmed, died>>
    BY <1>8 DEF Note!BackoffElapses
  <2>2. /\ delivery' \in [Deliveries -> NoteRow]
        /\ \A e \in Deliveries : /\ delivery'[e].state = delivery[e].state
                                 /\ delivery'[e].attempts = delivery[e].attempts
    <3>1. /\ delivery'[d] = [delivery[d] EXCEPT !.due = TRUE] /\ delivery[d] \in NoteRow
          /\ \A e \in Deliveries \ {d} : delivery'[e] = delivery[e] /\ delivery[e] \in NoteRow
          /\ delivery' = [e \in Deliveries |-> delivery'[e]]
      BY <1>t, <2>1 DEF NoteTypes
    <3>2. /\ delivery'[d] \in NoteRow /\ delivery'[d].state = delivery[d].state
          /\ delivery'[d].attempts = delivery[d].attempts
      BY <3>1 DEF NoteRow
    <3>. QED BY <3>1, <3>2
  <2>. QED BY <2>1, <2>2, RowsAsTheyWere
<1>9. CASE UNCHANGED noteVars
  BY <1>9, <1>t, RowsAsTheyWere DEF noteVars, NoteTypes
<1>. QED BY <1>1, <1>2, <1>3, <1>4, <1>5, <1>6, <1>7, <1>8, <1>9 DEF Note!Next

LEMMA NoteSafe ==
    ASSUME OneNotifier
    PROVE  SumSpec => []NoteInv
<1>1. SumInit => NoteInv
  BY SumStart, NoteInit
<1>2. NoteInv /\ [SumNext]_sumVars => NoteInv'
  BY SumStep, NoteStep
<1>. QED BY <1>1, <1>2, PTL DEF SumSpec

\* A notification is sent once per attempt and once more per crash that lost the count of
\* a send: the worker's copy of attempt_count is never old (notifications/worker.py).
THEOREM NotificationsAreBudgeted == SumSpec => []SendsWithinBudget
<1>1. CASE OneNotifier
  <2>1. NoteInv => SendsWithinBudget
    <3>. SUFFICES ASSUME NoteInv, NEW d \in Deliveries PROVE mails[d] <= MaxAttempts + died
      BY DEF SendsWithinBudget, Note!SendsWithinBudget
    <3>1. /\ mails[d] \in Nat /\ delivery[d].attempts \in Nat /\ died \in Nat
          /\ MaxAttempts \in Nat
      BY QueueConstants DEF NoteInv, NoteTypes, NoteRow
    <3>2. InFlight(d) => delivery[d].state = "pending"
      <4>1. ASSUME NEW w \in Workers, answer[w].delivery = d PROVE d \in sending[w]
        BY <4>1, NamesAreApart DEF NoteInv, AnswersAreOwn, Note!NoAnswer
      <4>. QED BY <4>1 DEF InFlight, NoteInv, CopiesAreFresh
    <3>. QED BY <3>1, <3>2 DEF NoteInv, SendsAreCounted
  <2>. QED BY <1>1, <2>1, NoteSafe, PTL
<1>2. CASE ~OneNotifier
  <2>1. Note!Cardinality(Workers) # 1
    <3>1. Note!Cardinality(Workers) = Cardinality(Workers)
      BY DEF Cardinality, Note!Cardinality
    <3>. QED BY <1>2, <3>1, FinitelyMany, FS_Singleton DEF OneNotifier
  <2>2. SendsWithinBudget
    BY <2>1 DEF SendsWithinBudget, Note!SendsWithinBudget
  <2>. QED BY <2>2, PTL
<1>. QED BY <1>1, <1>2

-----------------------------------------------------------------------------
(* Of which the abstract outbox is what a reader may rely on.               *)

\* The states and contents that the abstract outbox sees, and its steps on them.
Shown == [d \in Deliveries |-> IF d \in accepted THEN d ELSE 0]
States == [d \in Deliveries |-> Note!OutboxState(d)]
Own == [d \in Deliveries |-> d]

LEMMA OutboxInit == Note!Init => Note!Outbox!Init
<1>. SUFFICES ASSUME Note!Init PROVE Note!Outbox!Init
  OBVIOUS
<1>1. States = [d \in Deliveries |-> "absent"]
  BY DEF States, Note!Init, Note!OutboxState, Note!NoRow
<1>2. Shown = [l \in {Own[r] : r \in Deliveries} |-> 0] /\ confirmed = {}
  BY DEF Shown, Own, Note!Init
<1>. QED BY <1>1, <1>2 DEF Note!Outbox!Init, Note!Outbox!Lineages, States, Shown, Own

LEMMA OutboxStep ==
    ASSUME OneNotifier, NoteInv, Note!Next \/ UNCHANGED noteVars
    PROVE  [Note!Outbox!Next]_(Note!Outbox!vars)
<1>t. NoteTypes
  BY DEF NoteInv
<1>s. ASSUME UNCHANGED <<accepted, confirmed>>, \A d \in Deliveries : delivery'[d].state = delivery[d].state
      PROVE  UNCHANGED Note!Outbox!vars
  BY <1>s DEF Note!Outbox!vars, Note!OutboxState
<1>r. UNCHANGED Note!Outbox!vars => [Note!Outbox!Next]_(Note!Outbox!vars)
  OBVIOUS
<1>1. ASSUME NEW d \in Deliveries, Note!Enqueue(d)
      PROVE  [Note!Outbox!Next]_(Note!Outbox!vars)
  <2>1. /\ delivery[d].state = "absent"
        /\ delivery' = [delivery EXCEPT ![d].state =
                            IF d \in NoAddress THEN "failed" ELSE "pending"]
        /\ UNCHANGED <<accepted, confirmed>>
    BY <1>1 DEF Note!Enqueue
  <2>2. \A e \in Deliveries :
            delivery'[e].state = IF e # d THEN delivery[e].state
                                 ELSE IF d \in NoAddress THEN "failed" ELSE "pending"
    BY <1>t, <2>1 DEF NoteTypes, NoteRow
  <2>3. CASE d \in NoAddress
    BY <2>1, <2>2, <2>3 DEF Note!Outbox!vars, Note!OutboxState
  <2>4. CASE d \notin NoAddress
    <3>1. States[d] = "absent" /\ States' = [States EXCEPT ![d] = "pending"]
      BY <2>1, <2>2, <2>4 DEF States, Note!OutboxState
    <3>2. Shown' = Shown
      BY <2>1 DEF Shown
    <3>3. Note!Outbox!Enqueue(d)
      BY <2>1, <3>1, <3>2 DEF Note!Outbox!Enqueue, States, Shown
    <3>. QED BY <3>3 DEF Note!Outbox!Next
  <2>. QED BY <2>3, <2>4
<1>2. ASSUME NEW w \in Workers, Note!LookForStale(w) PROVE UNCHANGED Note!Outbox!vars
  BY <1>2, <1>s DEF Note!LookForStale
<1>3. ASSUME NEW w \in Workers, Note!Claim(w) PROVE UNCHANGED Note!Outbox!vars
  <2>. DEFINE now == Note!Released(w)
  <2>1. PICK b :
          delivery' = [d \in Deliveries |->
                IF d \in b THEN [now[d] EXCEPT !.worker = w, !.stale = FALSE] ELSE now[d]]
    BY <1>3 DEF Note!Claim
  <2>2. \A d \in Deliveries : now[d] \in NoteRow /\ now[d].state = delivery[d].state
    <3>. SUFFICES ASSUME NEW d \in Deliveries
                  PROVE  now[d] \in NoteRow /\ now[d].state = delivery[d].state
      OBVIOUS
    <3>1. now[d] = delivery[d] \/ now[d] = [delivery[d] EXCEPT !.worker = "none", !.stale = FALSE]
      BY DEF Note!Released, Note!None
    <3>2. delivery[d] \in NoteRow
      BY <1>t DEF NoteTypes
    <3>. HIDE DEF now
    <3>. QED BY <3>1, <3>2 DEF NoteRow
  <2>. HIDE DEF now
  <2>3. \A d \in Deliveries : delivery'[d].state = delivery[d].state
    BY <2>1, <2>2 DEF NoteRow
  <2>. QED BY <1>3, <1>s, <2>3 DEF Note!Claim
<1>4. ASSUME NEW w \in Workers, NEW d \in Deliveries, Note!Send(w, d)
      PROVE  [Note!Outbox!Next]_(Note!Outbox!vars)
  <2>1. /\ delivery' = delivery
        /\ accepted' \in {accepted, accepted \cup {d}}
        /\ confirmed' \in {confirmed, confirmed \cup {d}}
    BY <1>4 DEF Note!Send
  <2>2. delivery[d].state = "pending" /\ d \notin NoAddress
    BY <1>4 DEF NoteInv, CopiesAreFresh, NoAddressFails, Note!Send
  <2>3. States[d] = "pending" /\ States' = States
    BY <2>1, <2>2 DEF States, Note!OutboxState
  <2>4. Shown' \in {Shown, [Shown EXCEPT ![Own[d]] = d]}
    <3>1. CASE accepted' = accepted
      BY <3>1 DEF Shown
    <3>2. CASE accepted' = accepted \cup {d}
      <4>1. Shown' = [Shown EXCEPT ![Own[d]] = d]
        BY <3>2 DEF Shown, Own
      <4>. QED BY <4>1
    <3>. QED BY <2>1, <3>1, <3>2
  <2>5. \A s \in Deliveries : ~(Own[s] = Own[d] /\ s > d)
    BY NamesAreApart DEF Own
  <2>6. Note!Outbox!Deliver(d)
    BY <2>1, <2>3, <2>4, <2>5 DEF Note!Outbox!Deliver, States, Shown, Own
  <2>. QED BY <2>6 DEF Note!Outbox!Next
<1>5. ASSUME NEW w \in Workers, Note!Settle(w)
      PROVE  [Note!Outbox!Next]_(Note!Outbox!vars)
  <2>0. answer[w].delivery \in Deliveries
    BY <1>5, <1>t DEF Note!Settle, NoteInv, NoteTypes, AnswersAreOwn
  <2>. PICK d \in Deliveries : d = answer[w].delivery
    BY <2>0
  <2>. DEFINE how == answer[w].result
              to == Note!Outcome(count[w][d] + 1, how)
              s == IF to = "pending" THEN delivery[d].state ELSE to
              rest == [delivery[d] EXCEPT !.state = s, !.attempts = count[w][d] + 1,
                          !.worker = "none", !.stale = FALSE, !.due = (to # "pending")]
  <2>1. /\ answer[w] # Note!NoAnswer
        /\ delivery' = [delivery EXCEPT ![d] = rest]
        /\ UNCHANGED <<accepted, confirmed>>
    BY <1>5 DEF Note!Settle, Note!None
  <2>2. /\ delivery[d].state = "pending" /\ d \notin NoAddress
        /\ how = "ok" => d \in confirmed
    BY <2>1 DEF NoteInv, AnswersAreOwn, CopiesAreFresh, NoAddressFails
  <2>3. to \in {"sent", "pending", "failed"} /\ (to = "sent" => how = "ok")
    BY DEF Note!Outcome
  <2>4. s \in {"sent", "pending", "failed"} /\ (s = "sent" => d \in confirmed)
    BY <2>2, <2>3
  <2>. HIDE DEF s, to
  <2>5. rest.state = s
    BY <1>t DEF NoteTypes, NoteRow
  <2>. HIDE DEF rest
  <2>6. \A e \in Deliveries : delivery'[e].state = IF e = d THEN s ELSE delivery[e].state
    BY <1>t, <2>1, <2>5 DEF NoteTypes
  <2>7. CASE s = "pending"
    BY <1>s, <2>1, <2>2, <2>6, <2>7
  <2>8. CASE s # "pending"
    <3>1. States[d] = "pending" /\ States' = [States EXCEPT ![d] = s]
      BY <2>2, <2>6 DEF States, Note!OutboxState
    <3>3. Shown' = Shown
      BY <2>1 DEF Shown
    <3>4. Note!Outbox!Settle(d, s)
      BY <2>1, <2>4, <3>1, <3>3 DEF Note!Outbox!Settle, States, Shown, Own
    <3>5. s \in Note!Outbox!Settled
      BY <2>4, <2>8 DEF Note!Outbox!Settled
    <3>. QED BY <3>4, <3>5 DEF Note!Outbox!Next
  <2>. QED BY <2>7, <2>8
<1>6. ASSUME NEW w \in Workers, Note!Crash(w) PROVE UNCHANGED Note!Outbox!vars
  BY <1>6, <1>s DEF Note!Crash
<1>7. ASSUME NEW d \in Deliveries, Note!TurnStale(d) PROVE UNCHANGED Note!Outbox!vars
  <2>1. \A e \in Deliveries : delivery'[e].state = delivery[e].state
    BY <1>7, <1>t DEF Note!TurnStale, NoteTypes, NoteRow
  <2>. QED BY <1>7, <1>s, <2>1 DEF Note!TurnStale
<1>8. ASSUME NEW d \in Deliveries, Note!BackoffElapses(d) PROVE UNCHANGED Note!Outbox!vars
  <2>1. \A e \in Deliveries : delivery'[e].state = delivery[e].state
    BY <1>8, <1>t DEF Note!BackoffElapses, NoteTypes, NoteRow
  <2>. QED BY <1>8, <1>s, <2>1 DEF Note!BackoffElapses
<1>9. CASE UNCHANGED noteVars
  BY <1>9, <1>s DEF noteVars
<1>. QED BY <1>r, <1>1, <1>2, <1>3, <1>4, <1>5, <1>6, <1>7, <1>8, <1>9 DEF Note!Next

\* With one drain worker the notification outbox implements the abstract one: through
\* lost answers, crashes and stale claims a delivery is recorded as sent only after the
\* adapter has answered ok for it, and is not sent again (notifications/{service,worker}.py).
THEOREM NotificationsAreAnOutbox ==
    ASSUME \A v, w \in Workers : v = w
    PROVE  SumSpec => OutboxSpec
<1>0. OneNotifier
  BY DEF OneNotifier
<1>1. SumInit => Note!Outbox!Init
  BY SumStart, OutboxInit
<1>2. NoteInv /\ [SumNext]_sumVars => [Note!Outbox!Next]_(Note!Outbox!vars)
  BY <1>0, SumStep, OutboxStep
<1>3. SumSpec => []NoteInv
  BY <1>0, NoteSafe
<1>. QED BY <1>1, <1>2, <1>3, PTL DEF SumSpec, OutboxSpec, Note!OutboxSpec, Note!Outbox!Spec

-----------------------------------------------------------------------------
(* The search index.                                                        *)

ItemStates == ItemContents \cup {"absent", "gone"}

EventTypes ==
    /\ store \in [IndexedItems -> ItemStates]
    /\ work \in [Callers -> [IndexedItems -> ItemContents \cup {"same", "gone"}]]
    /\ pending \in [Callers -> Seq(Ev!Event)]
    /\ feed \in [Callers -> Seq(Ev!Event)]
    /\ got \in [Callers -> ItemStates \cup {"nothing"}]
    /\ index \in [IndexedItems -> ItemContents \cup {"absent"}]
    /\ spoiled \subseteq IndexedItems

\* The last of the events s for an item among U tells what became of it in c.
IsLast(s, n) == \A m \in DOMAIN s : m > n => s[m].item # s[n].item
Tells(s, c, U) ==
    \A n \in DOMAIN s : IsLast(s, n) /\ s[n].item \in U =>
        c[s[n].item] \in IF s[n].kind = "remove" THEN {"gone"} ELSE ItemContents

\* An item is written by one request at a time; the events of a request are of items it
\* has written, all of them but the spoiled.
RowsAreLocked ==
    \A i \in IndexedItems : \A r, q \in Callers :
        work[r][i] # "same" /\ work[q][i] # "same" => r = q
EventsAreOfWrites ==
    \A r \in Callers : \A i \in Ev!ItemsOf(pending[r]) : work[r][i] # "same"
WritesHaveEvents ==
    \A r \in Callers : \A i \in IndexedItems \ spoiled :
        work[r][i] # "same" => i \in Ev!ItemsOf(pending[r])
PendingTells == \A r \in Callers : Tells(pending[r], work[r], IndexedItems)

\* What is published of an item that is not spoiled comes from one request, and ends with
\* what is in the table; its handler has read what is in the table.
OnePublisher ==
    \A i \in IndexedItems \ spoiled : \A r, q \in Callers :
        i \in Ev!ItemsOf(feed[r]) /\ i \in Ev!ItemsOf(feed[q]) => r = q
FeedTells == \A r \in Callers : Tells(feed[r], store, IndexedItems \ spoiled)
ReadIsFresh ==
    \A r \in Callers : got[r] # "nothing" =>
        /\ feed[r] # <<>>
        /\ Head(feed[r]).item \notin spoiled => got[r] = store[Head(feed[r]).item]

EventsInv ==
    /\ EventTypes /\ RowsAreLocked /\ EventsAreOfWrites /\ WritesHaveEvents /\ PendingTells
    /\ OnePublisher /\ FeedTells /\ ReadIsFresh /\ Ev!IndexFollowsStore

-----------------------------------------------------------------------------
(* Sequences of events.                                                     *)

LEMMA ItemsOfNone == Ev!ItemsOf(<<>>) = {} /\ \A c, U : Tells(<<>>, c, U)
BY DEF Ev!ItemsOf, Tells

LEMMA ItemsOfOne ==
    ASSUME NEW e \in Ev!Event, NEW c, NEW U,
           c[e.item] \in IF e.kind = "remove" THEN {"gone"} ELSE ItemContents
    PROVE  Ev!ItemsOf(<<e>>) = {e.item} /\ Tells(<<e>>, c, U)
BY DEF Ev!ItemsOf, Tells

LEMMA ItemsOfAll ==
    ASSUME NEW s \in Seq(Ev!Event) PROVE Ev!ItemsOf(s) \subseteq IndexedItems
<1>1. \A n \in DOMAIN s : s[n] \in Ev!Event
  OBVIOUS
<1>. QED BY <1>1 DEF Ev!ItemsOf, Ev!Event

\* One more event.
LEMMA ItemsOfMore ==
    ASSUME NEW s \in Seq(Ev!Event), NEW e \in Ev!Event
    PROVE  Ev!ItemsOf(Append(s, e)) = Ev!ItemsOf(s) \cup {e.item}
<1>. DEFINE t == Append(s, e)
<1>1. /\ DOMAIN t = 1..(Len(s) + 1) /\ DOMAIN s = 1..Len(s) /\ Len(s) \in Nat
      /\ \A n \in 1..Len(s) : t[n] = s[n]
      /\ t[Len(s) + 1] = e
  OBVIOUS
<1>. HIDE DEF t
<1>2. ASSUME NEW i \in Ev!ItemsOf(t) PROVE i \in Ev!ItemsOf(s) \cup {e.item}
  BY <1>1 DEF Ev!ItemsOf
<1>3. ASSUME NEW i \in Ev!ItemsOf(s) \cup {e.item} PROVE i \in Ev!ItemsOf(t)
  BY <1>1 DEF Ev!ItemsOf
<1>. QED BY <1>2, <1>3 DEF t

LEMMA TellsMore ==
    ASSUME NEW s \in Seq(Ev!Event), NEW e \in Ev!Event, NEW c, NEW d, NEW U,
           Tells(s, c, U), \A i \in U \ {e.item} : d[i] = c[i],
           d[e.item] \in IF e.kind = "remove" THEN {"gone"} ELSE ItemContents
    PROVE  Tells(Append(s, e), d, U)
<1>. DEFINE t == Append(s, e)
<1>1. /\ DOMAIN t = 1..(Len(s) + 1) /\ DOMAIN s = 1..Len(s) /\ Len(s) \in Nat
      /\ \A n \in 1..Len(s) : t[n] = s[n]
      /\ t[Len(s) + 1] = e
  OBVIOUS
<1>. HIDE DEF t
<1>. SUFFICES ASSUME NEW n \in DOMAIN t, IsLast(t, n), t[n].item \in U
              PROVE  d[t[n].item] \in IF t[n].kind = "remove" THEN {"gone"} ELSE ItemContents
  BY DEF Tells, t
<1>2. CASE n = Len(s) + 1
  BY <1>1, <1>2
<1>3. CASE n # Len(s) + 1
  <2>1. n \in DOMAIN s /\ t[n] = s[n] /\ s[n].item # e.item
    BY <1>1, <1>3 DEF IsLast
  <2>2. IsLast(s, n)
    BY <1>1, <2>1 DEF IsLast
  <2>. QED BY <2>1, <2>2 DEF Tells
<1>. QED BY <1>2, <1>3

\* One event less.
LEMMA ItemsOfRest ==
    ASSUME NEW s \in Seq(Ev!Event), s # <<>>, NEW c, NEW U, Tells(s, c, U)
    PROVE  LET e == Head(s) IN
           /\ e \in Ev!Event /\ Tail(s) \in Seq(Ev!Event)
           /\ Ev!ItemsOf(s) = Ev!ItemsOf(Tail(s)) \cup {e.item}
           /\ Tells(Tail(s), c, U)
           /\ e.item \in U \ Ev!ItemsOf(Tail(s)) =>
                c[e.item] \in IF e.kind = "remove" THEN {"gone"} ELSE ItemContents
<1>. DEFINE e == Head(s)
            t == Tail(s)
<1>1. e \in Ev!Event /\ t \in Seq(Ev!Event) /\ e = s[1]
  OBVIOUS
<1>2. /\ Len(s) \in Nat \ {0} /\ DOMAIN s = 1..Len(s) /\ DOMAIN t = 1..(Len(s) - 1)
      /\ \A n \in 1..(Len(s) - 1) : t[n] = s[n + 1]
  OBVIOUS
<1>3. \A n \in DOMAIN t : n \in Nat /\ n + 1 \in DOMAIN s /\ t[n] = s[n + 1]
  BY <1>2
<1>4. \A n \in DOMAIN s : n = 1 \/ (n - 1 \in DOMAIN t /\ s[n] = t[n - 1])
  BY <1>2
<1>5. 1 \in DOMAIN s
  BY <1>2
<1>. HIDE DEF e, t
<1>6. Ev!ItemsOf(s) = Ev!ItemsOf(t) \cup {e.item}
  <2>1. ASSUME NEW i \in Ev!ItemsOf(s) PROVE i \in Ev!ItemsOf(t) \cup {e.item}
    BY <1>1, <1>4 DEF Ev!ItemsOf
  <2>2. ASSUME NEW i \in Ev!ItemsOf(t) \cup {e.item} PROVE i \in Ev!ItemsOf(s)
    BY <1>1, <1>3, <1>5 DEF Ev!ItemsOf
  <2>. QED BY <2>1, <2>2
<1>7. Tells(t, c, U)
  <2>1. ASSUME NEW n \in DOMAIN t, IsLast(t, n) PROVE IsLast(s, n + 1)
    <3>. SUFFICES ASSUME NEW m \in DOMAIN s, m > n + 1 PROVE s[m].item # s[n + 1].item
      BY DEF IsLast
    <3>1. n \in Nat /\ m \in Nat /\ m # 1
      BY <1>2, <1>3
    <3>2. m - 1 \in DOMAIN t /\ s[m] = t[m - 1] /\ t[n] = s[n + 1] /\ m - 1 > n
      BY <1>3, <1>4, <3>1
    <3>. QED BY <2>1, <3>2 DEF IsLast
  <2>. QED BY <1>3, <2>1 DEF Tells
<1>8. ASSUME e.item \in U \ Ev!ItemsOf(t)
      PROVE  c[e.item] \in IF e.kind = "remove" THEN {"gone"} ELSE ItemContents
  <2>1. IsLast(s, 1)
    BY <1>1, <1>4, <1>8 DEF IsLast, Ev!ItemsOf
  <2>. QED BY <1>1, <1>5, <1>8, <2>1 DEF Tells
<1>. QED BY <1>1, <1>6, <1>7, <1>8 DEF e, t

\* Fewer items, of which c and d say the same.
LEMMA TellsLess ==
    ASSUME NEW s, NEW c, NEW d, NEW U, NEW V, Tells(s, c, U), V \subseteq U,
           \A i \in V \cap Ev!ItemsOf(s) : d[i] = c[i]
    PROVE  Tells(s, d, V)
BY DEF Tells, Ev!ItemsOf

-----------------------------------------------------------------------------
LEMMA EventsInit == Ev!Init => EventsInv
<1>. SUFFICES ASSUME Ev!Init PROVE EventsInv
  OBVIOUS
<1>. USE DEF Ev!Init, Ev!Untouched
<1>1. EventTypes
  BY DEF EventTypes, ItemStates
<1>2. RowsAreLocked /\ WritesHaveEvents /\ ReadIsFresh
  BY DEF RowsAreLocked, WritesHaveEvents, ReadIsFresh
<1>3. EventsAreOfWrites /\ PendingTells /\ OnePublisher /\ FeedTells
  BY ItemsOfNone DEF EventsAreOfWrites, PendingTells, OnePublisher, FeedTells
<1>4. Ev!IndexFollowsStore
  BY NamesAreApart DEF Ev!IndexFollowsStore
<1>. QED BY <1>1, <1>2, <1>3, <1>4 DEF EventsInv

\* An operation of r writes c to i and announces it with e, after what is pending or, when
\* a savepoint has published or dropped that, alone.
LEMMA WriteKeeps ==
    ASSUME EventsInv, NEW r \in Callers, NEW i \in IndexedItems,
           NEW c \in ItemContents \cup {"gone"}, NEW e \in Ev!Event,
           e.item = i, c \in IF e.kind = "remove" THEN {"gone"} ELSE ItemContents,
           Ev!Writes(r, i, c), UNCHANGED <<store, got, index>>,
           \/ /\ pending' = [pending EXCEPT ![r] = Append(@, e)]
              /\ UNCHANGED <<feed, spoiled>>
           \/ /\ pending' = [pending EXCEPT ![r] = <<e>>]
              /\ feed' = feed \/ feed' = [feed EXCEPT ![r] = pending[r]]
              /\ spoiled' = spoiled \cup Ev!ItemsOf(pending[r])
    PROVE  EventsInv'
<1>. USE DEF EventsInv
<1>t. EventTypes
  OBVIOUS
<1>1. /\ feed[r] = <<>> /\ \A q \in Callers \ {r} : work[q][i] = "same"
      /\ work' = [work EXCEPT ![r][i] = c]
  BY DEF Ev!Writes
<1>2. /\ work'[r][i] = c /\ \A j \in IndexedItems \ {i} : work'[r][j] = work[r][j]
      /\ \A q \in Callers \ {r} : work'[q] = work[q]
  BY <1>1, <1>t DEF EventTypes
<1>3. c # "same"
  BY NamesAreApart
<1>4. Ev!ItemsOf(pending[r]) \subseteq IndexedItems /\ pending[r] \in Seq(Ev!Event)
  BY <1>t, ItemsOfAll DEF EventTypes
<1>5. /\ \A q \in Callers \ {r} : pending'[q] = pending[q] /\ feed'[q] = feed[q]
      /\ spoiled' = spoiled \/ spoiled' = spoiled \cup Ev!ItemsOf(pending[r])
      /\ feed'[r] = <<>> \/ (feed'[r] = pending[r] /\ Ev!ItemsOf(pending[r]) \subseteq spoiled')
  BY <1>1, <1>t DEF EventTypes
<1>6. /\ pending'[r] \in Seq(Ev!Event)
      /\ Tells(pending'[r], work'[r], IndexedItems)
      /\ i \in Ev!ItemsOf(pending'[r])
      /\ Ev!ItemsOf(pending'[r]) \subseteq Ev!ItemsOf(pending[r]) \cup {i}
      /\ (Ev!ItemsOf(pending[r]) \ spoiled') \subseteq Ev!ItemsOf(pending'[r])
  <2>1. CASE pending' = [pending EXCEPT ![r] = Append(@, e)]
    <3>1. pending'[r] = Append(pending[r], e)
      BY <1>t, <2>1 DEF EventTypes
    <3>2. Ev!ItemsOf(pending'[r]) = Ev!ItemsOf(pending[r]) \cup {i}
      BY <1>4, <3>1, ItemsOfMore
    <3>3. Tells(pending'[r], work'[r], IndexedItems)
      BY <1>2, <1>4, <3>1, TellsMore DEF PendingTells
    <3>. QED BY <1>4, <3>1, <3>2, <3>3
  <2>2. CASE /\ pending' = [pending EXCEPT ![r] = <<e>>]
             /\ spoiled' = spoiled \cup Ev!ItemsOf(pending[r])
    <3>1. pending'[r] = <<e>>
      BY <1>t, <2>2 DEF EventTypes
    <3>2. Ev!ItemsOf(<<e>>) = {i} /\ Tells(<<e>>, work'[r], IndexedItems)
      BY <1>2, ItemsOfOne
    <3>3. <<e>> \in Seq(Ev!Event)
      OBVIOUS
    <3>4. Ev!ItemsOf(pending[r]) \ spoiled' = {}
      BY <2>2
    <3>. HIDE DEF Tells, Ev!ItemsOf
    <3>. QED BY <3>1, <3>2, <3>3, <3>4
  <2>. QED BY <2>1, <2>2
<1>7. EventTypes'
  <2>1. work' \in [Callers -> [IndexedItems -> ItemContents \cup {"same", "gone"}]]
    BY <1>1, <1>t DEF EventTypes
  <2>2. pending' \in [Callers -> Seq(Ev!Event)] /\ feed' \in [Callers -> Seq(Ev!Event)]
    <3>1. \E p : pending' = [pending EXCEPT ![r] = p]
      OBVIOUS
    <3>2. pending' \in [Callers -> Seq(Ev!Event)]
      BY <1>6, <1>t, <3>1 DEF EventTypes
    <3>3. feed' \in [Callers -> Seq(Ev!Event)]
      BY <1>4, <1>t DEF EventTypes
    <3>. QED BY <3>2, <3>3
  <2>3. spoiled' \subseteq IndexedItems
    BY <1>4, <1>5, <1>t DEF EventTypes
  <2>. QED BY <1>t, <2>1, <2>2, <2>3 DEF EventTypes
<1>8. RowsAreLocked'
  BY <1>1, <1>2 DEF RowsAreLocked
<1>9. EventsAreOfWrites'
  BY <1>2, <1>3, <1>4, <1>5, <1>6 DEF EventsAreOfWrites
<1>10. WritesHaveEvents'
  BY <1>2, <1>5, <1>6 DEF WritesHaveEvents
<1>11. PendingTells'
  BY <1>2, <1>5, <1>6 DEF PendingTells
<1>12. OnePublisher'
  BY <1>5, ItemsOfNone DEF OnePublisher
<1>13. FeedTells'
  <2>. SUFFICES ASSUME NEW q \in Callers PROVE Tells(feed'[q], store, IndexedItems \ spoiled')
    BY DEF FeedTells
  <2>1. CASE feed'[q] = feed[q]
    <3>1. Tells(feed[q], store, IndexedItems \ spoiled)
      BY DEF FeedTells
    <3>2. IndexedItems \ spoiled' \subseteq IndexedItems \ spoiled
      BY <1>5
    <3>. QED BY <2>1, <3>1, <3>2, TellsLess
  <2>2. CASE q = r
    <3>1. CASE feed'[r] = <<>>
      BY <2>2, <3>1, ItemsOfNone
    <3>2. CASE feed'[r] = pending[r] /\ Ev!ItemsOf(pending[r]) \subseteq spoiled'
      BY <2>2, <3>2 DEF Tells, Ev!ItemsOf
    <3>. QED BY <1>5, <3>1, <3>2
  <2>. QED BY <1>5, <2>1, <2>2
<1>14. ReadIsFresh'
  BY <1>1, <1>5 DEF ReadIsFresh
<1>15. Ev!IndexFollowsStore'
  <2>. SUFFICES ASSUME NEW j \in IndexedItems \ spoiled',
                       \A q \in Callers : j \notin Ev!ItemsOf(feed'[q])
                PROVE  index[j] = IF store[j] \in ItemContents THEN store[j] ELSE "absent"
    BY DEF Ev!IndexFollowsStore
  <2>1. j \notin spoiled /\ \A q \in Callers : j \notin Ev!ItemsOf(feed[q])
    BY <1>1, <1>5, ItemsOfNone
  <2>. QED BY <2>1 DEF Ev!IndexFollowsStore
<1>. QED BY <1>7, <1>8, <1>9, <1>10, <1>11, <1>12, <1>13, <1>14, <1>15

\* The end of r's transaction; no other holds a row of which it clears the spoiled mark.
LEMMA TransactionEnds ==
    ASSUME EventsInv, NEW r \in Callers,
           work' = [work EXCEPT ![r] = Ev!Untouched], pending' = [pending EXCEPT ![r] = <<>>],
           \A j \in spoiled \ spoiled' : \A q \in Callers \ {r} : work[q][j] = "same"
    PROVE  /\ RowsAreLocked' /\ EventsAreOfWrites' /\ WritesHaveEvents' /\ PendingTells'
           /\ work' \in [Callers -> [IndexedItems -> ItemContents \cup {"same", "gone"}]]
           /\ pending' \in [Callers -> Seq(Ev!Event)]
<1>. USE DEF EventsInv
<1>t. EventTypes
  OBVIOUS
<1>1. /\ \A q \in Callers \ {r} : work'[q] = work[q] /\ pending'[q] = pending[q]
      /\ pending'[r] = <<>> /\ \A j \in IndexedItems : work'[r][j] = "same"
  BY <1>t DEF EventTypes, Ev!Untouched
<1>2. RowsAreLocked'
  BY <1>1 DEF RowsAreLocked
<1>3. EventsAreOfWrites'
  BY <1>1, ItemsOfNone DEF EventsAreOfWrites
<1>4. WritesHaveEvents'
  BY <1>1 DEF WritesHaveEvents
<1>5. PendingTells'
  BY <1>1, ItemsOfNone DEF PendingTells
<1>6. /\ work' \in [Callers -> [IndexedItems -> ItemContents \cup {"same", "gone"}]]
      /\ pending' \in [Callers -> Seq(Ev!Event)]
  BY <1>t DEF EventTypes, Ev!Untouched
<1>. QED BY <1>2, <1>3, <1>4, <1>5, <1>6

\* r's handlers are done with some events, and s are left; the items they are done with
\* are in the index as in the table, or spoiled.
Followed(i) == index[i] = IF store[i] \in ItemContents THEN store[i] ELSE "absent"

LEMMA HandlersGoOn ==
    ASSUME EventsInv, NEW r \in Callers, NEW s \in Seq(Ev!Event), UNCHANGED store,
           feed' = [feed EXCEPT ![r] = s], got' = [got EXCEPT ![r] = "nothing"],
           Ev!ItemsOf(s) \subseteq Ev!ItemsOf(feed[r]),
           spoiled \subseteq spoiled', spoiled' \subseteq IndexedItems,
           Tells(s, store, IndexedItems \ spoiled'),
           index' \in [IndexedItems -> ItemContents \cup {"absent"}],
           \A j \in IndexedItems \ spoiled' :
                /\ j \notin Ev!ItemsOf(feed[r]) => index'[j] = index[j]
                /\ j \in Ev!ItemsOf(feed[r]) \ Ev!ItemsOf(s) => Followed(j)'
    PROVE  /\ OnePublisher' /\ FeedTells' /\ ReadIsFresh' /\ Ev!IndexFollowsStore'
           /\ UNCHANGED <<work, pending>> => EventsInv'
           /\ work' \in [Callers -> [IndexedItems -> ItemContents \cup {"same", "gone"}]]
              /\ pending' \in [Callers -> Seq(Ev!Event)] => EventTypes'
<1>. USE DEF EventsInv
<1>t. EventTypes
  OBVIOUS
<1>1. /\ feed'[r] = s /\ got'[r] = "nothing"
      /\ \A q \in Callers \ {r} : feed'[q] = feed[q] /\ got'[q] = got[q]
  BY <1>t DEF EventTypes
<1>2. OnePublisher'
  BY <1>1 DEF OnePublisher
<1>3. FeedTells'
  <2>. SUFFICES ASSUME NEW q \in Callers PROVE Tells(feed'[q], store, IndexedItems \ spoiled')
    BY DEF FeedTells
  <2>1. CASE q = r
    BY <1>1, <2>1
  <2>2. CASE q # r
    <3>1. Tells(feed[q], store, IndexedItems \ spoiled)
      BY DEF FeedTells
    <3>2. IndexedItems \ spoiled' \subseteq IndexedItems \ spoiled
      OBVIOUS
    <3>3. Tells(feed[q], store, IndexedItems \ spoiled')
      BY <3>1, <3>2, TellsLess
    <3>. QED BY <1>1, <2>2, <3>3
  <2>. QED BY <2>1, <2>2
<1>4. ReadIsFresh'
  BY <1>1 DEF ReadIsFresh
<1>5. Ev!IndexFollowsStore'
  <2>. SUFFICES ASSUME NEW j \in IndexedItems \ spoiled',
                       \A q \in Callers : j \notin Ev!ItemsOf(feed'[q])
                PROVE  Followed(j)'
    BY DEF Ev!IndexFollowsStore, Followed
  <2>1. CASE j \in Ev!ItemsOf(feed[r])
    BY <1>1, <2>1
  <2>2. CASE j \notin Ev!ItemsOf(feed[r])
    <3>1. j \notin spoiled /\ \A q \in Callers : j \notin Ev!ItemsOf(feed[q])
      BY <1>1, <2>2
    <3>2. Followed(j)
      BY <3>1 DEF Ev!IndexFollowsStore, Followed
    <3>. QED BY <2>2, <3>2 DEF Followed
  <2>. QED BY <2>1, <2>2
<1>6. /\ feed' \in [Callers -> Seq(Ev!Event)] /\ got' \in [Callers -> ItemStates \cup {"nothing"}]
  BY <1>t DEF EventTypes
<1>7. ASSUME UNCHANGED <<work, pending>> PROVE EventsInv'
  <2>1. EventTypes'
    BY <1>6, <1>7, <1>t DEF EventTypes
  <2>2. RowsAreLocked' /\ EventsAreOfWrites' /\ WritesHaveEvents' /\ PendingTells'
    BY <1>7 DEF RowsAreLocked, EventsAreOfWrites, WritesHaveEvents, PendingTells
  <2>. QED BY <1>2, <1>3, <1>4, <1>5, <2>1, <2>2
<1>8. ASSUME work' \in [Callers -> [IndexedItems -> ItemContents \cup {"same", "gone"}]],
             pending' \in [Callers -> Seq(Ev!Event)]
      PROVE  EventTypes'
  BY <1>6, <1>8, <1>t DEF EventTypes
<1>. QED BY <1>2, <1>3, <1>4, <1>5, <1>7, <1>8

LEMMA CommitKeeps ==
    ASSUME EventsInv, NEW r \in Callers, Ev!Commit(r)
    PROVE  EventsInv'
<1>. USE DEF EventsInv
<1>t. EventTypes
  OBVIOUS
<1>. DEFINE P == Ev!ItemsOf(pending[r])
<1>1. /\ feed[r] = <<>>
      /\ store' = [i \in IndexedItems |-> Ev!Seen(r, i)]
      /\ work' = [work EXCEPT ![r] = Ev!Untouched]
      /\ feed' = [feed EXCEPT ![r] = pending[r]]
      /\ spoiled' = (spoiled \ P) \cup Ev!Overlapping(r)
      /\ pending' = [pending EXCEPT ![r] = <<>>]
      /\ UNCHANGED <<got, index>>
  BY DEF Ev!Commit
<1>2. P \subseteq IndexedItems /\ pending[r] \in Seq(Ev!Event)
  BY <1>t, ItemsOfAll DEF EventTypes
<1>3. feed'[r] = pending[r] /\ \A q \in Callers \ {r} : feed'[q] = feed[q]
  BY <1>1, <1>t DEF EventTypes
<1>4. Ev!Overlapping(r) \subseteq P
  BY DEF Ev!Overlapping
<1>5. \A j \in P \ spoiled' : \A q \in Callers \ {r} : j \notin Ev!ItemsOf(feed[q])
  BY <1>1 DEF Ev!Overlapping
<1>6. \A j \in P : /\ store'[j] = work[r][j] /\ work[r][j] # "same"
                   /\ \A q \in Callers \ {r} : work[q][j] = "same"
  BY <1>1, <1>2 DEF EventsAreOfWrites, RowsAreLocked, Ev!Seen
<1>7. \A j \in (IndexedItems \ P) \ spoiled' : j \notin spoiled /\ store'[j] = store[j]
  BY <1>1 DEF WritesHaveEvents, Ev!Seen
<1>. HIDE DEF P
<1>8. /\ RowsAreLocked' /\ EventsAreOfWrites' /\ WritesHaveEvents' /\ PendingTells'
      /\ work' \in [Callers -> [IndexedItems -> ItemContents \cup {"same", "gone"}]]
      /\ pending' \in [Callers -> Seq(Ev!Event)]
  BY <1>1, <1>6, TransactionEnds
<1>9. EventTypes'
  <2>1. store' \in [IndexedItems -> ItemStates]
    BY <1>1, <1>t DEF EventTypes, ItemStates, Ev!Seen
  <2>2. feed' \in [Callers -> Seq(Ev!Event)] /\ spoiled' \subseteq IndexedItems
    BY <1>1, <1>2, <1>4, <1>t DEF EventTypes
  <2>. QED BY <1>1, <1>8, <1>t, <2>1, <2>2 DEF EventTypes
<1>10. OnePublisher'
  <2>. SUFFICES ASSUME NEW j \in IndexedItems \ spoiled', NEW q \in Callers, NEW p \in Callers,
                       j \in Ev!ItemsOf(feed'[q]), j \in Ev!ItemsOf(feed'[p]), q # p
                PROVE  FALSE
    BY DEF OnePublisher
  <2>1. CASE j \in P
    BY <1>3, <1>5, <2>1
  <2>2. CASE j \notin P
    <3>1. j \in Ev!ItemsOf(feed[q]) /\ j \in Ev!ItemsOf(feed[p])
      BY <1>3, <2>2 DEF P
    <3>. QED BY <1>7, <2>2, <3>1 DEF OnePublisher
  <2>. QED BY <2>1, <2>2
<1>11. FeedTells'
  <2>. SUFFICES ASSUME NEW q \in Callers PROVE Tells(feed'[q], store', IndexedItems \ spoiled')
    BY DEF FeedTells
  <2>1. CASE q = r
    <3>1. Tells(pending[r], work[r], IndexedItems)
      BY DEF PendingTells
    <3>2. \A j \in (IndexedItems \ spoiled') \cap Ev!ItemsOf(pending[r]) : store'[j] = work[r][j]
      BY <1>6 DEF P
    <3>3. Tells(pending[r], store', IndexedItems \ spoiled')
      BY <3>1, <3>2, TellsLess
    <3>. QED BY <1>3, <2>1, <3>3
  <2>2. CASE q # r
    <3>. DEFINE U == (IndexedItems \ spoiled') \cap Ev!ItemsOf(feed[q])
    <3>1. \A j \in U : j \notin spoiled /\ store'[j] = store[j]
      BY <1>5, <1>7, <2>2
    <3>2. Tells(feed[q], store, IndexedItems \ spoiled)
      BY DEF FeedTells
    <3>3. Tells(feed[q], store', U)
      BY <3>1, <3>2, TellsLess
    <3>4. Tells(feed[q], store', IndexedItems \ spoiled')
      BY <3>3 DEF Tells, Ev!ItemsOf
    <3>. QED BY <1>3, <2>2, <3>4
  <2>. QED BY <2>1, <2>2
<1>12. ReadIsFresh'
  <2>. SUFFICES ASSUME NEW q \in Callers, got[q] # "nothing"
                PROVE  /\ feed'[q] # <<>>
                       /\ Head(feed'[q]).item \notin spoiled' =>
                            got[q] = store'[Head(feed'[q]).item]
    BY <1>1 DEF ReadIsFresh
  <2>. DEFINE j == Head(feed[q]).item
  <2>1. feed[q] # <<>> /\ q # r /\ feed'[q] = feed[q] /\ (j \notin spoiled => got[q] = store[j])
    BY <1>1, <1>3 DEF ReadIsFresh
  <2>2. j \in Ev!ItemsOf(feed[q]) /\ j \in IndexedItems
    <3>1. feed[q] \in Seq(Ev!Event)
      BY <1>t DEF EventTypes
    <3>2. 1 \in DOMAIN feed[q] /\ feed[q][1] = Head(feed[q]) /\ Head(feed[q]) \in Ev!Event
      BY <2>1, <3>1
    <3>. QED BY <3>2 DEF Ev!ItemsOf, Ev!Event
  <2>3. j \notin spoiled' => j \notin P /\ j \notin spoiled /\ store'[j] = store[j]
    BY <1>5, <1>7, <2>1, <2>2
  <2>. QED BY <2>1, <2>3
<1>13. Ev!IndexFollowsStore'
  <2>. SUFFICES ASSUME NEW j \in IndexedItems \ spoiled',
                       \A q \in Callers : j \notin Ev!ItemsOf(feed'[q])
                PROVE  index[j] = IF store'[j] \in ItemContents THEN store'[j] ELSE "absent"
    BY <1>1 DEF Ev!IndexFollowsStore
  <2>1. j \notin P /\ \A q \in Callers : j \notin Ev!ItemsOf(feed[q])
    BY <1>1, <1>3, ItemsOfNone DEF P
  <2>. QED BY <1>7, <2>1 DEF Ev!IndexFollowsStore
<1>. QED BY <1>8, <1>9, <1>10, <1>11, <1>12, <1>13

LEMMA EventsStep ==
    ASSUME EventsInv, Ev!Next \/ UNCHANGED eventVars
    PROVE  EventsInv'
<1>. USE DEF EventsInv
<1>t. EventTypes
  OBVIOUS
<1>e. \A i \in IndexedItems : /\ [item |-> i, kind |-> "sync"] \in Ev!Event
                              /\ [item |-> i, kind |-> "remove"] \in Ev!Event
  BY DEF Ev!Event
<1>1. ASSUME NEW r \in Callers, NEW i \in IndexedItems, NEW c \in ItemContents,
             Ev!Add(r, i, c) \/ Ev!Update(r, i, c) \/ Ev!Promote(r, i, c)
      PROVE  EventsInv'
  <2>. DEFINE e == [item |-> i, kind |-> "sync"]
  <2>1. /\ Ev!Writes(r, i, c) /\ UNCHANGED <<store, got, index>>
        /\ \/ /\ pending' = [pending EXCEPT ![r] = Append(@, e)]
              /\ UNCHANGED <<feed, spoiled>>
           \/ /\ pending' = [pending EXCEPT ![r] = <<e>>]
              /\ feed' = feed \/ feed' = [feed EXCEPT ![r] = pending[r]]
              /\ spoiled' = spoiled \cup Ev!ItemsOf(pending[r])
    BY <1>1 DEF Ev!Add, Ev!Update, Ev!Promote, Ev!Enqueue, Ev!SavepointThenEnqueue
  <2>2. e \in Ev!Event /\ e.item = i /\ c \in IF e.kind = "remove" THEN {"gone"} ELSE ItemContents
    BY <1>e
  <2>. HIDE DEF e
  <2>. QED BY <2>1, <2>2, WriteKeeps
<1>2. ASSUME NEW r \in Callers, NEW i \in IndexedItems, Ev!Delete(r, i) PROVE EventsInv'
  <2>. DEFINE e == [item |-> i, kind |-> "remove"]
  <2>1. /\ Ev!Writes(r, i, "gone") /\ UNCHANGED <<store, got, index>>
        /\ pending' = [pending EXCEPT ![r] = Append(@, e)]
        /\ UNCHANGED <<feed, spoiled>>
    BY <1>2 DEF Ev!Delete, Ev!Enqueue
  <2>2. /\ e \in Ev!Event /\ e.item = i
        /\ "gone" \in IF e.kind = "remove" THEN {"gone"} ELSE ItemContents
    BY <1>e
  <2>. HIDE DEF e
  <2>. QED BY <2>1, <2>2, WriteKeeps
<1>3. ASSUME NEW r \in Callers, Ev!Rollback(r) PROVE EventsInv'
  <2>1. /\ work' = [work EXCEPT ![r] = Ev!Untouched] /\ pending' = [pending EXCEPT ![r] = <<>>]
        /\ UNCHANGED <<store, feed, got, index, spoiled>>
    BY <1>3 DEF Ev!Rollback
  <2>2. /\ RowsAreLocked' /\ EventsAreOfWrites' /\ WritesHaveEvents' /\ PendingTells'
        /\ work' \in [Callers -> [IndexedItems -> ItemContents \cup {"same", "gone"}]]
        /\ pending' \in [Callers -> Seq(Ev!Event)]
    BY <2>1, TransactionEnds
  <2>3. EventTypes'
    BY <1>t, <2>1, <2>2 DEF EventTypes
  <2>4. OnePublisher' /\ FeedTells' /\ ReadIsFresh' /\ Ev!IndexFollowsStore'
    BY <2>1 DEF OnePublisher, FeedTells, ReadIsFresh, Ev!IndexFollowsStore
  <2>. QED BY <2>2, <2>3, <2>4
<1>4. ASSUME NEW r \in Callers, Ev!Read(r) PROVE EventsInv'
  <2>. DEFINE s == store[Head(feed[r]).item]
  <2>1. /\ feed[r] # <<>> /\ got' = [got EXCEPT ![r] = s]
        /\ UNCHANGED <<store, work, pending, feed, index, spoiled>>
    BY <1>4 DEF Ev!Read
  <2>2. s \in ItemStates
    <3>1. feed[r] \in Seq(Ev!Event)
      BY <1>t DEF EventTypes
    <3>2. Head(feed[r]) \in Ev!Event
      BY <2>1, <3>1
    <3>. QED BY <1>t, <3>2 DEF EventTypes, Ev!Event
  <2>3. got'[r] = s /\ \A q \in Callers \ {r} : got'[q] = got[q]
    BY <1>t, <2>1 DEF EventTypes
  <2>4. EventTypes'
    BY <1>t, <2>1, <2>2 DEF EventTypes
  <2>5. ReadIsFresh'
    BY <2>1, <2>3 DEF ReadIsFresh
  <2>6. /\ RowsAreLocked' /\ EventsAreOfWrites' /\ WritesHaveEvents' /\ PendingTells'
        /\ OnePublisher' /\ FeedTells' /\ Ev!IndexFollowsStore'
    BY <2>1 DEF RowsAreLocked, EventsAreOfWrites, WritesHaveEvents, PendingTells,
        OnePublisher, FeedTells, Ev!IndexFollowsStore
  <2>. QED BY <2>4, <2>5, <2>6
<1>5. ASSUME NEW r \in Callers, Ev!Handle(r) \/ Ev!HandlerFails(r) PROVE EventsInv'
  <2>. DEFINE e == Head(feed[r])
              s == Tail(feed[r])
  <2>1. /\ feed[r] # <<>>
        /\ feed' = [feed EXCEPT ![r] = s] /\ got' = [got EXCEPT ![r] = "nothing"]
        /\ UNCHANGED <<store, work, pending>>
    BY <1>5 DEF Ev!Handle, Ev!HandlerFails
  <2>2. Tells(feed[r], store, IndexedItems \ spoiled) /\ feed[r] \in Seq(Ev!Event)
    BY <1>t DEF FeedTells, EventTypes
  <2>3. /\ e \in Ev!Event /\ s \in Seq(Ev!Event)
        /\ Ev!ItemsOf(feed[r]) = Ev!ItemsOf(s) \cup {e.item}
        /\ Tells(s, store, IndexedItems \ spoiled)
        /\ e.item \in (IndexedItems \ spoiled) \ Ev!ItemsOf(s) =>
             store[e.item] \in IF e.kind = "remove" THEN {"gone"} ELSE ItemContents
    BY <2>1, <2>2, ItemsOfRest
  <2>4. e.item \in IndexedItems /\ e.kind \in {"sync", "remove"}
    BY <2>3 DEF Ev!Event
  <2>5. CASE Ev!HandlerFails(r)
    <3>1. spoiled' = spoiled \cup {e.item} /\ index' = index
      BY <2>5 DEF Ev!HandlerFails
    <3>. HIDE DEF e, s
    <3>2. /\ spoiled' \subseteq IndexedItems
          /\ IndexedItems \ spoiled' \subseteq IndexedItems \ spoiled
          /\ index \in [IndexedItems -> ItemContents \cup {"absent"}]
      BY <1>t, <2>4, <3>1 DEF EventTypes
    <3>3. Tells(s, store, IndexedItems \ spoiled')
      BY <2>3, <3>2, TellsLess
    <3>. QED BY <2>1, <2>3, <3>1, <3>2, <3>3, HandlersGoOn
  <2>6. CASE Ev!Handle(r)
    <3>. DEFINE now == IF e.kind = "remove" THEN "absent" ELSE Ev!Indexed(index[e.item], got[r])
    <3>1. /\ e.kind = "sync" => got[r] # "nothing"
          /\ index' = [index EXCEPT ![e.item] = now]
          /\ spoiled' = spoiled
      BY <2>6 DEF Ev!Handle
    <3>2. now \in ItemContents \cup {"absent"}
      BY <1>t, <2>4 DEF EventTypes, Ev!Indexed
    <3>3. e.item \in (IndexedItems \ spoiled) \ Ev!ItemsOf(s) =>
            now = IF store[e.item] \in ItemContents THEN store[e.item] ELSE "absent"
      <4>1. ASSUME e.kind = "sync", e.item \notin spoiled PROVE got[r] = store[e.item]
        BY <3>1, <4>1 DEF ReadIsFresh
      <4>. QED BY <2>3, <2>4, <4>1, NamesAreApart DEF Ev!Indexed
    <3>. HIDE DEF now, e, s
    <3>4. /\ index'[e.item] = now /\ \A j \in IndexedItems \ {e.item} : index'[j] = index[j]
          /\ index' \in [IndexedItems -> ItemContents \cup {"absent"}]
          /\ spoiled \subseteq IndexedItems
      BY <1>t, <2>4, <3>1, <3>2 DEF EventTypes
    <3>5. \A j \in IndexedItems \ spoiled' :
             /\ j \notin Ev!ItemsOf(feed[r]) => index'[j] = index[j]
             /\ j \in Ev!ItemsOf(feed[r]) \ Ev!ItemsOf(s) => Followed(j)'
      BY <2>1, <2>3, <3>1, <3>3, <3>4 DEF Followed
    <3>. QED BY <2>1, <2>3, <3>1, <3>4, <3>5, HandlersGoOn
  <2>. QED BY <1>5, <2>5, <2>6
<1>6. ASSUME NEW r \in Callers, Ev!Die(r) PROVE EventsInv'
  <2>1. /\ spoiled' = spoiled \cup Ev!ItemsOf(feed[r])
        /\ feed' = [feed EXCEPT ![r] = <<>>] /\ got' = [got EXCEPT ![r] = "nothing"]
        /\ work' = [work EXCEPT ![r] = Ev!Untouched] /\ pending' = [pending EXCEPT ![r] = <<>>]
        /\ UNCHANGED <<store, index>>
    BY <1>6 DEF Ev!Die
  <2>2. /\ RowsAreLocked' /\ EventsAreOfWrites' /\ WritesHaveEvents' /\ PendingTells'
        /\ work' \in [Callers -> [IndexedItems -> ItemContents \cup {"same", "gone"}]]
        /\ pending' \in [Callers -> Seq(Ev!Event)]
    BY <2>1, TransactionEnds
  <2>3. Ev!ItemsOf(feed[r]) \subseteq IndexedItems
    BY <1>t, ItemsOfAll DEF EventTypes
  <2>4. /\ spoiled' \subseteq IndexedItems /\ spoiled \subseteq spoiled'
        /\ index' \in [IndexedItems -> ItemContents \cup {"absent"}]
    BY <1>t, <2>1, <2>3 DEF EventTypes
  <2>5. /\ OnePublisher' /\ FeedTells' /\ ReadIsFresh' /\ Ev!IndexFollowsStore' /\ EventTypes'
    <3>1. <<>> \in Seq(Ev!Event)
      OBVIOUS
    <3>. QED BY <2>1, <2>2, <2>4, <3>1, ItemsOfNone, HandlersGoOn
  <2>. QED BY <2>2, <2>5
<1>7. ASSUME NEW r \in Callers, Ev!Commit(r) PROVE EventsInv'
  BY <1>7, CommitKeeps
<1>8. CASE UNCHANGED eventVars
  <2>1. EventTypes'
    BY <1>8 DEF eventVars, EventTypes
  <2>2. RowsAreLocked' /\ EventsAreOfWrites' /\ WritesHaveEvents' /\ PendingTells'
    BY <1>8 DEF eventVars, RowsAreLocked, EventsAreOfWrites, WritesHaveEvents, PendingTells
  <2>3. OnePublisher' /\ FeedTells' /\ ReadIsFresh' /\ Ev!IndexFollowsStore'
    BY <1>8 DEF eventVars, OnePublisher, FeedTells, ReadIsFresh, Ev!IndexFollowsStore
  <2>. QED BY <2>1, <2>2, <2>3
<1>. QED BY <1>1, <1>2, <1>3, <1>4, <1>5, <1>6, <1>7, <1>8 DEF Ev!Next

\* An item nobody is publishing is in the index as in the table, unless an error, a
\* crash, a savepoint or an overlap spoiled it: whatever requests write, roll back and
\* publish, and in whatever order handlers run (transactional.py, search_indexer.py).
THEOREM IndexStaysTrue == SumSpec => []IndexFollowsStore
<1>. DEFINE Inv == part = "events" => EventsInv
<1>1. SumInit => Inv
  BY SumStart, EventsInit
<1>2. Inv /\ [SumNext]_sumVars => Inv'
  BY SumStep, EventsStep
<1>3. Inv => IndexFollowsStore
  BY DEF EventsInv, IndexFollowsStore
<1>. QED BY <1>1, <1>2, <1>3, PTL DEF SumSpec

-----------------------------------------------------------------------------
(* The lines of a bill of materials.                                        *)

Size == Cardinality(Parts)
Ranks(rank, E) == \A e \in E : rank[e[1]] < rank[e[2]]
Dag(E) == \E rank \in [Parts -> 1..Size] : Ranks(rank, E)

LEMMA SubDag ==
    ASSUME NEW E, Dag(E), NEW F, F \subseteq E
    PROVE  Dag(F)
BY DEF Dag, Ranks

\* A line from a part outside of a set closed under the lines to one inside it makes no
\* cycle: the parts inside are ranked after those outside.
LEMMA DagExtends ==
    ASSUME NEW E \in SUBSET Bom!Edges, Dag(E), NEW S \in SUBSET Parts, Bom!Closed(E, S),
           NEW p \in Parts \ S, NEW c \in S
    PROVE  Dag(E \cup {<<p, c>>})
<1>. PICK rank \in [Parts -> 1..Size] : Ranks(rank, E)
  BY DEF Dag
<1>. DEFINE T == Parts \ S
            L(x) == IF x \in T THEN {y \in T : rank[y] <= rank[x]}
                    ELSE T \cup {y \in S : rank[y] <= rank[x]}
            F == E \cup {<<p, c>>}
            f == [x \in Parts |-> Cardinality(L(x))]
<1>1. \A x \in Parts : /\ IsFiniteSet(L(x)) /\ L(x) \subseteq Parts /\ x \in L(x)
                       /\ Cardinality(L(x)) \in 1..Size
  <2>. SUFFICES ASSUME NEW x \in Parts
                PROVE  /\ IsFiniteSet(L(x)) /\ L(x) \subseteq Parts /\ x \in L(x)
                       /\ Cardinality(L(x)) \in 1..Size
    OBVIOUS
  <2>1. rank[x] \in Nat
    OBVIOUS
  <2>2. L(x) \subseteq Parts /\ x \in L(x)
    BY <2>1
  <2>. HIDE DEF L
  <2>3. IsFiniteSet(L(x)) /\ Cardinality(L(x)) <= Size
    BY <2>2, FinitelyMany, FS_Subset DEF Size
  <2>4. Cardinality(L(x)) \in Nat /\ Cardinality(L(x)) # 0 /\ Size \in Nat
    BY <2>2, <2>3, FinitelyMany, FS_CardinalityType, FS_EmptySet DEF Size
  <2>. QED BY <2>2, <2>3, <2>4
<1>2. ASSUME NEW a \in Parts, NEW b \in Parts, L(a) \subseteq L(b), b \notin L(a)
      PROVE  f[a] < f[b]
  <2>. HIDE DEF L
  <2>1. Cardinality(L(a)) <= Cardinality(L(b)) /\ Cardinality(L(a)) # Cardinality(L(b))
    BY <1>1, <1>2, FS_Subset
  <2>. QED BY <1>1, <2>1
<1>3. ASSUME NEW e \in F PROVE f[e[1]] < f[e[2]]
  <2>. DEFINE a == e[1]
              b == e[2]
  <2>1. a \in Parts /\ b \in Parts
    BY <1>3 DEF Bom!Edges
  <2>2. /\ a \in S => b \in S
        /\ rank[a] < rank[b] \/ (a \in T /\ b \in S)
    BY <1>3 DEF Bom!Closed, Ranks
  <2>3. rank[a] \in Nat /\ rank[b] \in Nat /\ \A y \in Parts : rank[y] \in Nat
    BY <2>1
  <2>. HIDE DEF a, b
  <2>4. L(a) \subseteq L(b) /\ b \notin L(a)
    <3>1. CASE a \in T /\ b \in T
      BY <2>1, <2>2, <2>3, <3>1
    <3>2. CASE a \in T /\ b \in S
      BY <2>1, <2>3, <3>2
    <3>3. CASE a \in S /\ b \in S
      BY <2>1, <2>2, <2>3, <3>3
    <3>. QED BY <2>1, <2>2, <3>1, <3>2, <3>3
  <2>5. f[a] < f[b]
    BY <1>2, <2>1, <2>4
  <2>. QED BY <2>5 DEF a, b
<1>4. f \in [Parts -> 1..Size]
  BY <1>1
<1>. HIDE DEF f
<1>. QED BY <1>3, <1>4 DEF Dag, Ranks

-----------------------------------------------------------------------------
Checked == Bom!Committed \ unchecked

BomTypes ==
    /\ lines \in [Bom!Edges -> Nat]
    /\ new \in [Callers -> SUBSET Bom!Edges]
    /\ missed \subseteq Callers
\* A request that has missed no line has checked its lines against all that are checked,
\* and none of them is there.
ChecksHold ==
    \A r \in Callers \ missed : Dag(Checked \cup new[r]) /\ \A e \in new[r] : lines[e] = 0

BomInv ==
    /\ BomTypes /\ ChecksHold /\ Dag(Checked)
    /\ \A e \in Checked : lines[e] = 1

LEMMA BomInit == Bom!Init => BomInv
<1>. SUFFICES ASSUME Bom!Init PROVE BomInv
  OBVIOUS
<1>. USE DEF Bom!Init
<1>1. BomTypes
  BY DEF BomTypes
<1>2. Checked = {} /\ \A r \in Callers : new[r] = {}
  BY DEF Checked, Bom!Committed
<1>3. Dag({})
  <2>1. Size \in Nat /\ (Parts # {} => Size # 0)
    BY FinitelyMany, FS_CardinalityType, FS_EmptySet DEF Size
  <2>2. [x \in Parts |-> 1] \in [Parts -> 1..Size]
    BY <2>1
  <2>. QED BY <2>2 DEF Dag, Ranks
<1>4. ChecksHold
  BY <1>2, <1>3 DEF ChecksHold
<1>. QED BY <1>1, <1>2, <1>3, <1>4 DEF BomInv

\* Fewer checked lines, and only requests with none left that have missed nothing.
LEMMA FewerChecked ==
    ASSUME BomInv, BomTypes', Checked' \subseteq Checked, \A e \in Checked' : lines'[e] = 1,
           \A r \in Callers \ missed' :
               \/ new'[r] = {}
               \/ /\ r \notin missed /\ new'[r] = new[r]
                  /\ \A e \in new[r] : lines'[e] = 0
    PROVE  BomInv'
<1>1. Dag(Checked)'
  BY SubDag DEF BomInv, Dag
<1>2. ASSUME NEW r \in Callers \ missed'
      PROVE  Dag(Checked' \cup new'[r]) /\ \A e \in new'[r] : lines'[e] = 0
  <2>1. CASE new'[r] = {}
    <3>1. Checked' \cup new'[r] = Checked'
      BY <2>1
    <3>. QED BY <1>1, <2>1, <3>1 DEF Dag
  <2>2. CASE r \notin missed /\ new'[r] = new[r] /\ \A e \in new[r] : lines'[e] = 0
    <3>1. Dag(Checked \cup new[r]) /\ Checked' \cup new'[r] \subseteq Checked \cup new[r]
      BY <1>2, <2>2 DEF BomInv, ChecksHold
    <3>. QED BY <2>2, <3>1, SubDag
  <2>. QED BY <1>2, <2>1, <2>2
<1>. QED BY <1>1, <1>2 DEF BomInv, ChecksHold, Dag

LEMMA BomStep ==
    ASSUME BomInv, Bom!Next \/ UNCHANGED bomVars
    PROVE  BomInv'
<1>. USE DEF BomInv
<1>t. BomTypes
  OBVIOUS
<1>k. \A e \in Bom!Edges : lines[e] \in Nat
  BY DEF BomTypes
<1>1. ASSUME NEW r \in Callers, NEW p \in Parts, NEW c \in Parts, Bom!AddChild(r, p, c)
      PROVE  BomInv'
  <2>. DEFINE E == Bom!Committed \cup new[r]
              edge == <<p, c>>
  <2>1. /\ p \notin Bom!Reached(E, c) /\ edge \notin E
        /\ new' = [new EXCEPT ![r] = @ \cup {edge}]
        /\ UNCHANGED <<lines, missed, unchecked>>
    BY <1>1 DEF Bom!AddChild, Bom!HasCycle
  <2>2. edge \in Bom!Edges
    BY DEF Bom!Edges
  <2>3. BomTypes'
    BY <1>t, <2>1, <2>2 DEF BomTypes
  <2>4. new'[r] = new[r] \cup {edge} /\ \A q \in Callers \ {r} : new'[q] = new[q]
    BY <1>t, <2>1 DEF BomTypes
  <2>5. Checked' = Checked
    BY <2>1 DEF Checked, Bom!Committed
  <2>6. ASSUME r \notin missed
        PROVE  Dag(Checked \cup new'[r]) /\ \A e \in new'[r] : lines[e] = 0
    <3>. DEFINE D == Checked \cup new[r]
    <3>1. Dag(D) /\ D \in SUBSET Bom!Edges /\ D \subseteq E
      BY <1>t, <2>6 DEF ChecksHold, BomTypes, Checked, Bom!Committed
    <3>2. PICK S \in SUBSET Parts : c \in S /\ Bom!Closed(E, S) /\ p \notin S
      BY <2>1 DEF Bom!Reached
    <3>3. Bom!Closed(D, S)
      BY <3>1, <3>2 DEF Bom!Closed
    <3>. HIDE DEF D
    <3>4. Dag(D \cup {edge})
      BY <3>1, <3>2, <3>3, DagExtends
    <3>5. D \cup {edge} = Checked \cup new'[r]
      BY <2>4 DEF D
    <3>6. lines[edge] = 0
      BY <1>k, <2>1, <2>2 DEF Bom!Committed
    <3>. QED BY <2>4, <2>6, <3>4, <3>5, <3>6 DEF ChecksHold
  <2>7. ChecksHold'
    <3>. SUFFICES ASSUME NEW q \in Callers \ missed
                  PROVE  Dag(Checked \cup new'[q]) /\ \A e \in new'[q] : lines[e] = 0
      BY <2>1, <2>5 DEF ChecksHold, Dag
    <3>. QED BY <2>4, <2>6 DEF ChecksHold
  <2>8. Dag(Checked)' /\ \A e \in Checked' : lines'[e] = 1
    BY <2>1, <2>5 DEF Dag
  <2>. QED BY <2>3, <2>7, <2>8
<1>2. ASSUME NEW r \in Callers, Bom!Commit(r) PROVE BomInv'
  <2>1. /\ lines' = [e \in Bom!Edges |-> IF e \in new[r] THEN lines[e] + 1 ELSE lines[e]]
        /\ unchecked' = IF r \in missed THEN unchecked \cup new[r] ELSE unchecked
        /\ new' = [new EXCEPT ![r] = {}]
        /\ missed' = {q \in Callers \ {r} : new[q] # {}}
    BY <1>2 DEF Bom!Commit
  <2>2. BomTypes'
    BY <1>k, <1>t, <2>1 DEF BomTypes
  <2>3. \A q \in Callers \ missed' : new'[q] = {}
    BY <1>t, <2>1 DEF BomTypes
  <2>4. CASE r \in missed
    <3>1. \A e \in Checked' : e \in Checked /\ lines'[e] = lines[e]
      BY <1>k, <2>1, <2>4 DEF Checked, Bom!Committed
    <3>2. Checked' \subseteq Checked /\ \A e \in Checked' : lines'[e] = 1
      BY <3>1
    <3>. QED BY <2>2, <2>3, <3>2, FewerChecked
  <2>5. CASE r \notin missed
    <3>1. \A e \in Checked' : e \in Checked \cup new[r] /\ lines'[e] = 1
      <4>. SUFFICES ASSUME NEW e \in Checked' PROVE e \in Checked \cup new[r] /\ lines'[e] = 1
        OBVIOUS
      <4>1. e \in Bom!Edges /\ e \notin unchecked /\ lines'[e] > 0
        BY <2>1, <2>5 DEF Checked, Bom!Committed
      <4>2. CASE e \in new[r]
        <5>1. lines[e] = 0
          BY <2>5, <4>2 DEF ChecksHold
        <5>. QED BY <2>1, <4>1, <4>2, <5>1
      <4>3. CASE e \notin new[r]
        <5>1. lines'[e] = lines[e]
          BY <2>1, <4>1, <4>3
        <5>2. e \in Checked
          BY <4>1, <5>1 DEF Checked, Bom!Committed
        <5>. QED BY <5>1, <5>2
      <4>. QED BY <4>2, <4>3
    <3>2. Dag(Checked \cup new[r]) /\ Checked' \subseteq Checked \cup new[r]
      BY <2>5, <3>1 DEF ChecksHold
    <3>3. Dag(Checked')
      BY <3>2, SubDag
    <3>4. ChecksHold'
      <4>. SUFFICES ASSUME NEW q \in Callers \ missed'
                    PROVE  Dag(Checked' \cup new'[q]) /\ \A e \in new'[q] : lines'[e] = 0
        BY DEF ChecksHold, Dag
      <4>1. Checked' \cup new'[q] = Checked'
        BY <2>3
      <4>. QED BY <2>3, <3>3, <4>1
    <3>. QED BY <2>2, <3>1, <3>3, <3>4 DEF Dag
  <2>. QED BY <2>4, <2>5
<1>3. ASSUME NEW r \in Callers, Bom!Rollback(r) PROVE BomInv'
  <2>1. /\ new' = [new EXCEPT ![r] = {}] /\ missed' = missed \ {r}
        /\ UNCHANGED <<lines, unchecked>>
    BY <1>3 DEF Bom!Rollback
  <2>2. BomTypes' /\ new'[r] = {} /\ \A q \in Callers \ {r} : new'[q] = new[q]
    BY <1>t, <2>1 DEF BomTypes
  <2>3. Checked' = Checked
    BY <2>1 DEF Checked, Bom!Committed
  <2>4. \A q \in Callers \ missed' :
            \/ new'[q] = {}
            \/ /\ q \notin missed /\ new'[q] = new[q]
               /\ \A e \in new[q] : lines'[e] = 0
    BY <2>1, <2>2 DEF ChecksHold
  <2>. QED BY <2>1, <2>2, <2>3, <2>4, FewerChecked
<1>4. ASSUME NEW p \in Parts, NEW c \in Parts, Bom!AmlAdd(p, c) PROVE BomInv'
  <2>1. /\ lines' = [lines EXCEPT ![<<p, c>>] = @ + 1]
        /\ unchecked' = unchecked \cup {<<p, c>>}
        /\ missed' = {q \in Callers : new[q] # {}}
        /\ UNCHANGED new
    BY <1>4 DEF Bom!AmlAdd
  <2>2. BomTypes'
    <3>1. <<p, c>> \in Bom!Edges
      BY DEF Bom!Edges
    <3>2. lines[<<p, c>>] + 1 \in Nat
      BY <1>k, <3>1
    <3>. QED BY <1>t, <2>1, <3>2 DEF BomTypes
  <2>3. \A e \in Checked' : e \in Checked /\ lines'[e] = lines[e]
    BY <1>t, <2>1 DEF Checked, Bom!Committed, BomTypes
  <2>4. \A q \in Callers \ missed' : new'[q] = {}
    BY <2>1
  <2>5. Checked' \subseteq Checked /\ \A e \in Checked' : lines'[e] = 1
    BY <2>3
  <2>. QED BY <2>2, <2>4, <2>5, FewerChecked
<1>5. ASSUME NEW p \in Parts, NEW c \in Parts, Bom!RemoveChild(p, c) PROVE BomInv'
  <2>. DEFINE edge == <<p, c>>
  <2>1. /\ lines[edge] > 0
        /\ lines' = [lines EXCEPT ![edge] = @ - 1]
        /\ unchecked' = IF lines[edge] = 1 THEN unchecked \ {edge} ELSE unchecked
        /\ UNCHANGED <<new, missed>>
    BY <1>5 DEF Bom!RemoveChild
  <2>2. edge \in Bom!Edges
    BY DEF Bom!Edges
  <2>. HIDE DEF edge
  <2>3. BomTypes'
    <3>1. lines[edge] - 1 \in Nat
      BY <1>k, <2>1, <2>2
    <3>. QED BY <1>t, <2>1, <3>1 DEF BomTypes
  <2>4. lines'[edge] = lines[edge] - 1 /\ \A e \in Bom!Edges \ {edge} : lines'[e] = lines[e]
    BY <1>t, <2>1, <2>2 DEF BomTypes
  <2>5. ASSUME NEW e \in Checked' PROVE e \in Checked /\ lines'[e] = 1
    <3>1. e \in Bom!Edges /\ lines'[e] > 0 /\ e \notin unchecked'
      BY <2>5 DEF Checked, Bom!Committed
    <3>2. CASE e = edge
      <4>1. lines[edge] # 1 /\ edge \notin unchecked
        BY <1>k, <2>1, <2>2, <2>4, <3>1, <3>2
      <4>2. edge \in Checked
        BY <2>1, <2>2, <4>1 DEF Checked, Bom!Committed
      <4>. QED BY <4>1, <4>2
    <3>3. CASE e # edge
      <4>1. e \in Checked
        BY <2>1, <2>4, <3>1, <3>3 DEF Checked, Bom!Committed
      <4>. QED BY <2>4, <3>1, <3>3, <4>1
    <3>. QED BY <3>2, <3>3
  <2>6. \A q \in Callers \ missed : \A e \in new[q] : lines'[e] = 0
    <3>. SUFFICES ASSUME NEW q \in Callers \ missed, NEW e \in new[q] PROVE lines'[e] = 0
      OBVIOUS
    <3>1. lines[e] = 0 /\ e \in Bom!Edges
      BY <1>t DEF ChecksHold, BomTypes
    <3>. QED BY <2>1, <2>4, <3>1
  <2>7. Checked' \subseteq Checked /\ \A e \in Checked' : lines'[e] = 1
    BY <2>5
  <2>. QED BY <2>1, <2>3, <2>6, <2>7, FewerChecked
<1>6. CASE UNCHANGED bomVars
  <2>1. BomTypes' /\ Checked' = Checked /\ UNCHANGED <<lines, new, missed>>
    BY <1>6, <1>t DEF bomVars, BomTypes, Checked, Bom!Committed
  <2>. QED BY <2>1, FewerChecked DEF ChecksHold
<1>. QED BY <1>1, <1>2, <1>3, <1>4, <1>5, <1>6 DEF Bom!Next

\* The lines that add_child has checked against all others have no cycle and no double:
\* the search that refuses a parent below its child is enough, whatever is added behind
\* its back, removed or rolled back, until two requests overlap (bom_service.py).
THEOREM CheckedStaysDag == SumSpec => []CheckedIsDag
<1>. DEFINE Inv == part = "bom" => BomInv
<1>1. SumInit => Inv
  BY SumStart, BomInit
<1>2. Inv /\ [SumNext]_sumVars => Inv'
  BY SumStep, BomStep
<1>3. Inv => CheckedIsDag
  <2>1. Bom!Cardinality(Parts) = Cardinality(Parts)
    BY DEF Cardinality, Bom!Cardinality
  <2>. QED BY <2>1 DEF BomInv, Dag, Ranks, Size, Checked, CheckedIsDag, Bom!CheckedIsDag
<1>. QED BY <1>1, <1>2, <1>3, PTL DEF SumSpec
=============================================================================
