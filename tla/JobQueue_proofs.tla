--------------------------- MODULE JobQueue_proofs ---------------------------
(***************************************************************************)
(* Proofs about JobQueue, for every value of its constants.                *)
(***************************************************************************)
EXTENDS JobQueue, FiniteSetTheorems, TLAPS

-----------------------------------------------------------------------------
(* Type correctness.  A worker's result is computed from its copy, so the   *)
(* copy and the claim it belongs to have to be there when it is written.    *)

\* A worker that holds a claim holds a job of the table; from the refresh to
\* the result it has a copy of it.
ClaimsOK ==
    \A w \in Workers :
        /\ wpc[w] \in {"claimed", "running", "finished"}
                => held[w] \in Jobs /\ job[held[w]] \in Job
        /\ wpc[w] \in {"running", "finished"} => copy[w] \in Job
        /\ \A e \in found[w] : job[e[1]] \in Job

TypeInv == TypeOK /\ ClaimsOK

LEMMA JobFacts ==
    /\ NoJob \notin Job
    /\ \A x \in Job \cup {NoJob} : x # NoJob => x \in Job
    /\ \A x \in Job \cup {NoJob} : x.status \in Statuses => x \in Job
  BY DEF Job, NoJob, Statuses, Active

\* A job submitted, requeued or finished is a job, and keeps its attempts.
LEMMA HelpersGiveJobs ==
    /\ \A x \in Job, left \in BOOLEAN : /\ Requeued(x, left) \in Job
                                        /\ Requeued(x, left).attempts = x.attempts
    /\ \A x \in Job, m \in Job, o \in Outcomes : /\ Finished(x, m, o) \in Job
                                                 /\ Finished(x, m, o).attempts = x.attempts
<1>1. ASSUME NEW x \in Job, NEW left \in BOOLEAN
      PROVE  Requeued(x, left) \in Job /\ Requeued(x, left).attempts = x.attempts
  BY DEF Requeued, Job, Statuses, Active
<1>2. ASSUME NEW x \in Job, NEW m \in Job, NEW o \in Outcomes
      PROVE  Finished(x, m, o) \in Job /\ Finished(x, m, o).attempts = x.attempts
  <2>. DEFINE done == Written(x.status, m.status, "completed")
              dead == Written(x.status, m.status, "failed")
              again == Written(x.status, m.status, "pending")
              start == Written(x.started, m.started, "none")
  <2>1. /\ done \in Statuses /\ dead \in Statuses /\ again \in Statuses
        /\ start \in {"none", "fresh", "stale"}
        /\ m.index \in BOOLEAN /\ x.index \in BOOLEAN
    BY DEF Written, Job, Statuses, Active
  <2>2. \/ Finished(x, m, o) = [x EXCEPT !.status = done, !.index = m.index]
        \/ Finished(x, m, o) = [x EXCEPT !.status = done, !.index = x.index]
        \/ Finished(x, m, o) = [x EXCEPT !.status = dead, !.index = m.index]
        \/ Finished(x, m, o) = [x EXCEPT !.status = again, !.index = m.index,
                                         !.started = start, !.due = FALSE]
    BY DEF Finished
  <2>3. ASSUME NEW s \in Statuses, NEW i \in BOOLEAN
        PROVE  /\ [x EXCEPT !.status = s, !.index = i] \in Job
               /\ [x EXCEPT !.status = s, !.index = i].attempts = x.attempts
    BY DEF Job
  <2>4. ASSUME NEW s \in Statuses, NEW i \in BOOLEAN, NEW t \in {"none", "fresh", "stale"}
        PROVE  /\ [x EXCEPT !.status = s, !.index = i, !.started = t, !.due = FALSE] \in Job
               /\ [x EXCEPT !.status = s, !.index = i, !.started = t, !.due = FALSE].attempts = x.attempts
    BY DEF Job
  <2>. HIDE DEF done, dead, again, start
  <2>5. CASE Finished(x, m, o) = [x EXCEPT !.status = done, !.index = m.index]
    BY <2>1, <2>3, <2>5
  <2>6. CASE Finished(x, m, o) = [x EXCEPT !.status = done, !.index = x.index]
    BY <2>1, <2>3, <2>6
  <2>7. CASE Finished(x, m, o) = [x EXCEPT !.status = dead, !.index = m.index]
    BY <2>1, <2>3, <2>7
  <2>8. CASE Finished(x, m, o) = [x EXCEPT !.status = again, !.index = m.index,
                                         !.started = start, !.due = FALSE]
    <3>. DEFINE y == [x EXCEPT !.status = again, !.index = m.index, !.started = start, !.due = FALSE]
    <3>1. y \in Job /\ y.attempts = x.attempts
      BY <2>1, <2>4
    <3>2. Finished(x, m, o) = y
      BY <2>8
    <3>. HIDE DEF y
    <3>. QED BY <3>1, <3>2
  <2>. QED BY <2>2, <2>5, <2>6, <2>7, <2>8
<1>. QED BY <1>1, <1>2

LEMMA TypeInit == Init => TypeInv
  BY DEF Init, TypeInv, TypeOK, ClaimsOK, WPCs, Outcomes

\* Every step keeps the types and the claims.
LEMMA TypeStep == TypeInv /\ [Next]_vars => TypeInv'
<1>. SUFFICES ASSUME TypeInv, [Next]_vars PROVE TypeInv'
  OBVIOUS
<1>. USE JobFacts DEF TypeInv
\* It is enough to type the table and see that no job leaves it.
<1>0. ASSUME job' \in [Jobs -> Job \cup {NoJob}], \A j \in Jobs : job[j] \in Job => job'[j] \in Job
      PROVE  /\ UNCHANGED workers => ClaimsOK'
             /\ \A w \in Workers :
                    /\ found' = [found EXCEPT ![w] = {}] /\ UNCHANGED <<held, copy>>
                       /\ wpc' = [wpc EXCEPT ![w] = "poll"] => ClaimsOK'
                    /\ found' = found /\ held' = [held EXCEPT ![w] = 0]
                       /\ copy' = [copy EXCEPT ![w] = NoJob]
                       /\ wpc' = [wpc EXCEPT ![w] = "idle"] => ClaimsOK'
  BY <1>0 DEF TypeOK, ClaimsOK, workers
<1>1. ASSUME NEW c \in Clients, SubmitDeduped(c) PROVE TypeInv'
  <2>1. PICK j \in SameKeyActive(request[c].key) :
            job' = [job EXCEPT ![j].index = @ \/ request[c].index]
    BY <1>1 DEF SubmitDeduped
  <2>2. j \in Jobs /\ job[j] \in Job
    BY DEF SameKeyActive, TypeOK, Statuses
  <2>3. ASSUME NEW x \in Job, NEW b \in BOOLEAN PROVE [x EXCEPT !.index = @ \/ b] \in Job
    BY DEF Job
  <2>4. request[c].index \in BOOLEAN
    BY IndexingIsBoolean DEF TypeOK, Submissions
  <2>5. job'[j] \in Job /\ job' \in [Jobs -> Job \cup {NoJob}]
    BY <2>1, <2>2, <2>3, <2>4 DEF TypeOK
  <2>6. \A i \in Jobs : job[i] \in Job => job'[i] \in Job
    BY <2>1, <2>2, <2>5 DEF TypeOK
  <2>7. request' \in [Clients -> Submissions]
    BY <1>1 DEF SubmitDeduped, TypeOK
  <2>. QED BY <1>0, <1>1, <2>1, <2>2, <2>5, <2>6, <2>7 DEF SubmitDeduped, TypeOK, workers
<1>2. ASSUME NEW c \in Clients, SubmitNew(c) PROVE TypeInv'
  BY <1>0, <1>2 DEF SubmitNew, TypeOK, workers
<1>3. ASSUME NEW c \in Clients, SubmitInsert(c) PROVE TypeInv'
  <2>1. request' \in [Clients -> Submissions]
    BY <1>3 DEF SubmitInsert, TypeOK
  <2>2. /\ job' \in [Jobs -> Job \cup {NoJob}]
        /\ \A j \in Jobs : job[j] \in Job => job'[j] \in Job
    <3>1. ASSUME NEW q \in Submissions
          PROVE  [status |-> "pending", attempts |-> 0, due |-> TRUE, started |-> "none",
                  key |-> q.key, prio |-> q.prio, index |-> q.index] \in Job
      BY IndexingIsBoolean DEF Job, Submissions, Statuses, Active
    <3>2. request[c] \in Submissions
      BY DEF TypeOK
    <3>. QED BY <1>3, <3>1, <3>2 DEF SubmitInsert, Free, TypeOK
  <2>. QED BY <1>0, <1>3, <2>1, <2>2 DEF SubmitInsert, TypeOK, workers
<1>4. ASSUME NEW w \in Workers, RequeueRead(w) PROVE TypeInv'
  <2>1. \A e \in found'[w] : e \in Jobs \X BOOLEAN /\ job[e[1]] \in Job
    <3>1. SUFFICES ASSUME NEW e \in found'[w] PROVE e \in Jobs \X BOOLEAN /\ job[e[1]] \in Job
      OBVIOUS
    <3>2. PICK j \in Processing, left \in BOOLEAN : e = <<j, left>>
      <4>1. PICK j \in Processing : e = <<j, job[j].attempts < MaxAttempts>>
        BY <1>4 DEF RequeueRead, TypeOK
      <4>2. (job[j].attempts < MaxAttempts) \in BOOLEAN
        OBVIOUS
      <4>. QED BY <4>1, <4>2, Zenon
    <3>3. j \in Jobs /\ job[j] \in Job
      BY DEF Processing, TypeOK, Statuses, Active
    <3>. QED BY <3>2, <3>3
  <2>. QED BY <1>4, <2>1 DEF RequeueRead, TypeOK, ClaimsOK, WPCs, clients
<1>5. ASSUME NEW w \in Workers, RequeueWrite(w) PROVE TypeInv'
  <2>1. \A j \in Jobs : job[j] \in Job => job'[j] \in Job
    <3>1. SUFFICES ASSUME NEW j \in Jobs, job[j] \in Job PROVE job'[j] \in Job
      OBVIOUS
    <3>2. \A left \in BOOLEAN : Requeued(job[j], left) \in Job
      BY <3>1, HelpersGiveJobs
    <3>. DEFINE left == <<j, TRUE>> \in found[w]
    <3>3. job'[j] \in {job[j], Requeued(job[j], left)}
      BY <1>5 DEF RequeueWrite
    <3>4. left \in BOOLEAN
      OBVIOUS
    <3>. QED BY <3>1, <3>2, <3>3, <3>4
  <2>2. \A j \in Jobs : job[j] \notin Job => job'[j] = job[j]
    BY <1>5 DEF RequeueWrite, TypeOK, ClaimsOK
  <2>3. job' \in [Jobs -> Job \cup {NoJob}]
    BY <1>5, <2>1, <2>2 DEF RequeueWrite, TypeOK
  <2>. QED BY <1>0, <1>5, <2>1, <2>3 DEF RequeueWrite, TypeOK, WPCs, clients
<1>6. ASSUME NEW w \in Workers, PollLimit(w) \/ NothingDue(w) PROVE TypeInv'
  BY <1>6 DEF PollLimit, NothingDue, TypeOK, ClaimsOK, WPCs, clients
<1>7. ASSUME NEW w \in Workers, Claim(w) PROVE TypeInv'
  <2>1. PICK j \in Due : /\ job' = [job EXCEPT ![j].status = "processing", ![j].started = "fresh",
                                              ![j].attempts = @ + 1]
                         /\ held' = [held EXCEPT ![w] = j]
    BY <1>7 DEF Claim
  <2>2. j \in Jobs /\ job[j] \in Job
    BY DEF Due, TypeOK, Statuses, Active
  <2>3. job'[j] \in Job /\ job' \in [Jobs -> Job \cup {NoJob}]
    <3>1. ASSUME NEW x \in Job, NEW n \in Nat
          PROVE  [x EXCEPT !.status = "processing", !.started = "fresh", !.attempts = n] \in Job
      BY DEF Job, Statuses, Active
    <3>2. job[j].attempts + 1 \in Nat
      BY <2>2 DEF Job
    <3>3. [job[j] EXCEPT !.status = "processing", !.started = "fresh",
                         !.attempts = job[j].attempts + 1] \in Job
      BY <2>2, <3>1, <3>2
    <3>. QED BY <2>1, <2>2, <3>3 DEF TypeOK
  <2>4. \A i \in Jobs : job[i] \in Job => job'[i] \in Job
    BY <2>1, <2>2, <2>3 DEF TypeOK
  <2>5. /\ wpc' = [wpc EXCEPT ![w] = "claimed"]
        /\ UNCHANGED <<clients, found, copy, result, runs, aged, crashes>>
    BY <1>7 DEF Claim
  <2>6. TypeOK'
    BY <2>1, <2>2, <2>3, <2>5 DEF TypeOK, WPCs, clients
  <2>. QED BY <2>1, <2>2, <2>3, <2>4, <2>5, <2>6 DEF TypeOK, ClaimsOK
<1>8. ASSUME NEW w \in Workers, Refresh(w) PROVE TypeInv'
  BY <1>8 DEF Refresh, TypeOK, ClaimsOK, WPCs, clients
<1>9. ASSUME NEW w \in Workers, Run(w) PROVE TypeInv'
  BY <1>9 DEF Run, TypeOK, ClaimsOK, WPCs, clients
<1>10. ASSUME NEW w \in Workers, NoHandler(w) PROVE TypeInv'
  BY <1>10 DEF NoHandler, TypeOK, ClaimsOK, WPCs, Outcomes, clients
<1>11. ASSUME NEW w \in Workers, Finish(w) PROVE TypeInv'
  <2>1. held[w] \in Jobs /\ job[held[w]] \in Job /\ copy[w] \in Job /\ result[w] \in Outcomes
    BY <1>11 DEF Finish, TypeOK, ClaimsOK
  <2>2. /\ job' \in [Jobs -> Job \cup {NoJob}]
        /\ \A j \in Jobs : job[j] \in Job => job'[j] \in Job
    BY <1>11, <2>1, HelpersGiveJobs DEF Finish, TypeOK
  <2>. QED BY <1>0, <1>11, <2>2 DEF Finish, TypeOK, WPCs, Outcomes, clients
<1>12. ASSUME NEW w \in Workers, Crash(w) PROVE TypeInv'
  BY <1>12 DEF Crash, TypeOK, ClaimsOK, WPCs, Outcomes, clients
<1>13. ASSUME NEW j \in Jobs, Time(j) PROVE TypeInv'
  <2>1. job[j] \in Job
    BY <1>13 DEF Time, RunAges, BackoffElapses, TypeOK, Statuses, Active
  <2>2. ASSUME NEW x \in Job
        PROVE  [x EXCEPT !.started = "stale"] \in Job /\ [x EXCEPT !.due = TRUE] \in Job
    BY DEF Job
  <2>3. /\ job' \in [Jobs -> Job \cup {NoJob}]
        /\ \A i \in Jobs : job[i] \in Job => job'[i] \in Job
    BY <1>13, <2>1, <2>2 DEF Time, RunAges, BackoffElapses, TypeOK
  <2>. QED BY <1>0, <1>13, <2>3 DEF Time, RunAges, BackoffElapses, TypeOK, clients, workers
<1>14. CASE UNCHANGED vars
  BY <1>14 DEF vars, TypeOK, ClaimsOK, clients, workers
<1>. QED
  BY <1>1, <1>2, <1>3, <1>4, <1>5, <1>6, <1>7, <1>8, <1>9, <1>10, <1>11, <1>12, <1>13, <1>14
  DEF Next, Submit, Work

\* The table and the workers' copies keep their types.
THEOREM TypeCorrect == Spec => []TypeOK
<1>1. TypeInv => TypeOK
  BY DEF TypeInv
<1>. QED BY <1>1, TypeInit, TypeStep, PTL DEF Spec

-----------------------------------------------------------------------------
(* Runs are paid for by attempts.  A claim spends an attempt before the run,  *)
(* so the attempts cover the runs made and the runs claimed but not yet made. *)

Unrun(j) == {w \in Workers : held[w] = j /\ wpc[w] \in {"claimed", "running"}}

PaidInv ==
    /\ TypeInv
    /\ \A j \in Jobs :
        /\ job[j] = NoJob => runs[j] = 0
        /\ job[j] # NoJob => runs[j] + Cardinality(Unrun(j)) <= job[j].attempts

\* No job leaves the table or gives an attempt back, and only a claim spends one.
LEMMA AttemptsKept ==
    ASSUME TypeInv, [Next]_vars, NEW j \in Jobs, job[j] # NoJob, \A w \in Workers : ~Claim(w)
    PROVE  job'[j] # NoJob /\ job'[j].attempts = job[j].attempts
<1>. USE JobFacts DEF TypeInv
<1>0. job[j] \in Job
  BY DEF TypeOK
<1>1. ASSUME NEW c \in Clients, Submit(c) PROVE job'[j] # NoJob /\ job'[j].attempts = job[j].attempts
  <2>3. CASE SubmitDeduped(c)
    <3>1. PICK i \in SameKeyActive(request[c].key) :
              job' = [job EXCEPT ![i].index = @ \/ request[c].index]
      BY <2>3 DEF SubmitDeduped
    <3>2. request[c].index \in BOOLEAN
      BY IndexingIsBoolean DEF TypeOK, Submissions
    <3>3. ASSUME NEW x \in Job, NEW b \in BOOLEAN
          PROVE  /\ [x EXCEPT !.index = @ \/ b] \in Job
                 /\ [x EXCEPT !.index = @ \/ b].attempts = x.attempts
      BY DEF Job
    <3>4. job'[j] \in {job[j], [job[j] EXCEPT !.index = @ \/ request[c].index]}
      BY <3>1 DEF TypeOK
    <3>. QED BY <1>0, <3>2, <3>3, <3>4
  <2>4. CASE SubmitNew(c) \/ SubmitInsert(c)
    BY <1>0, <2>4 DEF SubmitNew, SubmitInsert, Free, TypeOK
  <2>. QED BY <1>1, <2>3, <2>4 DEF Submit
<1>2. ASSUME NEW w \in Workers, RequeueWrite(w)
      PROVE  job'[j] # NoJob /\ job'[j].attempts = job[j].attempts
  <2>. DEFINE left == <<j, TRUE>> \in found[w]
  <2>1. job'[j] \in {job[j], Requeued(job[j], left)}
    BY <1>2 DEF RequeueWrite
  <2>2. left \in BOOLEAN
    OBVIOUS
  <2>3. /\ Requeued(job[j], left) \in Job
        /\ Requeued(job[j], left).attempts = job[j].attempts
    BY <1>0, <2>2, HelpersGiveJobs
  <2>. QED BY <1>0, <2>1, <2>3
<1>3. ASSUME NEW w \in Workers, Finish(w)
      PROVE  job'[j] # NoJob /\ job'[j].attempts = job[j].attempts
  <2>1. copy[w] \in Job /\ result[w] \in Outcomes
    BY <1>3 DEF Finish, TypeOK, ClaimsOK
  <2>2. job'[j] \in {job[j], Finished(job[j], copy[w], result[w])}
    BY <1>3 DEF Finish, TypeOK
  <2>3. /\ Finished(job[j], copy[w], result[w]) \in Job
        /\ Finished(job[j], copy[w], result[w]).attempts = job[j].attempts
    BY <1>0, <2>1, HelpersGiveJobs
  <2>. QED BY <1>0, <2>2, <2>3
<1>4. ASSUME NEW w \in Workers, RequeueRead(w) \/ PollLimit(w) \/ NothingDue(w) \/ Refresh(w)
                                \/ Run(w) \/ NoHandler(w) \/ Crash(w)
      PROVE  job' = job
  BY <1>4 DEF RequeueRead, PollLimit, NothingDue, Refresh, Run, NoHandler, Crash
<1>5. ASSUME NEW i \in Jobs, Time(i)
      PROVE  job'[j] # NoJob /\ job'[j].attempts = job[j].attempts
  <2>1. ASSUME NEW x \in Job
        PROVE  /\ [x EXCEPT !.started = "stale"] \in Job /\ [x EXCEPT !.due = TRUE] \in Job
               /\ [x EXCEPT !.started = "stale"].attempts = x.attempts
               /\ [x EXCEPT !.due = TRUE].attempts = x.attempts
    BY DEF Job
  <2>2. job'[j] \in {job[j], [job[j] EXCEPT !.started = "stale"], [job[j] EXCEPT !.due = TRUE]}
    BY <1>5 DEF Time, RunAges, BackoffElapses, TypeOK
  <2>. QED BY <1>0, <2>1, <2>2
<1>6. CASE UNCHANGED vars
  BY <1>6 DEF vars
<1>. QED BY <1>1, <1>2, <1>3, <1>4, <1>5, <1>6 DEF Next, Work

LEMMA ClaimKeepsJobs ==
    ASSUME TypeInv, NEW w \in Workers, Claim(w), NEW j \in Jobs, job'[j] = NoJob
    PROVE  job[j] = NoJob
<1>1. PICK i \in Due : job' = [job EXCEPT ![i].status = "processing", ![i].started = "fresh",
                                         ![i].attempts = @ + 1]
  BY DEF Claim
<1>2. i \in Jobs /\ job[i] \in Job
  BY JobFacts DEF Due, TypeInv, TypeOK, Statuses, Active
<1>3. job'[i].status = "processing"
  BY <1>1, <1>2 DEF TypeInv, TypeOK, Job
<1>4. i # j
  BY <1>3 DEF NoJob
<1>. QED BY <1>1, <1>4 DEF TypeInv, TypeOK

\* A worker that owes a run has claimed the job, or does so in this step.
LEMMA UnrunGrowsByClaim ==
    ASSUME TypeInv, [Next]_vars, NEW j \in Jobs, NEW v \in Unrun(j)', v \notin Unrun(j)
    PROVE  Claim(v) /\ held' = [held EXCEPT ![v] = j]
<1>. USE DEF TypeInv, TypeOK, Unrun
<1>0. v \in Workers
  OBVIOUS
<1>1. ASSUME NEW w \in Workers, Work(w), w # v PROVE FALSE
  BY <1>1 DEF Work, RequeueRead, RequeueWrite, PollLimit, Claim, NothingDue, Refresh, Run,
     NoHandler, Finish
<1>2. CASE Claim(v)
  BY <1>2 DEF Claim
<1>3. CASE Work(v) /\ ~Claim(v)
  BY <1>3 DEF Work, RequeueRead, RequeueWrite, PollLimit, NothingDue, Refresh, Run, NoHandler, Finish
<1>4. ASSUME NEW w \in Workers, Crash(w) PROVE FALSE
  BY <1>4 DEF Crash
<1>5. CASE (\E c \in Clients : Submit(c)) \/ (\E i \in Jobs : Time(i)) \/ UNCHANGED vars
  BY <1>5 DEF Submit, SubmitDeduped, SubmitNew, SubmitInsert, Time, RunAges, BackoffElapses, vars, workers
<1>. QED BY <1>0, <1>1, <1>2, <1>3, <1>4, <1>5 DEF Next

\* Runs are counted by Run alone, which makes the run the worker owed.
LEMMA RunsCounted ==
    ASSUME TypeInv, [Next]_vars, NEW j \in Jobs
    PROVE  \/ runs'[j] = runs[j]
           \/ \E w \in Unrun(j) : Unrun(j)' = Unrun(j) \ {w} /\ runs'[j] = runs[j] + 1
<1>. USE DEF TypeInv, TypeOK
<1>1. ASSUME NEW w \in Workers, Run(w), runs'[j] # runs[j]
      PROVE  w \in Unrun(j) /\ Unrun(j)' = Unrun(j) \ {w} /\ runs'[j] = runs[j] + 1
  <2>1. held[w] = j /\ runs'[j] = runs[j] + 1
    BY <1>1 DEF Run, ClaimsOK
  <2>. QED BY <1>1, <2>1 DEF Run, Unrun
<1>2. CASE \A w \in Workers : ~Run(w)
  BY <1>2 DEF Next, Submit, Work, Time, SubmitDeduped, SubmitNew, SubmitInsert, RequeueRead,
     RequeueWrite, PollLimit, Claim, NothingDue, Refresh, NoHandler, Finish, Crash, RunAges,
     BackoffElapses, vars
<1>. QED BY <1>1, <1>2

\* A new job enters the table with no attempt spent.
LEMMA NewJobUnspent ==
    ASSUME TypeInv, [Next]_vars, NEW j \in Jobs, job[j] = NoJob, job'[j] # NoJob
    PROVE  (\A w \in Workers : ~Claim(w)) /\ job'[j].attempts = 0 /\ runs'[j] = runs[j]
<1>. USE JobFacts DEF TypeInv, TypeOK
<1>0. job[j].status \notin Statuses
  BY DEF NoJob, Statuses, Active
<1>1. ASSUME NEW c \in Clients, Submit(c)
      PROVE  (\A w \in Workers : ~Claim(w)) /\ job'[j].attempts = 0 /\ runs'[j] = runs[j]
  <2>1. ~SubmitDeduped(c) /\ ~SubmitNew(c)
    BY <1>0 DEF SubmitDeduped, SubmitNew, SameKeyActive, Statuses
  <2>2. SubmitInsert(c)
    BY <1>1, <2>1 DEF Submit
  <2>3. UNCHANGED <<wpc, runs>>
    BY <2>2 DEF SubmitInsert, workers
  <2>4. \A w \in Workers : ~Claim(w)
    BY <2>3 DEF Claim
  <2>5. job'[j].attempts = 0
    BY <2>2 DEF SubmitInsert
  <2>. QED BY <2>3, <2>4, <2>5
<1>2. ASSUME NEW w \in Workers, Work(w) PROVE FALSE
  <2>1. CASE RequeueWrite(w)
    BY <2>1 DEF RequeueWrite, ClaimsOK
  <2>2. CASE Claim(w)
    BY <1>0, <2>2 DEF Claim, Due, Statuses, Active
  <2>3. CASE Finish(w)
    BY <2>3 DEF Finish, ClaimsOK
  <2>. QED BY <1>2, <2>1, <2>2, <2>3 DEF Work, RequeueRead, PollLimit, NothingDue, Refresh, Run, NoHandler
<1>3. ASSUME NEW w \in Workers, Crash(w) PROVE FALSE
  BY <1>3 DEF Crash
<1>4. ASSUME NEW i \in Jobs, Time(i) PROVE FALSE
  BY <1>0, <1>4 DEF Time, RunAges, BackoffElapses, Statuses, Active
<1>5. CASE UNCHANGED vars
  BY <1>5 DEF vars
<1>. QED BY <1>1, <1>2, <1>3, <1>4, <1>5 DEF Next

LEMMA PaidStep ==
    ASSUME IsFiniteSet(Workers), PaidInv, [Next]_vars
    PROVE  PaidInv'
<1>. USE JobFacts DEF PaidInv
<1>1. TypeInv'
  BY TypeStep
<1>2. \A j \in Jobs : /\ IsFiniteSet(Unrun(j)) /\ Cardinality(Unrun(j)) \in Nat
                      /\ IsFiniteSet(Unrun(j)') /\ Cardinality(Unrun(j)') \in Nat
                      /\ runs[j] \in Nat /\ runs'[j] \in Nat
  <2>1. \A j \in Jobs : Unrun(j) \in SUBSET Workers /\ Unrun(j)' \in SUBSET Workers
    BY DEF Unrun
  <2>. QED BY <1>1, <2>1, FS_Subset, FS_CardinalityType DEF TypeInv, TypeOK
<1>3. ASSUME NEW j \in Jobs, job'[j] = NoJob PROVE runs'[j] = 0
  <2>1. job[j] = NoJob
    <3>1. CASE \A w \in Workers : ~Claim(w)
      BY <1>3, <3>1, AttemptsKept
    <3>2. ASSUME NEW w \in Workers, Claim(w) PROVE job[j] = NoJob
      BY <1>3, <3>2, ClaimKeepsJobs
    <3>. QED BY <3>1, <3>2
  <2>2. Unrun(j) = {}
    BY <2>1 DEF Unrun, TypeInv, ClaimsOK
  <2>3. runs'[j] = runs[j]
    BY <2>2, RunsCounted
  <2>. QED BY <2>1, <2>3
<1>4. ASSUME NEW j \in Jobs, job[j] = NoJob, job'[j] # NoJob
      PROVE  runs'[j] + Cardinality(Unrun(j)') <= job'[j].attempts
  <2>1. (\A w \in Workers : ~Claim(w)) /\ job'[j].attempts = 0 /\ runs'[j] = 0
    BY <1>4, NewJobUnspent
  <2>2. Unrun(j) = {}
    BY <1>4 DEF Unrun, TypeInv, ClaimsOK
  <2>3. Unrun(j)' = {}
    BY <2>1, <2>2, UnrunGrowsByClaim DEF Unrun
  <2>. QED BY <2>1, <2>3, FS_EmptySet
<1>5. ASSUME NEW j \in Jobs, job[j] # NoJob, job'[j] # NoJob, \A w \in Workers : ~Claim(w)
      PROVE  runs'[j] + Cardinality(Unrun(j)') <= job'[j].attempts
  <2>1. job'[j].attempts = job[j].attempts /\ job[j].attempts \in Nat
    BY <1>5, AttemptsKept DEF TypeInv, TypeOK, Job
  <2>2. Unrun(j)' \in SUBSET Unrun(j)
    BY <1>5, UnrunGrowsByClaim DEF Unrun
  <2>3. CASE runs'[j] = runs[j]
    <3>1. Cardinality(Unrun(j)') <= Cardinality(Unrun(j))
      BY <1>2, <2>2, FS_Subset
    <3>. QED BY <1>2, <1>5, <2>1, <2>3, <3>1
  <2>4. ASSUME NEW w \in Unrun(j), Unrun(j)' = Unrun(j) \ {w}, runs'[j] = runs[j] + 1
        PROVE  runs'[j] + Cardinality(Unrun(j)') <= job'[j].attempts
    <3>1. Cardinality(Unrun(j)') = Cardinality(Unrun(j)) - 1
      BY <1>2, <2>4, FS_RemoveElement
    <3>. QED BY <1>2, <1>5, <2>1, <2>4, <3>1
  <2>. QED BY <2>3, <2>4, RunsCounted
<1>6. ASSUME NEW j \in Jobs, NEW w \in Workers, Claim(w), job[j] # NoJob
      PROVE  runs'[j] + Cardinality(Unrun(j)') <= job'[j].attempts
  <2>1. PICK i \in Due : /\ job' = [job EXCEPT ![i].status = "processing", ![i].started = "fresh",
                                              ![i].attempts = @ + 1]
                         /\ held' = [held EXCEPT ![w] = i]
    BY <1>6 DEF Claim
  <2>2. runs' = runs /\ job[j] \in Job /\ job[j].attempts \in Nat
    BY <1>6 DEF Claim, TypeInv, TypeOK, Job
  <2>3. CASE i = j
    <3>1. job'[j].attempts = job[j].attempts + 1
      BY <2>1, <2>2, <2>3 DEF TypeInv, TypeOK, Job
    <3>2. Unrun(j)' \in SUBSET (Unrun(j) \cup {w})
      BY <1>6 DEF Claim, Unrun, TypeInv, TypeOK
    <3>3. IsFiniteSet(Unrun(j) \cup {w}) /\ Cardinality(Unrun(j) \cup {w}) <= Cardinality(Unrun(j)) + 1
      <4>1. IsFiniteSet(Unrun(j)) /\ Cardinality(Unrun(j)) \in Nat
        BY <1>2
      <4>2. /\ IsFiniteSet(Unrun(j) \cup {w})
            /\ Cardinality(Unrun(j) \cup {w}) =
                  IF w \in Unrun(j) THEN Cardinality(Unrun(j)) ELSE Cardinality(Unrun(j)) + 1
        BY <4>1, FS_AddElement
      <4>. QED BY <4>1, <4>2
    <3>4. Cardinality(Unrun(j) \cup {w}) \in Nat
      BY <3>3, FS_CardinalityType
    <3>5. Cardinality(Unrun(j)') <= Cardinality(Unrun(j)) + 1
      BY <1>2, <3>2, <3>3, <3>4, FS_Subset
    <3>. QED BY <1>2, <1>6, <2>2, <3>1, <3>5
  <2>4. CASE i # j
    <3>1. job'[j] = job[j]
      BY <2>1, <2>4 DEF TypeInv, TypeOK
    <3>2. Unrun(j)' \in SUBSET Unrun(j)
      BY <1>6, <2>1, <2>4 DEF Claim, Unrun, TypeInv, TypeOK
    <3>3. Cardinality(Unrun(j)') <= Cardinality(Unrun(j))
      BY <1>2, <3>2, FS_Subset
    <3>. QED BY <1>2, <1>6, <2>2, <3>1, <3>3
  <2>. QED BY <2>3, <2>4
<1>. QED BY <1>1, <1>3, <1>4, <1>5, <1>6

\* No handler runs without an attempt spent on it, however many workers there
\* are, crash, or write back stale copies of jobs that passed the stale timeout
\* under them: attempt_count is only written under the claim's row lock.
THEOREM RunsPaidFor ==
    ASSUME IsFiniteSet(Workers)
    PROVE  Spec => []RunsAreAttempts
<1>1. Init => PaidInv
  <2>1. Init => \A j \in Jobs : runs[j] = 0 /\ job[j] = NoJob
    BY DEF Init
  <2>. QED BY <2>1, TypeInit DEF PaidInv
<1>2. PaidInv /\ [Next]_vars => PaidInv'
  BY PaidStep
<1>3. PaidInv => RunsAreAttempts
  <2>1. SUFFICES ASSUME PaidInv, NEW j \in Jobs, job[j] # NoJob PROVE runs[j] <= job[j].attempts
    BY DEF RunsAreAttempts
  <2>2. Cardinality(Unrun(j)) \in Nat
    <3>1. Unrun(j) \in SUBSET Workers
      BY DEF Unrun
    <3>. QED BY <3>1, FS_Subset, FS_CardinalityType
  <2>3. runs[j] \in Nat /\ job[j].attempts \in Nat
    BY <2>1, JobFacts DEF PaidInv, TypeInv, TypeOK, Job
  <2>. QED BY <2>1, <2>2, <2>3 DEF PaidInv
<1>. QED BY <1>1, <1>2, <1>3, PTL DEF Spec

-----------------------------------------------------------------------------
(* Undisturbed jobs.  While a claim of a job has never been seen past the    *)
(* stale timeout, or there is no other worker, one worker at most has        *)
(* anything of the job, and what it writes back goes from processing to a    *)
(* result.                                                                   *)

Holding(w) == wpc[w] \in {"claimed", "running", "finished"}
Left(j) == job[j].attempts < MaxAttempts
ReadStale(w, j) == \E left \in BOOLEAN : <<j, left>> \in found[w]

\* A worker has something in hand only where the loop takes it up, and jobs it finds
\* stale have aged.
LoopInv ==
    /\ \A w \in Workers : found[w] # {} => wpc[w] = "requeue"
    /\ \A w \in Workers : held[w] # 0 => Holding(w)
    /\ \A j \in Jobs : job[j].status \in Statuses => (job[j].started = "stale" => j \in aged)
    /\ \A w \in Workers, j \in Jobs : ReadStale(w, j) => j \in aged

\* A pending job has an attempt left.
JobSound(j) ==
    /\ job[j] # NoJob => job[j].attempts <= MaxAttempts
    /\ job[j].status = "pending" => Left(j)

\* What a worker has read as stale, claimed or copied is being processed, with the
\* attempts it read.
WorkerSound(w, j) ==
    /\ \A left \in BOOLEAN :
            <<j, left>> \in found[w] => job[j].status = "processing" /\ (left <=> Left(j))
    /\ Holding(w) /\ held[w] = j => job[j].status = "processing"
    /\ wpc[w] \in {"running", "finished"} /\ held[w] = j =>
            copy[w].status = "processing" /\ copy[w].attempts = job[j].attempts

OneHolder(j) ==
    \A v, w \in Workers : Holding(v) /\ Holding(w) /\ held[v] = j /\ held[w] = j => v = w

QueueInv ==
    /\ TypeInv /\ LoopInv
    /\ \A j \in Undisturbed : JobSound(j) /\ OneHolder(j) /\ \A w \in Workers : WorkerSound(w, j)

\* What a step may do to an undisturbed job.
Kept(j) ==
    /\ job'[j].status = job[j].status
    /\ job[j] # NoJob => job'[j].attempts = job[j].attempts /\ job'[j].key = job[j].key
Enters(j) ==
    /\ job[j] = NoJob /\ job'[j].status = "pending" /\ job'[j].attempts = 0
    /\ \E c \in Clients : SubmitInsert(c) /\ job'[j].key = request[c].key
Taken(j) ==
    /\ job[j].status = "pending" /\ job'[j].status = "processing"
    /\ job'[j].attempts = job[j].attempts + 1 /\ job'[j].key = job[j].key
    /\ \E w \in Workers : Claim(w) /\ held' = [held EXCEPT ![w] = j]
Returned(j) ==
    /\ job[j].status = "processing" /\ job'[j].status \in {"pending", "completed", "failed"}
    /\ job'[j].attempts = job[j].attempts /\ job'[j].key = job[j].key
    /\ job'[j].status = "pending" => Left(j)
    /\ \E w \in Workers : (RequeueWrite(w) /\ ReadStale(w, j)) \/ (Finish(w) /\ held[w] = j)

\* Statuses and keys the helpers write.
LEMMA HelperStatuses ==
    /\ \A x \in Job, left \in BOOLEAN :
            /\ Requeued(x, left).status = IF left THEN "pending" ELSE "failed"
            /\ Requeued(x, left).started \in {x.started, "none"}
            /\ Requeued(x, left).key = x.key
    /\ \A x \in Job, m \in Job, o \in Outcomes :
            /\ Finished(x, m, o).key = x.key
            /\ Finished(x, m, o).started \in {x.started, "none"}
            /\ Finished(x, m, o).status \in {x.status, "pending", "completed", "failed"}
            /\ m.attempts >= MaxAttempts => Finished(x, m, o).status \in {x.status, "completed", "failed"}
            /\ m.status = "processing" => Finished(x, m, o).status \in {"pending", "completed", "failed"}
            /\ m.status = "processing" /\ Finished(x, m, o).status = "pending"
                    => ~(m.attempts >= MaxAttempts)
<1>1. ASSUME NEW x \in Job, NEW left \in BOOLEAN
      PROVE  /\ Requeued(x, left).status = IF left THEN "pending" ELSE "failed"
             /\ Requeued(x, left).started \in {x.started, "none"}
             /\ Requeued(x, left).key = x.key
  BY DEF Requeued, Job
<1>2. ASSUME NEW x \in Job, NEW m \in Job, NEW o \in Outcomes
      PROVE  /\ Finished(x, m, o).key = x.key
             /\ Finished(x, m, o).started \in {x.started, "none"}
             /\ Finished(x, m, o).status \in {x.status, "pending", "completed", "failed"}
             /\ m.attempts >= MaxAttempts => Finished(x, m, o).status \in {x.status, "completed", "failed"}
             /\ m.status = "processing" => Finished(x, m, o).status \in {"pending", "completed", "failed"}
             /\ m.status = "processing" /\ Finished(x, m, o).status = "pending"
                    => ~(m.attempts >= MaxAttempts)
  <2>1. CASE o \in {"ok", "value"}
    <3>1. Finished(x, m, o) = [x EXCEPT !.status = Written(x.status, m.status, "completed"),
                                        !.index = IF o = "value" THEN m.index ELSE x.index]
      BY <2>1 DEF Finished
    <3>. QED BY <3>1 DEF Job, Written
  <2>2. CASE o \notin {"ok", "value"} /\ (o = "fatal" \/ m.attempts >= MaxAttempts)
    <3>1. Finished(x, m, o) = [x EXCEPT !.status = Written(x.status, m.status, "failed"),
                                        !.index = m.index]
      BY <2>2 DEF Finished
    <3>. QED BY <3>1 DEF Job, Written
  <2>3. CASE o \notin {"ok", "value"} /\ ~(o = "fatal" \/ m.attempts >= MaxAttempts)
    <3>1. Finished(x, m, o) =
            [x EXCEPT !.status = Written(x.status, m.status, "pending"), !.index = m.index,
                      !.started = Written(x.started, m.started, "none"), !.due = FALSE]
      BY <2>3 DEF Finished
    <3>2. /\ Finished(x, m, o).key = x.key
          /\ Finished(x, m, o).started \in {x.started, "none"}
          /\ Finished(x, m, o).status \in {x.status, "pending"}
          /\ m.status = "processing" => Finished(x, m, o).status = "pending"
      BY <3>1 DEF Job, Written
    <3>. QED BY <2>3, <3>2
  <2>. QED BY <2>1, <2>2, <2>3
<1>. QED BY <1>1, <1>2

\* An undisturbed job that another worker might write to is one nobody has read as stale.
LEMMA Alone ==
    ASSUME LoopInv, NEW j \in Undisturbed, NEW v \in Workers, NEW w \in Workers, v # w
    PROVE  j \notin aged /\ ~ReadStale(v, j) /\ ~ReadStale(w, j)
  BY DEF LoopInv, Undisturbed

\* These are all.
LEMMA JobMoves ==
    ASSUME QueueInv, [Next]_vars, NEW j \in Undisturbed
    PROVE  Kept(j) \/ Enters(j) \/ Taken(j) \/ Returned(j)
<1>. USE JobFacts DEF TypeInv
<1>0. TypeInv /\ job \in [Jobs -> Job \cup {NoJob}] /\ j \in Jobs
  BY DEF QueueInv, TypeOK, Undisturbed
<1>1. ASSUME job'[j] = job[j] PROVE Kept(j)
  BY <1>1 DEF Kept
<1>2. ASSUME NEW c \in Clients, SubmitDeduped(c) PROVE Kept(j)
  <2>1. PICK i \in SameKeyActive(request[c].key) : job' = [job EXCEPT ![i].index = @ \/ request[c].index]
    BY <1>2 DEF SubmitDeduped
  <2>2. job[i] \in Job /\ i \in Jobs
    BY <1>0 DEF SameKeyActive, Statuses
  <2>3. [job[i] EXCEPT !.index = @ \/ request[c].index].status = job[i].status
        /\ [job[i] EXCEPT !.index = @ \/ request[c].index].attempts = job[i].attempts
        /\ [job[i] EXCEPT !.index = @ \/ request[c].index].key = job[i].key
    BY <2>2 DEF Job
  <2>4. job'[j] = IF j = i THEN [job[i] EXCEPT !.index = @ \/ request[c].index] ELSE job[j]
    BY <1>0, <2>1, <2>2
  <2>. QED BY <2>3, <2>4 DEF Kept
<1>3. ASSUME NEW c \in Clients, SubmitInsert(c) PROVE Kept(j) \/ Enters(j)
  <2>1. CASE job'[j] = job[j]
    BY <2>1, <1>1
  <2>2. CASE job'[j] # job[j]
    <3>1. /\ j \in Free
          /\ job'[j] = [status |-> "pending", attempts |-> 0, due |-> TRUE, started |-> "none",
                        key |-> request[c].key, prio |-> request[c].prio,
                        index |-> request[c].index]
      BY <1>0, <1>3, <2>2 DEF SubmitInsert
    <3>. QED BY <1>3, <3>1 DEF Enters, Free
  <2>. QED BY <2>1, <2>2
<1>4. ASSUME NEW w \in Workers, RequeueWrite(w) PROVE Kept(j) \/ Returned(j)
  <2>1. CASE job'[j] = job[j]
    BY <2>1, <1>1
  <2>2. CASE job'[j] # job[j]
    <3>1. PICK left \in BOOLEAN : <<j, left>> \in found[w]
      BY <1>0, <1>4, <2>2 DEF RequeueWrite
    <3>2. job'[j] = Requeued(job[j], <<j, TRUE>> \in found[w])
      BY <1>0, <1>4, <3>1 DEF RequeueWrite
    <3>3. job[j].status = "processing" /\ job[j] \in Job
      BY <1>0, <3>1 DEF QueueInv, WorkerSound, Statuses, Active
    <3>4. <<j, TRUE>> \in found[w] => Left(j)
      BY DEF QueueInv, WorkerSound
    <3>5. (<<j, TRUE>> \in found[w]) \in BOOLEAN
      OBVIOUS
    <3>6. /\ job'[j].status = IF <<j, TRUE>> \in found[w] THEN "pending" ELSE "failed"
          /\ job'[j].key = job[j].key /\ job'[j].attempts = job[j].attempts
      <4>. DEFINE more == <<j, TRUE>> \in found[w]
      <4>1. more \in BOOLEAN
        OBVIOUS
      <4>2. Requeued(job[j], more).attempts = job[j].attempts
        BY <3>3, <4>1, HelpersGiveJobs
      <4>3. Requeued(job[j], more).key = job[j].key
        BY <3>3, <4>1, HelperStatuses
      <4>4. Requeued(job[j], more).status = IF more THEN "pending" ELSE "failed"
        BY <3>3, <4>1, HelperStatuses
      <4>. QED BY <3>2, <4>2, <4>3, <4>4
    <3>7. job'[j].status \in {"pending", "completed", "failed"} /\ (job'[j].status = "pending" => Left(j))
      BY <3>4, <3>6
    <3>8. ReadStale(w, j)
      BY <3>1, Zenon DEF ReadStale
    <3>9. \E v \in Workers : (RequeueWrite(v) /\ ReadStale(v, j)) \/ (Finish(v) /\ held[v] = j)
      BY <1>4, <3>8, Zenon
    <3>. QED BY <3>3, <3>6, <3>7, <3>9 DEF Returned
  <2>. QED BY <2>1, <2>2
<1>5. ASSUME NEW w \in Workers, Claim(w) PROVE Kept(j) \/ Taken(j)
  <2>1. PICK i \in Due : /\ job' = [job EXCEPT ![i].status = "processing", ![i].started = "fresh",
                                              ![i].attempts = @ + 1]
                         /\ held' = [held EXCEPT ![w] = i]
    BY <1>5 DEF Claim
  <2>2. i \in Jobs /\ job[i].status = "pending" /\ job[i] \in Job
    BY <1>0 DEF Due, Statuses, Active
  <2>3. CASE i # j
    BY <1>0, <1>1, <2>1, <2>3
  <2>4. CASE i = j
    <3>1. job'[j].status = "processing" /\ job'[j].attempts = job[j].attempts + 1 /\ job'[j].key = job[j].key
      BY <1>0, <2>1, <2>2, <2>4 DEF Job
    <3>. QED BY <1>5, <2>1, <2>2, <2>4, <3>1 DEF Taken
  <2>. QED BY <2>3, <2>4
<1>6. ASSUME NEW w \in Workers, Finish(w) PROVE Kept(j) \/ Returned(j)
  <2>0. held[w] \in Jobs /\ job' = [job EXCEPT ![held[w]] = Finished(@, copy[w], result[w])]
    BY <1>6 DEF Finish, QueueInv, ClaimsOK
  <2>1. CASE held[w] # j
    BY <1>0, <1>1, <2>0, <2>1
  <2>2. CASE held[w] = j
    <3>1. /\ job[j] \in Job /\ copy[w] \in Job /\ result[w] \in Outcomes
          /\ job[j].status = "processing" /\ copy[w].status = "processing"
          /\ copy[w].attempts = job[j].attempts
      BY <1>6, <2>2 DEF Finish, QueueInv, WorkerSound, TypeOK, ClaimsOK, Holding
    <3>2. job'[j] = Finished(job[j], copy[w], result[w])
      BY <1>0, <2>0, <2>2
    <3>3. Finished(job[j], copy[w], result[w]).attempts = job[j].attempts
      BY <3>1, HelpersGiveJobs
    <3>4. /\ Finished(job[j], copy[w], result[w]).key = job[j].key
          /\ Finished(job[j], copy[w], result[w]).status \in {"pending", "completed", "failed"}
          /\ Finished(job[j], copy[w], result[w]).status = "pending" => ~(copy[w].attempts >= MaxAttempts)
      BY <3>1, HelperStatuses
    <3>5. job[j].attempts \in Nat /\ MaxAttempts \in Nat
      BY <3>1, AttemptsPositive DEF Job
    <3>. QED BY <1>6, <2>2, <3>1, <3>2, <3>3, <3>4, <3>5 DEF Returned, Left
  <2>. QED BY <2>1, <2>2
<1>7. ASSUME NEW i \in Jobs, Time(i) PROVE Kept(j)
  <2>1. job[i] \in Job
    BY <1>0, <1>7 DEF Time, RunAges, BackoffElapses, Statuses, Active
  <2>2. \A x \in Job : /\ [x EXCEPT !.started = "stale"].status = x.status
                       /\ [x EXCEPT !.started = "stale"].attempts = x.attempts
                       /\ [x EXCEPT !.started = "stale"].key = x.key
                       /\ [x EXCEPT !.due = TRUE].status = x.status
                       /\ [x EXCEPT !.due = TRUE].attempts = x.attempts
                       /\ [x EXCEPT !.due = TRUE].key = x.key
    BY DEF Job
  <2>3. CASE job' = [job EXCEPT ![i].started = "stale"]
    <3>1. job'[j] = IF j = i THEN [job[i] EXCEPT !.started = "stale"] ELSE job[j]
      BY <1>0, <2>3
    <3>. QED BY <2>1, <2>2, <3>1 DEF Kept
  <2>4. CASE job' = [job EXCEPT ![i].due = TRUE]
    <3>1. job'[j] = IF j = i THEN [job[i] EXCEPT !.due = TRUE] ELSE job[j]
      BY <1>0, <2>4
    <3>. QED BY <2>1, <2>2, <3>1 DEF Kept
  <2>. QED BY <1>7, <2>3, <2>4 DEF Time, RunAges, BackoffElapses
<1>8. ASSUME NEW w \in Workers, RequeueRead(w) \/ PollLimit(w) \/ NothingDue(w) \/ Refresh(w)
                                \/ Run(w) \/ NoHandler(w) \/ Crash(w)
      PROVE  Kept(j)
  BY <1>1, <1>8 DEF RequeueRead, PollLimit, NothingDue, Refresh, Run, NoHandler, Crash
<1>9. ASSUME NEW c \in Clients, SubmitNew(c) PROVE Kept(j)
  BY <1>1, <1>9 DEF SubmitNew
<1>10. CASE UNCHANGED vars
  BY <1>1, <1>10 DEF vars
<1>. QED BY <1>2, <1>3, <1>4, <1>5, <1>6, <1>7, <1>8, <1>9, <1>10 DEF Next, Submit, Work

\* What a step may do to any job, disturbed or not.
Moves(j) ==
    /\ job'[j].started = "stale" =>
          (job[j].status \in Statuses /\ job[j].started = "stale") \/ RunAges(j)
    /\ job'[j].status = "processing" =>
          \/ job[j].status = "processing"
          \/ \E w \in Workers : Claim(w) /\ held' = [held EXCEPT ![w] = j]
    /\ job'[j].status = "pending" =>
          \/ job[j].status = "pending" \/ job[j] = NoJob
          \/ \E w \in Workers : RequeueWrite(w) /\ <<j, TRUE>> \in found[w]
          \/ \E w \in Workers : Finish(w) /\ held[w] = j /\ ~(copy[w].attempts >= MaxAttempts)

LEMMA TableMoves ==
    ASSUME TypeInv, [Next]_vars, NEW j \in Jobs, job'[j].status \in Statuses
    PROVE  Moves(j)
<1>. USE JobFacts
<1>0. /\ job \in [Jobs -> Job \cup {NoJob}]
      /\ \A i \in Jobs : job[i].status \in Statuses => job[i] \in Job
      /\ \A i \in Jobs : job[i] \in Job => job[i].status \in Statuses
  BY DEF TypeInv, TypeOK, Job
<1>1. ASSUME job'[j].status = job[j].status, job'[j].started = job[j].started
      PROVE  Moves(j)
  BY <1>1 DEF Moves
<1>2. ASSUME NEW c \in Clients, SubmitDeduped(c) PROVE Moves(j)
  <2>1. PICK i \in SameKeyActive(request[c].key) : job' = [job EXCEPT ![i].index = @ \/ request[c].index]
    BY <1>2 DEF SubmitDeduped
  <2>2. job[i] \in Job /\ i \in Jobs
    BY <1>0 DEF SameKeyActive, Statuses
  <2>3. [job[i] EXCEPT !.index = @ \/ request[c].index].status = job[i].status
        /\ [job[i] EXCEPT !.index = @ \/ request[c].index].started = job[i].started
    BY <2>2 DEF Job
  <2>4. job'[j] = IF j = i THEN [job[i] EXCEPT !.index = @ \/ request[c].index] ELSE job[j]
    BY <1>0, <2>1, <2>2
  <2>5. job'[j].status = job[j].status /\ job'[j].started = job[j].started
    BY <2>3, <2>4
  <2>. QED BY <1>1, <2>5
<1>3. ASSUME NEW c \in Clients, SubmitInsert(c) PROVE Moves(j)
  <2>1. CASE job'[j] = job[j]
    BY <1>1, <2>1
  <2>2. CASE job'[j] # job[j]
    <3>1. job[j] = NoJob /\ job'[j].status = "pending" /\ job'[j].started = "none"
      BY <1>0, <1>3, <2>2 DEF SubmitInsert, Free
    <3>. QED BY <3>1 DEF Moves
  <2>. QED BY <2>1, <2>2
<1>4. ASSUME NEW w \in Workers, RequeueWrite(w) PROVE Moves(j)
  <2>1. CASE job'[j] = job[j]
    BY <1>1, <2>1
  <2>2. CASE job'[j] # job[j]
    <3>. DEFINE more == <<j, TRUE>> \in found[w]
    <3>1. job'[j] = Requeued(job[j], more) /\ \E left \in BOOLEAN : <<j, left>> \in found[w]
      BY <1>0, <1>4, <2>2 DEF RequeueWrite
    <3>2. job[j] \in Job
      BY <3>1 DEF TypeInv, ClaimsOK
    <3>3. more \in BOOLEAN
      OBVIOUS
    <3>4. /\ job'[j].status = IF more THEN "pending" ELSE "failed"
          /\ job'[j].started \in {job[j].started, "none"}
      <4>. HIDE DEF more
      <4>. QED BY <3>1, <3>2, <3>3, HelperStatuses
    <3>. QED BY <1>0, <1>4, <3>2, <3>4 DEF Moves
  <2>. QED BY <2>1, <2>2
<1>5. ASSUME NEW w \in Workers, Claim(w) PROVE Moves(j)
  <2>1. PICK i \in Due : /\ job' = [job EXCEPT ![i].status = "processing", ![i].started = "fresh",
                                              ![i].attempts = @ + 1]
                         /\ held' = [held EXCEPT ![w] = i]
    BY <1>5 DEF Claim
  <2>2. i \in Jobs /\ job[i] \in Job
    BY <1>0 DEF Due, Statuses, Active
  <2>3. CASE i # j
    BY <1>0, <1>1, <2>1, <2>3
  <2>4. CASE i = j
    <3>1. job'[j].status = "processing" /\ job'[j].started = "fresh"
      BY <1>0, <2>1, <2>2, <2>4 DEF Job
    <3>. QED BY <1>5, <2>1, <2>4, <3>1 DEF Moves
  <2>. QED BY <2>3, <2>4
<1>6. ASSUME NEW w \in Workers, Finish(w) PROVE Moves(j)
  <2>1. /\ held[w] \in Jobs /\ job[held[w]] \in Job /\ copy[w] \in Job /\ result[w] \in Outcomes
        /\ job' = [job EXCEPT ![held[w]] = Finished(@, copy[w], result[w])]
    BY <1>6 DEF Finish, TypeInv, TypeOK, ClaimsOK
  <2>2. CASE held[w] # j
    BY <1>0, <1>1, <2>1, <2>2
  <2>3. CASE held[w] = j
    <3>1. job'[j] = Finished(job[j], copy[w], result[w])
      BY <1>0, <2>1, <2>3
    <3>2. /\ job'[j].started \in {job[j].started, "none"}
          /\ job'[j].status \in {job[j].status, "pending", "completed", "failed"}
          /\ copy[w].attempts >= MaxAttempts => job'[j].status \in {job[j].status, "completed", "failed"}
      BY <2>1, <2>3, <3>1, HelperStatuses
    <3>. QED BY <1>0, <1>6, <2>1, <2>3, <3>2 DEF Moves
  <2>. QED BY <2>2, <2>3
<1>7. ASSUME NEW i \in Jobs, Time(i) PROVE Moves(j)
  <2>1. job[i] \in Job
    BY <1>0, <1>7 DEF Time, RunAges, BackoffElapses, Statuses, Active
  <2>2. CASE RunAges(i)
    <3>1. job'[j] = IF j = i THEN [job[i] EXCEPT !.started = "stale"] ELSE job[j]
      BY <1>0, <2>2 DEF RunAges
    <3>2. [job[i] EXCEPT !.started = "stale"].status = job[i].status
      BY <2>1 DEF Job
    <3>3. job'[j].status = job[j].status /\ (job'[j].started = job[j].started \/ j = i)
      BY <3>1, <3>2
    <3>. QED BY <1>1, <2>2, <3>3 DEF Moves
  <2>3. CASE BackoffElapses(i)
    <3>1. job'[j] = IF j = i THEN [job[i] EXCEPT !.due = TRUE] ELSE job[j]
      BY <1>0, <2>3 DEF BackoffElapses
    <3>2. /\ [job[i] EXCEPT !.due = TRUE].status = job[i].status
          /\ [job[i] EXCEPT !.due = TRUE].started = job[i].started
      BY <2>1 DEF Job
    <3>3. job'[j].status = job[j].status /\ job'[j].started = job[j].started
      BY <3>1, <3>2
    <3>. QED BY <1>1, <3>3
  <2>. QED BY <1>7, <2>2, <2>3 DEF Time
<1>8. ASSUME job' = job PROVE Moves(j)
  BY <1>1, <1>8
<1>9. CASE \E w \in Workers : RequeueRead(w) \/ PollLimit(w) \/ NothingDue(w) \/ Refresh(w)
                                \/ Run(w) \/ NoHandler(w) \/ Crash(w)
  BY <1>8, <1>9 DEF RequeueRead, PollLimit, NothingDue, Refresh, Run, NoHandler, Crash
<1>10. CASE \E c \in Clients : SubmitNew(c)
  BY <1>8, <1>10 DEF SubmitNew
<1>11. CASE UNCHANGED vars
  BY <1>8, <1>11 DEF vars
<1>12. CASE \E c \in Clients : Submit(c)
  BY <1>2, <1>3, <1>10, <1>12 DEF Submit
<1>13. CASE \E w \in Workers : Work(w) \/ Crash(w)
  BY <1>4, <1>5, <1>6, <1>9, <1>13 DEF Work
<1>. QED BY <1>7, <1>11, <1>12, <1>13 DEF Next

\* Undisturbed jobs are among those that were, and aging is the only way out.
LEMMA UndisturbedShrinks ==
    ASSUME [Next]_vars
    PROVE  aged \subseteq aged' /\ Undisturbed' \subseteq Undisturbed /\ Undisturbed \subseteq Jobs
<1>1. aged \subseteq aged'
  BY DEF Next, Submit, SubmitDeduped, SubmitNew, SubmitInsert, Work, RequeueRead, RequeueWrite,
     PollLimit, Claim, NothingDue, Refresh, Run, NoHandler, Finish, Crash, Time, RunAges,
     BackoffElapses, vars
<1>. QED BY <1>1 DEF Undisturbed

\* Where the workers are after a step: one of them at most has moved.
LEMMA LoopStep == TypeInv /\ LoopInv /\ [Next]_vars => LoopInv'
<1>. SUFFICES ASSUME TypeInv, LoopInv, [Next]_vars PROVE LoopInv'
  OBVIOUS
<1>0. /\ TypeInv' /\ wpc \in [Workers -> WPCs] /\ found \in [Workers -> SUBSET (Jobs \X BOOLEAN)]
      /\ held \in [Workers -> Jobs \cup {0}] /\ aged \subseteq aged'
  BY TypeStep, UndisturbedShrinks DEF TypeInv, TypeOK
<1>1. ASSUME NEW j \in Jobs, job'[j].status \in Statuses, job'[j].started = "stale" PROVE j \in aged'
  <2>1. Moves(j)
    BY <1>1, TableMoves
  <2>2. CASE RunAges(j)
    BY <2>2 DEF RunAges
  <2>3. CASE job[j].status \in Statuses /\ job[j].started = "stale"
    BY <1>0, <2>3 DEF LoopInv
  <2>. QED BY <1>1, <2>1, <2>2, <2>3 DEF Moves
<1>2. ASSUME NEW w \in Workers
      PROVE  /\ found'[w] # {} => wpc'[w] = "requeue"
             /\ held'[w] # 0 => Holding(w)'
             /\ \A j \in Jobs : ReadStale(w, j)' => j \in aged'
  <2>1. CASE RequeueRead(w)
    <3>1. /\ found' = [found EXCEPT ![w] =
                {<<j, job[j].attempts < MaxAttempts>> : j \in {i \in Processing : job[i].started = "stale"}}]
          /\ wpc' = [wpc EXCEPT ![w] = IF found'[w] = {} THEN "poll" ELSE "requeue"]
          /\ wpc[w] = "idle" /\ held' = held
      BY <2>1 DEF RequeueRead
    <3>2. held'[w] = 0
      BY <3>1 DEF LoopInv, Holding
    <3>3. ASSUME NEW j \in Jobs, NEW left \in BOOLEAN, <<j, left>> \in found'[w] PROVE j \in aged
      <4>1. PICK i \in Processing : job[i].started = "stale" /\ <<j, left>> = <<i, job[i].attempts < MaxAttempts>>
        BY <1>0, <3>1, <3>3
      <4>. QED BY <4>1 DEF Processing, LoopInv, Statuses, Active
    <3>4. \A j \in Jobs : ReadStale(w, j)' => j \in aged'
      BY <1>0, <3>3 DEF ReadStale
    <3>5. found'[w] # {} => wpc'[w] = "requeue"
      BY <1>0, <3>1
    <3>. QED BY <3>2, <3>4, <3>5
  <2>2. CASE RequeueWrite(w)
    BY <1>0, <2>2 DEF RequeueWrite, LoopInv, Holding, ReadStale
  <2>3. CASE PollLimit(w) \/ NothingDue(w) \/ Refresh(w) \/ Run(w) \/ NoHandler(w)
    BY <1>0, <2>3 DEF PollLimit, NothingDue, Refresh, Run, NoHandler, LoopInv, Holding, ReadStale
  <2>4. CASE Claim(w)
    BY <1>0, <2>4 DEF Claim, LoopInv, Holding, ReadStale
  <2>5. CASE Finish(w)
    BY <1>0, <2>5 DEF Finish, LoopInv, Holding, ReadStale
  <2>6. CASE Crash(w)
    BY <1>0, <2>6 DEF Crash, Holding, ReadStale
  <2>7. CASE UNCHANGED <<wpc[w], found[w], held[w]>>
    BY <1>0, <2>7 DEF LoopInv, Holding, ReadStale
  <2>8. CASE (\E c \in Clients : Submit(c)) \/ (\E i \in Jobs : Time(i)) \/ UNCHANGED vars
    BY <2>7, <2>8 DEF Submit, SubmitDeduped, SubmitNew, SubmitInsert, Time, RunAges, BackoffElapses,
       vars, workers
  <2>9. ASSUME NEW v \in Workers, v # w, Work(v) \/ Crash(v)
        PROVE  UNCHANGED <<wpc[w], found[w], held[w]>>
    BY <1>0, <2>9 DEF Work, RequeueRead, RequeueWrite, PollLimit, Claim, NothingDue, Refresh, Run,
       NoHandler, Finish, Crash
  <2>. QED BY <2>1, <2>2, <2>3, <2>4, <2>5, <2>6, <2>7, <2>8, <2>9 DEF Next, Work
<1>. QED BY <1>1, <1>2 DEF LoopInv

LEMMA QueueInit == Init => QueueInv
<1>1. Init => \A j \in Jobs : job[j] = NoJob /\ job[j].status = "absent"
  BY DEF Init, NoJob
<1>2. Init => \A w \in Workers : wpc[w] = "idle" /\ found[w] = {} /\ held[w] = 0
  BY DEF Init
<1>. QED
  BY <1>1, <1>2, TypeInit DEF QueueInv, LoopInv, Undisturbed, JobSound, WorkerSound, OneHolder,
     ReadStale, Holding, Statuses, Active

LEMMA JobSoundStep ==
    ASSUME QueueInv, [Next]_vars, NEW j \in Undisturbed
    PROVE  JobSound(j)'
<1>0. /\ TypeInv /\ TypeInv' /\ MaxAttempts \in Nat \ {0} /\ j \in Jobs /\ JobSound(j)
  BY TypeStep, AttemptsPositive, UndisturbedShrinks DEF QueueInv
<1>1. job[j].status \in Statuses => job[j] \in Job
  BY <1>0, JobFacts DEF TypeInv, TypeOK
<1>2. job[j] \in Job => job[j].attempts \in Nat
  BY DEF Job
<1>3. CASE Kept(j)
  <2>1. CASE job[j] = NoJob
    <3>1. job'[j].status = "absent"
      BY <1>3, <2>1 DEF Kept, NoJob
    <3>2. job'[j] = NoJob
      BY <1>0, <3>1, JobFacts DEF TypeInv, TypeOK, Statuses, Active, Job
    <3>. QED BY <3>1, <3>2 DEF JobSound
  <2>2. CASE job[j] # NoJob
    BY <1>0, <1>3, <2>2 DEF Kept, JobSound, Left
  <2>. QED BY <2>1, <2>2
<1>4. CASE Enters(j)
  BY <1>0, <1>4 DEF Enters, JobSound, Left
<1>5. CASE Taken(j)
  <2>1. job[j] \in Job /\ job[j].attempts < MaxAttempts
    BY <1>0, <1>1, <1>5 DEF Taken, JobSound, Left, Statuses, Active
  <2>. QED BY <1>0, <1>2, <1>5, <2>1 DEF Taken, JobSound
<1>6. CASE Returned(j)
  <2>1. job[j] \in Job /\ job[j].attempts <= MaxAttempts
    BY <1>0, <1>1, <1>6, JobFacts DEF Returned, JobSound, Statuses, Active
  <2>. QED BY <1>6, <2>1 DEF Returned, JobSound, Left
<1>. QED BY <1>3, <1>4, <1>5, <1>6, JobMoves

\* A job being processed is left alone unless a worker that has it returns it.
LEMMA LeftAlone ==
    ASSUME QueueInv, [Next]_vars, NEW j \in Undisturbed, job[j].status = "processing",
           \A w \in Workers : ~(RequeueWrite(w) /\ ReadStale(w, j)) /\ ~(Finish(w) /\ held[w] = j)
    PROVE  job'[j].status = "processing" /\ job'[j].attempts = job[j].attempts
<1>1. job[j] # NoJob
  BY DEF NoJob
<1>. QED BY <1>1, JobMoves DEF Kept, Enters, Taken, Returned

\* The worker that takes the step.
LEMMA OwnStep ==
    ASSUME QueueInv, [Next]_vars, NEW w \in Workers, Work(w) \/ Crash(w), NEW j \in Undisturbed
    PROVE  WorkerSound(w, j)'
<1>0. /\ wpc \in [Workers -> WPCs] /\ found \in [Workers -> SUBSET (Jobs \X BOOLEAN)]
      /\ held \in [Workers -> Jobs \cup {0}] /\ copy \in [Workers -> Job \cup {NoJob}]
      /\ job \in [Jobs -> Job \cup {NoJob}] /\ TypeInv /\ LoopInv /\ WorkerSound(w, j) /\ j \in Jobs
      /\ LoopInv' /\ (found[w] # {} => wpc[w] = "requeue")
  BY LoopStep, UndisturbedShrinks DEF QueueInv, TypeInv, TypeOK, LoopInv
<1>1. CASE RequeueRead(w)
  <2>1. /\ job' = job /\ wpc' = [wpc EXCEPT ![w] = IF found'[w] = {} THEN "poll" ELSE "requeue"]
        /\ found' = [found EXCEPT ![w] =
            {<<i, job[i].attempts < MaxAttempts>> : i \in {k \in Processing : job[k].started = "stale"}}]
    BY <1>1 DEF RequeueRead
  <2>2. ~Holding(w)' /\ wpc'[w] \notin {"running", "finished"}
    BY <1>0, <2>1 DEF Holding
  <2>3. ASSUME NEW left \in BOOLEAN, <<j, left>> \in found'[w]
        PROVE  job'[j].status = "processing" /\ (left <=> Left(j)')
    <3>1. PICK i \in Processing : <<j, left>> = <<i, job[i].attempts < MaxAttempts>>
      BY <1>0, <2>1, <2>3
    <3>2. j = i /\ (left <=> job[i].attempts < MaxAttempts)
      BY <3>1
    <3>. QED BY <2>1, <3>2 DEF Processing, Left
  <2>. QED BY <2>2, <2>3 DEF WorkerSound
<1>2. CASE RequeueWrite(w)
  BY <1>0, <1>2 DEF RequeueWrite, Holding, WorkerSound
<1>3. CASE PollLimit(w) \/ NothingDue(w)
  BY <1>0, <1>3 DEF PollLimit, NothingDue, Holding, WorkerSound
<1>4. CASE Claim(w)
  <2>1. PICK i \in Due : /\ job' = [job EXCEPT ![i].status = "processing", ![i].started = "fresh",
                                              ![i].attempts = @ + 1]
                         /\ held' = [held EXCEPT ![w] = i]
    BY <1>4 DEF Claim
  <2>2. i \in Jobs /\ job[i] \in Job
    BY <1>0, JobFacts DEF Due, Statuses, Active
  <2>3. job'[i].status = "processing" /\ held'[w] = i
    BY <1>0, <2>1, <2>2 DEF Job
  <2>4. found'[w] = {} /\ wpc'[w] = "claimed"
    BY <1>0, <1>4 DEF Claim
  <2>. QED BY <2>3, <2>4 DEF Holding, WorkerSound
<1>5. CASE Refresh(w)
  BY <1>0, <1>5 DEF Refresh, Holding, WorkerSound, Left
<1>6. CASE Run(w) \/ NoHandler(w)
  BY <1>0, <1>6 DEF Run, NoHandler, Holding, WorkerSound, Left
<1>7. CASE Finish(w)
  BY <1>0, <1>7 DEF Finish, Holding, WorkerSound
<1>8. CASE Crash(w)
  BY <1>0, <1>8 DEF Crash, Holding, WorkerSound
<1>. QED BY <1>1, <1>2, <1>3, <1>4, <1>5, <1>6, <1>7, <1>8 DEF Work

\* The workers that do not.
LEMMA OthersStep ==
    ASSUME QueueInv, [Next]_vars, NEW w \in Workers, NEW j \in Undisturbed,
           UNCHANGED <<wpc[w], found[w], held[w], copy[w]>>
    PROVE  WorkerSound(w, j)'
<1>0. /\ wpc \in [Workers -> WPCs] /\ held \in [Workers -> Jobs \cup {0}] /\ j \in Jobs
      /\ TypeInv /\ LoopInv /\ WorkerSound(w, j) /\ OneHolder(j)
  BY UndisturbedShrinks DEF QueueInv, TypeInv, TypeOK
<1>1. ~RequeueWrite(w) /\ ~Finish(w)
  BY <1>0 DEF RequeueWrite, Finish
<1>2. ASSUME ReadStale(w, j) \/ (Holding(w) /\ held[w] = j), job[j].status = "processing"
      PROVE  job'[j].status = "processing" /\ job'[j].attempts = job[j].attempts
  <2>1. ASSUME NEW v \in Workers, RequeueWrite(v), ReadStale(v, j) PROVE FALSE
    BY <1>0, <1>1, <2>1, Alone
  <2>2. ASSUME NEW v \in Workers, Finish(v), held[v] = j PROVE FALSE
    <3>1. v # w /\ Holding(v)
      BY <1>1, <2>2 DEF Finish, Holding
    <3>2. CASE ReadStale(w, j)
      BY <1>0, <3>1, <3>2, Alone
    <3>3. CASE Holding(w) /\ held[w] = j
      BY <1>0, <2>2, <3>1, <3>3 DEF OneHolder
    <3>. QED BY <1>2, <3>2, <3>3
  <2>. QED BY <1>2, <2>1, <2>2, LeftAlone
<1>3. ASSUME NEW left \in BOOLEAN, <<j, left>> \in found[w]
      PROVE  job'[j].status = "processing" /\ (left <=> Left(j)')
  <2>1. job[j].status = "processing" /\ (left <=> Left(j))
    BY <1>0, <1>3 DEF WorkerSound
  <2>2. ReadStale(w, j)
    BY <1>3, Zenon DEF ReadStale
  <2>. QED BY <1>2, <2>1, <2>2 DEF Left
<1>4. ASSUME Holding(w), held[w] = j
      PROVE  job'[j].status = "processing" /\ job'[j].attempts = job[j].attempts
  BY <1>0, <1>2, <1>4 DEF WorkerSound
<1>. QED BY <1>0, <1>3, <1>4 DEF WorkerSound, Holding

\* A claim is the only way to come to hold a job.
LEMMA HoldsByClaim ==
    ASSUME QueueInv, [Next]_vars, NEW w \in Workers, NEW j \in Jobs,
           Holding(w)', held'[w] = j, ~(Holding(w) /\ held[w] = j)
    PROVE  Claim(w) /\ job[j].status = "pending"
<1>0. wpc \in [Workers -> WPCs] /\ held \in [Workers -> Jobs \cup {0}]
  BY DEF QueueInv, TypeInv, TypeOK
<1>1. CASE Claim(w)
  BY <1>0, <1>1 DEF Claim, Due
<1>2. CASE Work(w) /\ ~Claim(w)
  BY <1>0, <1>2 DEF Work, RequeueRead, RequeueWrite, PollLimit, NothingDue, Refresh, Run, NoHandler,
     Finish, Holding
<1>3. CASE Crash(w)
  BY <1>0, <1>3 DEF Crash, Holding
<1>4. CASE UNCHANGED <<wpc[w], held[w]>>
  BY <1>4 DEF Holding
<1>5. CASE (\E c \in Clients : Submit(c)) \/ (\E i \in Jobs : Time(i)) \/ UNCHANGED vars
  BY <1>4, <1>5 DEF Submit, SubmitDeduped, SubmitNew, SubmitInsert, Time, RunAges, BackoffElapses,
     vars, workers
<1>6. ASSUME NEW v \in Workers, v # w, Work(v) \/ Crash(v)
      PROVE  UNCHANGED <<wpc[w], held[w]>>
  BY <1>0, <1>6 DEF Work, RequeueRead, RequeueWrite, PollLimit, Claim, NothingDue, Refresh, Run,
     NoHandler, Finish, Crash
<1>. QED BY <1>1, <1>2, <1>3, <1>4, <1>5, <1>6 DEF Next

LEMMA OneHolderStep ==
    ASSUME QueueInv, [Next]_vars, NEW j \in Undisturbed
    PROVE  OneHolder(j)'
<1>0. /\ wpc \in [Workers -> WPCs] /\ held \in [Workers -> Jobs \cup {0}] /\ j \in Jobs
      /\ OneHolder(j) /\ \A w \in Workers : WorkerSound(w, j)
  BY UndisturbedShrinks DEF QueueInv, TypeInv, TypeOK
<1>1. ASSUME NEW v \in Workers, NEW w \in Workers, Claim(v), v # w PROVE UNCHANGED <<wpc[w], held[w]>>
  BY <1>0, <1>1 DEF Claim
<1>2. ASSUME NEW v \in Workers, NEW w \in Workers, Holding(v)', Holding(w)', held'[v] = j, held'[w] = j,
             v # w, ~(Holding(v) /\ held[v] = j)
      PROVE  FALSE
  <2>1. Claim(v) /\ job[j].status = "pending"
    BY <1>0, <1>2, HoldsByClaim
  <2>2. Holding(w) /\ held[w] = j
    BY <1>1, <1>2, <2>1 DEF Holding
  <2>. QED BY <1>0, <2>1, <2>2 DEF WorkerSound
<1>. QED BY <1>0, <1>2 DEF OneHolder

LEMMA QueueStep == QueueInv /\ [Next]_vars => QueueInv'
<1>. SUFFICES ASSUME QueueInv, [Next]_vars PROVE QueueInv'
  OBVIOUS
<1>0. /\ TypeInv' /\ LoopInv' /\ Undisturbed' \subseteq Undisturbed
      /\ wpc \in [Workers -> WPCs] /\ found \in [Workers -> SUBSET (Jobs \X BOOLEAN)]
      /\ held \in [Workers -> Jobs \cup {0}] /\ copy \in [Workers -> Job \cup {NoJob}]
  BY TypeStep, LoopStep, UndisturbedShrinks DEF QueueInv, TypeInv, TypeOK
<1>1. ASSUME NEW w \in Workers, NEW j \in Undisturbed PROVE WorkerSound(w, j)'
  <2>1. CASE Work(w) \/ Crash(w)
    BY <2>1, OwnStep
  <2>2. CASE UNCHANGED <<wpc[w], found[w], held[w], copy[w]>>
    BY <2>2, OthersStep
  <2>3. CASE (\E c \in Clients : Submit(c)) \/ (\E i \in Jobs : Time(i)) \/ UNCHANGED vars
    BY <2>2, <2>3 DEF Submit, SubmitDeduped, SubmitNew, SubmitInsert, Time, RunAges, BackoffElapses,
       vars, workers
  <2>4. ASSUME NEW v \in Workers, v # w, Work(v) \/ Crash(v)
        PROVE  UNCHANGED <<wpc[w], found[w], held[w], copy[w]>>
    BY <1>0, <2>4 DEF Work, RequeueRead, RequeueWrite, PollLimit, Claim, NothingDue, Refresh, Run,
       NoHandler, Finish, Crash
  <2>. QED BY <2>1, <2>2, <2>3, <2>4 DEF Next
<1>2. \A j \in Undisturbed : JobSound(j)' /\ OneHolder(j)' /\ \A w \in Workers : WorkerSound(w, j)'
  BY <1>1, JobSoundStep, OneHolderStep
<1>. QED BY <1>0, <1>2 DEF QueueInv

\* A job that completed or failed is never taken up again, by however many workers that
\* retry, crash and requeue, unless another worker saw a claim of it past the stale
\* timeout (job_service.py:125-241, 308-343).
THEOREM FinishedStays == Spec => FinishedIsFinal
<1>. DEFINE Final == \A j \in Undisturbed : job[j].status \in {"completed", "failed"}
                                                => job'[j].status = job[j].status
<1>1. QueueInv /\ [Next]_vars => [Final]_job
  BY JobMoves DEF Kept, Enters, Taken, Returned, NoJob
<1>. QED BY <1>1, QueueInit, QueueStep, PTL DEF Spec, FinishedIsFinal

\* No two workers run one job at once, through crashes and requeues of the others' jobs,
\* unless the stale timeout passed for a claim of this job (job_service.py:84-123, FOR
\* UPDATE SKIP LOCKED).
THEOREM ClaimsStayApart == Spec => []ClaimsKeptApart
<1>1. QueueInv => ClaimsKeptApart
  <2>1. SUFFICES ASSUME QueueInv, NEW v \in Workers, NEW w \in Workers, held[v] = held[w],
                        held[v] \in Jobs \ aged
                 PROVE  v = w
    BY DEF ClaimsKeptApart
  <2>2. held[v] # 0 /\ held[w] # 0
    BY <2>1, JobsAreNumbered
  <2>3. Holding(v) /\ Holding(w) /\ held[v] \in Undisturbed
    BY <2>1, <2>2 DEF QueueInv, LoopInv, Undisturbed
  <2>. QED BY <2>1, <2>3 DEF QueueInv, OneHolder
<1>. QED BY <1>1, QueueInit, QueueStep, PTL DEF Spec

-----------------------------------------------------------------------------
(* max_attempts with several workers.  Once a job has spent its attempts,   *)
(* only what another worker read of it before can put it back into the      *)
(* queue, and that worker can do so once.                                   *)

\* Workers that may still return job j to the queue although its attempts are spent.
Tokens(j) ==
    {w \in Workers : \/ <<j, TRUE>> \in found[w]
                     \/ /\ wpc[w] \in {"running", "finished"} /\ held[w] = j
                        /\ ~(copy[w].attempts >= MaxAttempts)}
Queued(j) == IF job[j].status = "pending" THEN 1 ELSE 0

BudgetInv ==
    /\ QueueInv
    /\ \A j \in Jobs : job[j] # NoJob /\ job[j].attempts >= MaxAttempts =>
            job[j].attempts + Cardinality(Tokens(j)) + Queued(j)
                <= MaxAttempts + Cardinality(Workers) - 1

\* Nobody comes to read attempts left of a job whose attempts are spent.
LEMMA TokensShrink ==
    ASSUME QueueInv, [Next]_vars, NEW j \in Jobs, job[j] \in Job, job[j].attempts >= MaxAttempts
    PROVE  Tokens(j)' \subseteq Tokens(j)
<1>0. /\ wpc \in [Workers -> WPCs] /\ found \in [Workers -> SUBSET (Jobs \X BOOLEAN)]
      /\ held \in [Workers -> Jobs \cup {0}] /\ copy \in [Workers -> Job \cup {NoJob}]
      /\ job[j].attempts \in Nat /\ MaxAttempts \in Nat
  BY AttemptsPositive DEF QueueInv, TypeInv, TypeOK, Job
<1>. SUFFICES ASSUME NEW w \in Workers, w \in Tokens(j)' PROVE w \in Tokens(j)
  BY DEF Tokens
<1>1. CASE RequeueRead(w)
  <2>1. wpc'[w] \in {"poll", "requeue"} /\ found'[w] =
            {<<i, job[i].attempts < MaxAttempts>> : i \in {k \in Processing : job[k].started = "stale"}}
    BY <1>0, <1>1 DEF RequeueRead
  <2>2. <<j, TRUE>> \in found'[w]
    BY <2>1 DEF Tokens
  <2>3. PICK i \in Processing : <<j, TRUE>> = <<i, job[i].attempts < MaxAttempts>>
    BY <2>1, <2>2
  <2>4. j = i /\ job[i].attempts < MaxAttempts
    BY <2>3
  <2>. QED BY <1>0, <2>4
<1>2. CASE RequeueWrite(w)
  BY <1>0, <1>2 DEF RequeueWrite, Tokens
<1>3. CASE PollLimit(w) \/ NothingDue(w) \/ Run(w) \/ NoHandler(w)
  BY <1>0, <1>3 DEF PollLimit, NothingDue, Run, NoHandler, Tokens
<1>4. CASE Claim(w)
  BY <1>0, <1>4 DEF Claim, Tokens
<1>5. CASE Refresh(w)
  BY <1>0, <1>5 DEF Refresh, Tokens
<1>6. CASE Finish(w)
  BY <1>0, <1>6 DEF Finish, Tokens
<1>7. CASE Crash(w)
  BY <1>0, <1>7 DEF Crash, Tokens
<1>8. CASE UNCHANGED <<wpc[w], found[w], held[w], copy[w]>>
  BY <1>8 DEF Tokens
<1>9. CASE (\E c \in Clients : Submit(c)) \/ (\E i \in Jobs : Time(i)) \/ UNCHANGED vars
  BY <1>8, <1>9 DEF Submit, SubmitDeduped, SubmitNew, SubmitInsert, Time, RunAges, BackoffElapses,
     vars, workers
<1>10. ASSUME NEW v \in Workers, v # w, Work(v) \/ Crash(v)
       PROVE  UNCHANGED <<wpc[w], found[w], held[w], copy[w]>>
  BY <1>0, <1>10 DEF Work, RequeueRead, RequeueWrite, PollLimit, Claim, NothingDue, Refresh, Run,
     NoHandler, Finish, Crash
<1>. QED BY <1>1, <1>2, <1>3, <1>4, <1>5, <1>6, <1>7, <1>8, <1>9, <1>10 DEF Next, Work

\* A job with no attempt left comes back into the queue by what a worker read before,
\* which is used up.
LEMMA TokenUsed ==
    ASSUME QueueInv, [Next]_vars, NEW j \in Jobs, job[j] \in Job, job[j].status # "pending",
           job'[j].status = "pending"
    PROVE  \E w \in Tokens(j) : w \notin Tokens(j)'
<1>0. /\ TypeInv /\ wpc \in [Workers -> WPCs] /\ found \in [Workers -> SUBSET (Jobs \X BOOLEAN)]
  BY DEF QueueInv, TypeInv, TypeOK
<1>1. Moves(j) /\ job[j] # NoJob
  BY <1>0, TableMoves, JobFacts DEF Statuses, Active
<1>2. ASSUME NEW w \in Workers, RequeueWrite(w), <<j, TRUE>> \in found[w]
      PROVE  w \in Tokens(j) /\ w \notin Tokens(j)'
  BY <1>0, <1>2 DEF RequeueWrite, Tokens
<1>3. ASSUME NEW w \in Workers, Finish(w), held[w] = j, ~(copy[w].attempts >= MaxAttempts)
      PROVE  w \in Tokens(j) /\ w \notin Tokens(j)'
  <2>1. found'[w] = {} /\ wpc'[w] = "idle"
    BY <1>0, <1>3 DEF Finish, QueueInv, LoopInv
  <2>. QED BY <1>3, <2>1 DEF Finish, Tokens
<1>. QED BY <1>1, <1>2, <1>3 DEF Moves

LEMMA BudgetStep ==
    ASSUME IsFiniteSet(Workers), BudgetInv, [Next]_vars
    PROVE  BudgetInv'
<1>0. /\ QueueInv /\ QueueInv' /\ TypeInv /\ MaxAttempts \in Nat \ {0}
      /\ Cardinality(Workers) \in Nat /\ job \in [Jobs -> Job \cup {NoJob}]
      /\ wpc \in [Workers -> WPCs] /\ found \in [Workers -> SUBSET (Jobs \X BOOLEAN)]
  BY QueueStep, AttemptsPositive, FS_CardinalityType DEF BudgetInv, QueueInv, TypeInv, TypeOK
<1>. SUFFICES ASSUME NEW j \in Jobs, job'[j] # NoJob, job'[j].attempts >= MaxAttempts
              PROVE  job'[j].attempts + Cardinality(Tokens(j)') + Queued(j)'
                        <= MaxAttempts + Cardinality(Workers) - 1
  BY <1>0 DEF BudgetInv, Tokens, Queued
<1>1. /\ Tokens(j) \in SUBSET Workers /\ Tokens(j)' \in SUBSET Workers
      /\ IsFiniteSet(Tokens(j)) /\ Cardinality(Tokens(j)) \in Nat
      /\ IsFiniteSet(Tokens(j)') /\ Cardinality(Tokens(j)') \in Nat
  <2>1. Tokens(j) \in SUBSET Workers /\ Tokens(j)' \in SUBSET Workers
    BY DEF Tokens
  <2>. QED BY <2>1, FS_Subset, FS_CardinalityType
<1>2. Queued(j) \in {0, 1} /\ Queued(j)' \in {0, 1}
  BY DEF Queued
<1>3. CASE \A w \in Workers : ~Claim(w)
  <2>1. job[j] # NoJob
    BY <1>0, <1>3, NewJobUnspent
  <2>2. /\ job[j] \in Job /\ job[j].attempts \in Nat /\ job'[j].attempts = job[j].attempts
        /\ job[j].attempts + Cardinality(Tokens(j)) + Queued(j) <= MaxAttempts + Cardinality(Workers) - 1
    BY <1>0, <1>3, <2>1, AttemptsKept, JobFacts DEF BudgetInv, Job
  <2>3. Tokens(j)' \subseteq Tokens(j)
    BY <1>0, <2>2, TokensShrink
  <2>4. CASE Queued(j)' <= Queued(j)
    <3>1. Cardinality(Tokens(j)') <= Cardinality(Tokens(j))
      BY <1>1, <2>3, FS_Subset
    <3>. QED BY <1>0, <1>1, <1>2, <2>2, <2>4, <3>1
  <2>5. CASE ~(Queued(j)' <= Queued(j))
    <3>1. job[j].status # "pending" /\ job'[j].status = "pending"
      BY <2>5 DEF Queued
    <3>2. PICK w \in Tokens(j) : w \notin Tokens(j)'
      BY <1>0, <2>2, <3>1, TokenUsed
    <3>3. Tokens(j)' \in SUBSET (Tokens(j) \ {w})
      BY <2>3, <3>2
    <3>4. /\ IsFiniteSet(Tokens(j) \ {w})
          /\ Cardinality(Tokens(j) \ {w}) = Cardinality(Tokens(j)) - 1
      BY <1>1, FS_RemoveElement
    <3>5. Cardinality(Tokens(j)') <= Cardinality(Tokens(j)) - 1
      BY <3>3, <3>4, FS_Subset
    <3>. QED BY <1>0, <1>1, <1>2, <2>2, <3>5
  <2>. QED BY <2>4, <2>5
<1>4. ASSUME NEW w \in Workers, Claim(w)
      PROVE  job'[j].attempts + Cardinality(Tokens(j)') + Queued(j)'
                <= MaxAttempts + Cardinality(Workers) - 1
  <2>1. PICK i \in Due : /\ job' = [job EXCEPT ![i].status = "processing", ![i].started = "fresh",
                                              ![i].attempts = @ + 1]
                         /\ held' = [held EXCEPT ![w] = i]
    BY <1>4 DEF Claim
  <2>2. /\ i \in Jobs /\ job[i].status = "pending" /\ job[i] \in Job /\ job[i].attempts \in Nat
    BY <1>0, JobFacts DEF Due, Statuses, Active, Job
  <2>3. CASE i # j
    <3>1. job'[j] = job[j] /\ job[j] \in Job /\ job[j].attempts \in Nat
      BY <1>0, <2>1, <2>3, JobFacts DEF Job
    <3>2. Cardinality(Tokens(j)') <= Cardinality(Tokens(j))
      BY <1>0, <1>1, <3>1, TokensShrink, FS_Subset
    <3>3. Queued(j)' = Queued(j)
      BY <3>1 DEF Queued
    <3>4. job[j].attempts + Cardinality(Tokens(j)) + Queued(j) <= MaxAttempts + Cardinality(Workers) - 1
      BY <3>1 DEF BudgetInv
    <3>. QED BY <1>0, <1>1, <1>2, <3>1, <3>2, <3>3, <3>4
  <2>4. CASE i = j
    <3>1. /\ job'[j].status = "processing" /\ job'[j].attempts = job[j].attempts + 1
      BY <1>0, <2>1, <2>2, <2>4 DEF Job
    <3>2. Queued(j)' = 0 /\ Queued(j) = 1
      BY <2>2, <2>4, <3>1 DEF Queued
    <3>3. CASE job[j].attempts >= MaxAttempts
      <4>1. Cardinality(Tokens(j)') <= Cardinality(Tokens(j))
        BY <1>0, <1>1, <2>2, <2>4, <3>3, TokensShrink, FS_Subset
      <4>2. job[j].attempts + Cardinality(Tokens(j)) + Queued(j) <= MaxAttempts + Cardinality(Workers) - 1
        BY <2>2, <2>4, <3>3, JobFacts DEF BudgetInv
      <4>. QED BY <1>0, <1>1, <2>2, <2>4, <3>1, <3>2, <4>1, <4>2
    <3>4. CASE ~(job[j].attempts >= MaxAttempts)
      <4>1. w \notin Tokens(j)'
        BY <1>0, <1>4 DEF Claim, QueueInv, LoopInv, Tokens
      <4>2. Tokens(j)' \in SUBSET (Workers \ {w})
        BY <1>1, <4>1
      <4>3. IsFiniteSet(Workers \ {w}) /\ Cardinality(Workers \ {w}) = Cardinality(Workers) - 1
        BY FS_RemoveElement
      <4>4. Cardinality(Tokens(j)') <= Cardinality(Workers) - 1
        BY <4>2, <4>3, FS_Subset
      <4>5. job'[j].attempts = MaxAttempts
        BY <1>0, <2>2, <2>4, <3>1, <3>4
      <4>. QED BY <1>0, <1>1, <3>2, <4>4, <4>5
    <3>. QED BY <3>3, <3>4
  <2>. QED BY <2>3, <2>4
<1>. QED BY <1>3, <1>4

\* Workers that crash, retry and requeue each other's runs give a job no more runs than
\* max_attempts, and one more for each other worker if a run of it passed the stale
\* timeout (job_service.py:84-123, 204-241, 308-343).
THEOREM AttemptsHeld ==
    ASSUME IsFiniteSet(Workers)
    PROVE  Spec => []AttemptsBounded
<1>1. Init => BudgetInv
  <2>1. Init => \A j \in Jobs : job[j] = NoJob
    BY DEF Init
  <2>. QED BY <2>1, QueueInit DEF BudgetInv
<1>2. BudgetInv /\ [Next]_vars => BudgetInv'
  BY BudgetStep
<1>3. BudgetInv => AttemptsBounded
  <2>1. SUFFICES ASSUME BudgetInv, NEW j \in Jobs, job[j] # NoJob
                 PROVE  job[j].attempts <=
                            MaxAttempts + (IF j \in aged THEN Cardinality(Workers) - 1 ELSE 0)
    BY DEF AttemptsBounded
  <2>2. /\ QueueInv /\ MaxAttempts \in Nat \ {0} /\ Cardinality(Workers) \in Nat
        /\ job[j].attempts \in Nat
    BY <2>1, AttemptsPositive, FS_CardinalityType, JobFacts DEF BudgetInv, QueueInv, TypeInv, TypeOK, Job
  <2>3. CASE j \notin aged
    BY <2>1, <2>2, <2>3 DEF QueueInv, Undisturbed, JobSound
  <2>4. CASE j \in aged /\ ~(job[j].attempts >= MaxAttempts)
    BY <2>2, <2>4
  <2>5. CASE j \in aged /\ job[j].attempts >= MaxAttempts
    <3>1. Cardinality(Tokens(j)) \in Nat
      <4>1. Tokens(j) \in SUBSET Workers
        BY DEF Tokens
      <4>. QED BY <4>1, FS_Subset, FS_CardinalityType
    <3>2. Queued(j) \in {0, 1}
      BY DEF Queued
    <3>3. job[j].attempts + Cardinality(Tokens(j)) + Queued(j) <= MaxAttempts + Cardinality(Workers) - 1
      BY <2>1, <2>5 DEF BudgetInv
    <3>. QED BY <2>2, <2>5, <3>1, <3>2, <3>3
  <2>. QED BY <2>3, <2>4, <2>5
<1>. QED BY <1>1, <1>2, <1>3, PTL DEF Spec
-----------------------------------------------------------------------------
(* The processing quota.  Each worker that goes on from the count may add   *)
(* one job to those processing, and the last of them counted within the     *)
(* limit.                                                                   *)

Claiming == {w \in Workers : wpc[w] = "claim"}

QuotaInv ==
    /\ TypeInv
    /\ IsFiniteSet(Processing)
    /\ Cardinality(Processing) + Cardinality(Claiming) <= Limit + Cardinality(Workers) - 1

\* Nothing starts processing but the job a worker claims.
LEMMA ProcessingGrowsByClaim ==
    ASSUME TypeInv, [Next]_vars, NEW j \in Processing', j \notin Processing
    PROVE  \E w \in Workers : Claim(w) /\ held' = [held EXCEPT ![w] = j]
<1>1. j \in Jobs /\ job'[j].status = "processing" /\ job[j].status # "processing"
  BY DEF Processing
<1>2. Moves(j)
  BY <1>1, TableMoves DEF Statuses, Active
<1>. QED BY <1>1, <1>2 DEF Moves

\* A worker goes on to the claim within the limit it counted.
LEMMA ClaimingGrowsByCount ==
    ASSUME TypeInv, [Next]_vars, NEW w \in Claiming', w \notin Claiming
    PROVE  job' = job /\ ~(Cardinality(Processing) + 1 > Limit)
<1>0. w \in Workers /\ wpc \in [Workers -> WPCs] /\ wpc'[w] = "claim" /\ wpc[w] # "claim"
  BY DEF Claiming, TypeInv, TypeOK
<1>1. CASE PollLimit(w)
  BY <1>0, <1>1 DEF PollLimit
<1>2. CASE Work(w) /\ ~PollLimit(w)
  BY <1>0, <1>2 DEF Work, RequeueRead, RequeueWrite, Claim, NothingDue, Refresh, Run, NoHandler, Finish
<1>3. CASE Crash(w)
  BY <1>0, <1>3 DEF Crash
<1>4. CASE (\E c \in Clients : Submit(c)) \/ (\E i \in Jobs : Time(i)) \/ UNCHANGED vars
  BY <1>0, <1>4 DEF Submit, SubmitDeduped, SubmitNew, SubmitInsert, Time, RunAges, BackoffElapses,
     vars, workers
<1>5. ASSUME NEW v \in Workers, v # w, Work(v) \/ Crash(v) PROVE wpc'[w] = wpc[w]
  BY <1>0, <1>5 DEF Work, RequeueRead, RequeueWrite, PollLimit, Claim, NothingDue, Refresh, Run,
     NoHandler, Finish, Crash
<1>. QED BY <1>0, <1>1, <1>2, <1>3, <1>4, <1>5 DEF Next

LEMMA QuotaStep ==
    ASSUME IsFiniteSet(Workers), QuotaInv, [Next]_vars
    PROVE  QuotaInv'
<1>0. /\ TypeInv /\ TypeInv' /\ IsFiniteSet(Processing) /\ wpc \in [Workers -> WPCs]
      /\ held \in [Workers -> Jobs \cup {0}]
      /\ Limit \in Nat /\ Cardinality(Workers) \in Nat /\ Cardinality(Processing) \in Nat
      /\ Cardinality(Processing) + Cardinality(Claiming) <= Limit + Cardinality(Workers) - 1
  BY TypeStep, LimitPositive, FS_CardinalityType DEF QuotaInv, TypeInv, TypeOK
<1>1. /\ IsFiniteSet(Claiming) /\ Cardinality(Claiming) \in Nat
      /\ IsFiniteSet(Claiming') /\ Cardinality(Claiming') \in Nat
      /\ Cardinality(Claiming') <= Cardinality(Workers)
  <2>1. Claiming \in SUBSET Workers /\ Claiming' \in SUBSET Workers
    BY DEF Claiming
  <2>. QED BY <2>1, FS_Subset, FS_CardinalityType
<1>2. CASE \E w \in Workers : Claim(w)
  <2>1. PICK w \in Workers : Claim(w)
    BY <1>2
  <2>2. PICK j \in Due : held' = [held EXCEPT ![w] = j]
    BY <2>1 DEF Claim
  <2>3. Processing' \subseteq Processing \cup {j}
    <3>1. ASSUME NEW i \in Processing', i \notin Processing PROVE i = j
      <4>1. PICK v \in Workers : Claim(v) /\ held' = [held EXCEPT ![v] = i]
        BY <1>0, <3>1, ProcessingGrowsByClaim
      <4>2. v = w
        BY <1>0, <2>1, <4>1 DEF Claim
      <4>. QED BY <1>0, <2>2, <4>1, <4>2
    <3>. QED BY <3>1
  <2>4. /\ IsFiniteSet(Processing \cup {j})
        /\ Cardinality(Processing \cup {j}) =
              IF j \in Processing THEN Cardinality(Processing) ELSE Cardinality(Processing) + 1
    BY <1>0, FS_AddElement
  <2>5. IsFiniteSet(Processing') /\ Cardinality(Processing') <= Cardinality(Processing) + 1
    <3>1. IsFiniteSet(Processing') /\ Cardinality(Processing') <= Cardinality(Processing \cup {j})
      BY <2>3, <2>4, FS_Subset
    <3>2. Cardinality(Processing') \in Nat
      BY <3>1, FS_CardinalityType
    <3>. QED BY <1>0, <2>4, <3>1, <3>2
  <2>6. Cardinality(Claiming') = Cardinality(Claiming) - 1
    <3>1. Claiming' = Claiming \ {w} /\ w \in Claiming
      BY <1>0, <2>1 DEF Claim, Claiming
    <3>. QED BY <1>1, <3>1, FS_RemoveElement
  <2>7. Cardinality(Processing') \in Nat
    BY <2>5, FS_CardinalityType
  <2>. QED BY <1>0, <1>1, <2>5, <2>6, <2>7 DEF QuotaInv
<1>3. CASE \A w \in Workers : ~Claim(w)
  <2>1. Processing' \subseteq Processing
    BY <1>0, <1>3, ProcessingGrowsByClaim
  <2>2. /\ IsFiniteSet(Processing') /\ Cardinality(Processing') \in Nat
        /\ Cardinality(Processing') <= Cardinality(Processing)
    BY <1>0, <2>1, FS_Subset, FS_CardinalityType
  <2>3. CASE Claiming' \subseteq Claiming
    <3>1. Cardinality(Claiming') <= Cardinality(Claiming)
      BY <1>1, <2>3, FS_Subset
    <3>. QED BY <1>0, <1>1, <2>2, <3>1 DEF QuotaInv
  <2>4. ASSUME NEW w \in Claiming', w \notin Claiming PROVE QuotaInv'
    <3>1. ~(Cardinality(Processing) + 1 > Limit)
      BY <1>0, <2>4, ClaimingGrowsByCount
    <3>. QED BY <1>0, <1>1, <2>2, <3>1 DEF QuotaInv
  <2>. QED BY <2>3, <2>4
<1>. QED BY <1>2, <1>3

LEMMA QuotaInit ==
    ASSUME IsFiniteSet(Workers), Init
    PROVE  QuotaInv
<1>1. Processing = {} /\ Claiming = {}
  BY DEF Init, Processing, Claiming, NoJob
<1>2. IsFiniteSet({}) /\ Cardinality({}) = 0 /\ Cardinality(Workers) \in Nat
  BY FS_EmptySet, FS_CardinalityType
<1>3. 0 + 0 <= Limit + Cardinality(Workers) - 1
  BY <1>2, LimitPositive
<1>. QED BY <1>1, <1>2, <1>3, TypeInit DEF QuotaInv

LEMMA QuotaBounds ==
    ASSUME IsFiniteSet(Workers), QuotaInv
    PROVE  LimitKept
<1>1. Claiming \in SUBSET Workers
  BY DEF Claiming
<1>2. Cardinality(Claiming) \in Nat /\ Cardinality(Workers) \in Nat /\ Cardinality(Processing) \in Nat
  BY <1>1, FS_Subset, FS_CardinalityType DEF QuotaInv
<1>. QED BY <1>2, LimitPositive DEF QuotaInv, LimitKept

\* The quota holds but for the workers that counted before another's claim, whatever they
\* crash in and requeue (job_service.py:84-123, 395-408).
THEOREM QuotaHeld ==
    ASSUME IsFiniteSet(Workers)
    PROVE  Spec => []LimitKept
<1>. QED BY QuotaInit, QuotaStep, QuotaBounds, PTL DEF Spec

-----------------------------------------------------------------------------
(* The dedupe keys.  Each request that goes on from the query may insert a   *)
(* job, and the last of them found none.                                     *)

\* The jobs DedupeUnique counts, and the clients about to add one.
Alive(k) == {j \in Undisturbed : job[j].status \in Active /\ job[j].key = k}
Inserting(k) == {c \in Clients : cpc[c] = "insert" /\ request[c].key = k}

KeyInv ==
    /\ QueueInv
    /\ \A k \in Keys : /\ IsFiniteSet(Alive(k))
                       /\ Cardinality(Alive(k)) + Cardinality(Inserting(k)) <= Cardinality(Clients)

\* An undisturbed job becomes an active job of its key by being inserted.
LEMMA AliveGrowsByInsert ==
    ASSUME QueueInv, [Next]_vars, NEW k \in Keys, NEW j \in Alive(k)', j \notin Alive(k)
    PROVE  Enters(j) /\ job'[j].key = k
<1>1. /\ j \in Undisturbed' /\ job'[j].status \in Active /\ job'[j].key = k
      /\ Undisturbed' \subseteq Undisturbed
  BY UndisturbedShrinks DEF Alive
<1>2. CASE Kept(j)
  <2>1. job[j].status \in Active
    BY <1>1, <1>2 DEF Kept
  <2>2. job[j] # NoJob
    BY <2>1 DEF NoJob, Active
  <2>. QED BY <1>1, <1>2, <2>1, <2>2 DEF Kept, Alive
<1>3. CASE Taken(j) \/ Returned(j)
  BY <1>1, <1>3 DEF Taken, Returned, Active, Alive
<1>. QED BY <1>1, <1>2, <1>3, JobMoves

\* A client is about to insert because it found no active job of the key.
LEMMA InsertingGrowsByQuery ==
    ASSUME TypeInv, [Next]_vars, NEW k \in Keys, NEW c \in Inserting(k)', c \notin Inserting(k)
    PROVE  UNCHANGED <<job, aged>> /\ SameKeyActive(k) = {}
<1>0. /\ c \in Clients /\ cpc \in [Clients -> {"idle", "insert"}] /\ request \in [Clients -> Submissions]
      /\ cpc'[c] = "insert" /\ request'[c].key = k
  BY DEF Inserting, TypeInv, TypeOK
<1>1. CASE SubmitNew(c)
  BY <1>0, <1>1 DEF SubmitNew
<1>2. CASE SubmitDeduped(c) \/ SubmitInsert(c)
  BY <1>0, <1>2 DEF SubmitDeduped, SubmitInsert
<1>3. CASE UNCHANGED <<cpc[c], request[c]>>
  BY <1>0, <1>3 DEF Inserting
<1>4. ASSUME NEW b \in Clients, b # c, Submit(b) PROVE UNCHANGED <<cpc[c], request[c]>>
  BY <1>0, <1>4 DEF Submit, SubmitDeduped, SubmitNew, SubmitInsert
<1>5. CASE (\E w \in Workers : Work(w) \/ Crash(w)) \/ (\E i \in Jobs : Time(i)) \/ UNCHANGED vars
  BY <1>3, <1>5 DEF Work, RequeueRead, RequeueWrite, PollLimit, Claim, NothingDue, Refresh, Run,
     NoHandler, Finish, Crash, Time, RunAges, BackoffElapses, vars, clients
<1>. QED BY <1>1, <1>2, <1>3, <1>4, <1>5 DEF Next, Submit

LEMMA KeyStep ==
    ASSUME IsFiniteSet(Clients), KeyInv, [Next]_vars
    PROVE  KeyInv'
<1>0. /\ QueueInv /\ QueueInv' /\ TypeInv /\ Cardinality(Clients) \in Nat
      /\ cpc \in [Clients -> {"idle", "insert"}] /\ request \in [Clients -> Submissions]
      /\ job \in [Jobs -> Job \cup {NoJob}]
  BY QueueStep, FS_CardinalityType DEF KeyInv, QueueInv, TypeInv, TypeOK
<1>. SUFFICES ASSUME NEW k \in Keys
              PROVE  /\ IsFiniteSet(Alive(k)')
                     /\ Cardinality(Alive(k)') + Cardinality(Inserting(k)') <= Cardinality(Clients)
  BY <1>0 DEF KeyInv, Alive, Inserting, Undisturbed
<1>1. /\ IsFiniteSet(Alive(k)) /\ Cardinality(Alive(k)) \in Nat
      /\ Cardinality(Alive(k)) + Cardinality(Inserting(k)) <= Cardinality(Clients)
  BY FS_CardinalityType DEF KeyInv
<1>2. /\ IsFiniteSet(Inserting(k)) /\ Cardinality(Inserting(k)) \in Nat
      /\ IsFiniteSet(Inserting(k)') /\ Cardinality(Inserting(k)') \in Nat
      /\ Cardinality(Inserting(k)') <= Cardinality(Clients)
  <2>1. Inserting(k) \in SUBSET Clients /\ Inserting(k)' \in SUBSET Clients
    BY DEF Inserting
  <2>. QED BY <2>1, FS_Subset, FS_CardinalityType
<1>3. ASSUME Alive(k)' \subseteq Alive(k), Inserting(k)' \subseteq Inserting(k)
      PROVE  /\ IsFiniteSet(Alive(k)')
             /\ Cardinality(Alive(k)') + Cardinality(Inserting(k)') <= Cardinality(Clients)
  <2>1. IsFiniteSet(Alive(k)') /\ Cardinality(Alive(k)') <= Cardinality(Alive(k))
    BY <1>1, <1>3, FS_Subset
  <2>2. Cardinality(Inserting(k)') <= Cardinality(Inserting(k))
    BY <1>2, <1>3, FS_Subset
  <2>3. Cardinality(Alive(k)') \in Nat
    BY <2>1, FS_CardinalityType
  <2>. QED BY <1>0, <1>1, <1>2, <2>1, <2>2, <2>3
<1>4. ASSUME NEW c \in Inserting(k)', c \notin Inserting(k)
      PROVE  /\ IsFiniteSet(Alive(k)')
             /\ Cardinality(Alive(k)') + Cardinality(Inserting(k)') <= Cardinality(Clients)
  <2>1. UNCHANGED <<job, aged>> /\ SameKeyActive(k) = {}
    BY <1>0, <1>4, InsertingGrowsByQuery
  <2>2. Alive(k)' = {}
    BY <2>1 DEF Alive, Undisturbed, SameKeyActive
  <2>3. IsFiniteSet(Alive(k)') /\ Cardinality(Alive(k)') = 0
    BY <2>2, FS_EmptySet
  <2>. QED BY <1>0, <1>2, <2>3
<1>5. ASSUME NEW j \in Alive(k)', j \notin Alive(k), Inserting(k)' \subseteq Inserting(k)
      PROVE  /\ IsFiniteSet(Alive(k)')
             /\ Cardinality(Alive(k)') + Cardinality(Inserting(k)') <= Cardinality(Clients)
  <2>1. Enters(j) /\ job'[j].key = k
    BY <1>0, <1>5, AliveGrowsByInsert
  <2>2. PICK c \in Clients : SubmitInsert(c) /\ request[c].key = k
    BY <2>1 DEF Enters
  <2>3. PICK l \in Free : \A i \in Jobs \ {l} : job'[i] = job[i]
    <3>1. job' # job
      BY <2>1 DEF Enters, NoJob
    <3>. QED BY <1>0, <2>2, <3>1 DEF SubmitInsert
  <2>4. Alive(k)' \subseteq Alive(k) \cup {l}
    <3>1. ASSUME NEW i \in Alive(k)', i \notin Alive(k) PROVE i = l
      <4>1. Enters(i) /\ i \in Jobs
        BY <1>0, <3>1, AliveGrowsByInsert DEF Alive, Undisturbed
      <4>2. job'[i] # job[i]
        BY <4>1 DEF Enters, NoJob
      <4>. QED BY <2>3, <4>1, <4>2
    <3>. QED BY <3>1
  <2>5. /\ IsFiniteSet(Alive(k) \cup {l})
        /\ Cardinality(Alive(k) \cup {l}) =
              IF l \in Alive(k) THEN Cardinality(Alive(k)) ELSE Cardinality(Alive(k)) + 1
    BY <1>1, FS_AddElement
  <2>6. IsFiniteSet(Alive(k)') /\ Cardinality(Alive(k)') <= Cardinality(Alive(k) \cup {l})
    BY <2>4, <2>5, FS_Subset
  <2>7. Cardinality(Alive(k)') \in Nat
    BY <2>6, FS_CardinalityType
  <2>8. Cardinality(Inserting(k)') <= Cardinality(Inserting(k)) - 1
    <3>1. c \in Inserting(k) /\ c \notin Inserting(k)'
      BY <1>0, <2>2 DEF SubmitInsert, Inserting
    <3>2. Inserting(k)' \in SUBSET (Inserting(k) \ {c})
      BY <1>5, <3>1
    <3>3. IsFiniteSet(Inserting(k) \ {c}) /\ Cardinality(Inserting(k) \ {c}) = Cardinality(Inserting(k)) - 1
      BY <1>2, <3>1, FS_RemoveElement
    <3>. QED BY <3>2, <3>3, FS_Subset
  <2>. QED BY <1>0, <1>1, <1>2, <2>5, <2>6, <2>7, <2>8
<1>. QED BY <1>3, <1>4, <1>5

LEMMA KeyInit ==
    ASSUME IsFiniteSet(Clients), Init
    PROVE  KeyInv
<1>1. \A k \in Keys : Alive(k) = {} /\ Inserting(k) = {}
  BY DEF Init, Alive, Inserting, Undisturbed, NoJob, Active
<1>2. IsFiniteSet({}) /\ Cardinality({}) = 0 /\ Cardinality(Clients) \in Nat
  BY FS_EmptySet, FS_CardinalityType
<1>3. 0 + 0 <= Cardinality(Clients)
  BY <1>2
<1>. QED BY <1>1, <1>2, <1>3, QueueInit DEF KeyInv

LEMMA KeyBounds ==
    ASSUME IsFiniteSet(Clients), KeyInv
    PROVE  DedupeUnique
<1>1. SUFFICES ASSUME NEW k \in Keys PROVE Cardinality(Alive(k)) <= Cardinality(Clients)
  BY DEF DedupeUnique, Alive
<1>2. Inserting(k) \in SUBSET Clients
  BY DEF Inserting
<1>3. Cardinality(Inserting(k)) \in Nat /\ Cardinality(Alive(k)) \in Nat /\ Cardinality(Clients) \in Nat
  BY <1>2, FS_Subset, FS_CardinalityType DEF KeyInv
<1>. QED BY <1>3 DEF KeyInv

\* A dedupe key never has more active jobs than there are clients whose requests can
\* overlap, through retries, crashes and requeues of undisturbed jobs
\* (job_service.py:42-82).
THEOREM DedupeHeld ==
    ASSUME IsFiniteSet(Clients)
    PROVE  Spec => []DedupeUnique
<1>. QED BY KeyInit, KeyStep, KeyBounds, PTL DEF Spec
=============================================================================
