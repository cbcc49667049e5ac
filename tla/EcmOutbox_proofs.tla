--------------------------- MODULE EcmOutbox_proofs ---------------------------
(***************************************************************************)
(* Proofs about EcmOutbox, for every value of its constants.               *)
(***************************************************************************)
EXTENDS EcmOutbox, TLAPS

-----------------------------------------------------------------------------
(* Type correctness.  A worker writes attributes of its copies into the     *)
(* table, so the copies it may still use have to be rows.                   *)

Busy(w) == pc[w] \in {"checked", "ready", "done"}

\* The row a worker is busy with is a row it has a copy of, and has left its
\* batch; the rows still in the batch have copies unless a rollback took them.
CopiesOK ==
    \A w \in Workers :
        /\ Busy(w) => cur[w] \in Rows /\ mem[w][cur[w]] \in Row /\ cur[w] \notin queue[w]
        /\ \A r \in queue[w] : expired[w] \/ mem[w][r] \in Row

TypeInv == TypeOK /\ CopiesOK

LEMMA RowFacts ==
    /\ NoRow \notin Row
    /\ \A x \in Row : x # NoRow /\ x.state \in States /\ x.attempts \in Nat
    /\ \A x \in Row \cup {NoRow} : x # NoRow => x \in Row
    /\ \A x \in Row \cup {NoRow} : x.state \in States => x \in Row
  BY DEF Row, NoRow, States

\* What the helpers write is a row.
LEMMA HelpersGiveRows ==
    /\ \A fp \in Fps : NewRow(fp) \in Row
    /\ \A x \in Row, fp \in Fps : Reenqueued(x, fp) \in Row
    /\ \A x \in Row, y \in Row : Skipped(x, y) \in Row
    /\ \A x \in Row, y \in Row, why \in Reasons : Result(x, y, why) \in Row
    /\ \A x \in Row : Deferred(x) \in Row
    /\ \A x \in Row, c \in {"none", "fresh", "stale"} : [x EXCEPT !.claim = c] \in Row
<1>1. \A fp \in Fps : NewRow(fp) \in Row
  BY DEF NewRow, Row, States, Reasons
<1>2. \A x \in Row, fp \in Fps : Reenqueued(x, fp) \in Row
  BY DEF Reenqueued, Row, States, Reasons
<1>3. ASSUME NEW x \in Row, NEW y \in Row PROVE Skipped(x, y) \in Row
  BY DEF Skipped, Row, States, Reasons
<1>4. ASSUME NEW x \in Row, NEW y \in Row, NEW why \in Reasons PROVE Result(x, y, why) \in Row
  <2>1. Sent(x, y) \in Row
    BY DEF Sent, Row, States
  <2>2. Failed(x, y, why) \in Row
    BY DEF Failed, Row, States
  <2>3. Rescheduled(x, y, why) \in Row
    BY <2>2 DEF Rescheduled, Row, States, Reasons, NoReason
  <2>. QED BY <2>1, <2>2, <2>3 DEF Result
<1>5. ASSUME NEW x \in Row PROVE Deferred(x) \in Row
  <2>. DEFINE y == [x EXCEPT !.attempts = @ + 1, !.claim = "none"]
  <2>1. y \in Row
    <3>1. ASSUME NEW n \in Nat PROVE [x EXCEPT !.attempts = n, !.claim = "none"] \in Row
      BY DEF Row
    <3>2. x.attempts + 1 \in Nat
      BY DEF Row
    <3>. QED BY <3>1, <3>2
  <2>2. "remote_error" \in Reasons /\ "failed" \in States
    BY DEF Reasons, Retryable, States
  <2>3. [y EXCEPT !.state = "failed", !.reason = "remote_error"] \in Row
    BY <2>1, <2>2 DEF Row
  <2>4. [y EXCEPT !.due = FALSE] \in Row
    BY <2>1 DEF Row
  <2>. QED BY <2>3, <2>4 DEF Deferred
<1>6. ASSUME NEW x \in Row, NEW c \in {"none", "fresh", "stale"}
      PROVE  [x EXCEPT !.claim = c] \in Row
  BY DEF Row
<1>. QED BY <1>1, <1>2, <1>3, <1>4, <1>5, <1>6

LEMMA TypeInit == Init => TypeInv
  BY BoundsAreNat DEF Init, TypeInv, TypeOK, CopiesOK, Busy, NoRow, PCs, Reasons, Retryable, Lineages

LEMMA CountedIsRow ==
    ASSUME NEW x \in Row PROVE [x EXCEPT !.attempts = @ + 1] \in Row
  BY DEF Row

\* Going on with the batch keeps the worker's own variables in order.
LEMMA LeaveRow ==
    ASSUME TypeInv, NEW w \in Workers, NEW r \in Rows, NextInBatch(w, r),
           (Busy(w) /\ r = cur[w]) \/ pc[w] = "batch"
    PROVE  /\ pc' \in [Workers -> PCs]
           /\ queue' \in [Workers -> SUBSET Rows]
           /\ cur' \in [Workers -> Rows \cup {0}]
           /\ mem' \in [Workers -> [Rows -> Row \cup {NoRow}]]
           /\ expired' \in [Workers -> BOOLEAN]
           /\ outcome' \in [Workers -> Reasons]
           /\ UNCHANGED <<released, content, found, cached, enabled>>
           /\ CopiesOK'
<1>1. mem' \in [Workers -> [Rows -> Row \cup {NoRow}]]
  BY DEF NextInBatch, TypeInv, TypeOK
<1>2. \A s \in queue'[w] : expired'[w] \/ mem'[w][s] \in Row
  BY DEF NextInBatch, TypeInv, TypeOK, CopiesOK
<1>. QED BY <1>1, <1>2 DEF NextInBatch, TypeInv, TypeOK, CopiesOK, Busy, PCs, Reasons

\* Every step keeps the types and the copies.
LEMMA TypeStep == TypeInv /\ [Next]_vars => TypeInv'
<1>. SUFFICES ASSUME TypeInv, [Next]_vars PROVE TypeInv'
  OBVIOUS
<1>. USE RowFacts DEF TypeInv
<1>1. ASSUME NEW w \in Workers, ReclaimRead(w) PROVE TypeInv'
  BY <1>1 DEF ReclaimRead, TypeOK, CopiesOK, Busy, PCs, remote, bounds
<1>2. ASSUME NEW w \in Workers, ReclaimWrite(w) PROVE TypeInv'
  <2>1. row' \in [Rows -> Row \cup {NoRow}]
    BY <1>2, HelpersGiveRows DEF ReclaimWrite, TypeOK, Present
  <2>. QED BY <1>2, <2>1 DEF ReclaimWrite, TypeOK, CopiesOK, Busy, PCs, remote, bounds
<1>3. ASSUME NEW w \in Workers, ClaimBatch(w) PROVE TypeInv'
  <2>. DEFINE due == IF cached[w] THEN {r \in Rows : Claimable(r)} ELSE {}
  <2>0. \A r \in due : row[r] \in Row
    BY DEF Claimable, TypeOK, States
  <2>1. PICK batch \in SUBSET due :
            /\ row' = [r \in Rows |-> IF r \in batch
                                     THEN [row[r] EXCEPT !.claim = "fresh"] ELSE row[r]]
            /\ queue' = [queue EXCEPT ![w] = batch]
            /\ mem' = [mem EXCEPT ![w] = [r \in Rows |-> IF r \in batch THEN row'[r] ELSE NoRow]]
            /\ pc' = [pc EXCEPT ![w] = IF batch = {} THEN "idle" ELSE "batch"]
    BY <1>3 DEF ClaimBatch
  <2>2. batch \subseteq Rows /\ \A r \in batch : row'[r] \in Row
    BY <2>0, <2>1, HelpersGiveRows
  <2>3. row' \in [Rows -> Row \cup {NoRow}]
    BY <2>1, <2>2 DEF TypeOK
  <2>4. mem' \in [Workers -> [Rows -> Row \cup {NoRow}]]
    BY <2>1, <2>2 DEF TypeOK
  <2>. QED BY <1>3, <2>1, <2>2, <2>3, <2>4 DEF ClaimBatch, TypeOK, CopiesOK, Busy, PCs, remote, bounds
<1>4. ASSUME NEW w \in Workers, SkipRow(w) PROVE TypeInv'
  <2>1. PICK r \in queue[w] :
            /\ Present(r)
            /\ row' = [row EXCEPT ![r] = [Skipped(@, Copy(w, r)) EXCEPT !.claim = "none"]]
            /\ NextInBatch(w, r)
    BY <1>4 DEF SkipRow
  <2>2. r \in Rows /\ row[r] \in Row /\ Copy(w, r) \in Row
    BY <2>1 DEF TypeOK, CopiesOK, Present, Copy
  <2>3. row' \in [Rows -> Row \cup {NoRow}]
    BY <2>1, <2>2, HelpersGiveRows DEF TypeOK
  <2>4. pc[w] = "batch"
    BY <1>4 DEF SkipRow
  <2>. QED BY <1>4, <2>1, <2>2, <2>3, <2>4, LeaveRow DEF SkipRow, TypeOK, remote, bounds
<1>5. ASSUME NEW w \in Workers, CheckRow(w) PROVE TypeInv'
  <2>1. PICK r \in queue[w] :
            /\ Present(r) \/ ~expired[w]
            /\ mem' = [mem EXCEPT ![w][r] = Copy(w, r)]
            /\ queue' = [queue EXCEPT ![w] = @ \ {r}]
            /\ cur' = [cur EXCEPT ![w] = r]
    BY <1>5 DEF CheckRow
  <2>2. r \in Rows /\ Copy(w, r) \in Row
    BY <2>1 DEF TypeOK, CopiesOK, Present, Copy
  <2>3. mem' \in [Workers -> [Rows -> Row \cup {NoRow}]]
    BY <2>1, <2>2 DEF TypeOK
  <2>. QED BY <1>5, <2>1, <2>2, <2>3 DEF CheckRow, TypeOK, CopiesOK, Busy, PCs, remote, bounds
<1>6. ASSUME NEW w \in Workers, AbortTick(w) PROVE TypeInv'
  BY <1>6 DEF AbortTick, TypeOK, CopiesOK, Busy, PCs, remote, bounds
<1>7. ASSUME NEW w \in Workers, RevalidateRejects(w) PROVE TypeInv'
  <2>1. cur[w] \in Rows /\ mem[w][cur[w]] \in Row /\ row[cur[w]] \in Row
    BY <1>7 DEF RevalidateRejects, TypeOK, CopiesOK, Busy, Present
  <2>2. row' \in [Rows -> Row \cup {NoRow}]
    BY <1>7, <2>1, HelpersGiveRows DEF RevalidateRejects, TypeOK
  <2>3. NextInBatch(w, cur[w]) /\ Busy(w)
    BY <1>7 DEF RevalidateRejects, Busy
  <2>. QED BY <1>7, <2>1, <2>2, <2>3, LeaveRow DEF RevalidateRejects, TypeOK, remote, bounds
<1>8. ASSUME NEW w \in Workers, Prepare(w) PROVE TypeInv'
  <2>1. cur[w] \in Rows /\ mem[w][cur[w]] \in Row
    BY <1>8 DEF Prepare, CopiesOK, Busy
  <2>2. [mem[w][cur[w]] EXCEPT !.attempts = @ + 1] \in Row
    BY <2>1, CountedIsRow
  <2>3. mem' \in [Workers -> [Rows -> Row \cup {NoRow}]] /\ mem'[w][cur[w]] \in Row
    BY <1>8, <2>1, <2>2 DEF Prepare, TypeOK
  <2>. QED BY <1>8, <2>1, <2>2, <2>3 DEF Prepare, TypeOK, CopiesOK, Busy, PCs, remote, bounds
<1>9. ASSUME NEW w \in Workers, PrepareFails(w) PROVE TypeInv'
  <2>1. cur[w] \in Rows /\ mem[w][cur[w]] \in Row
    BY <1>9 DEF PrepareFails, CopiesOK, Busy
  <2>2. PICK why \in {"adapter_error", "validation_error"} :
            /\ outcome' = [outcome EXCEPT ![w] = why]
            /\ mem' = [mem EXCEPT ![w][cur[w]].attempts =
                          IF why = "adapter_error" THEN @ + 1 ELSE @]
    BY <1>9 DEF PrepareFails
  <2>3. mem' \in [Workers -> [Rows -> Row \cup {NoRow}]] /\ mem'[w][cur[w]] \in Row
    <3>1. CASE why = "adapter_error"
      <4>1. [mem[w][cur[w]] EXCEPT !.attempts = @ + 1] \in Row
        BY <2>1, CountedIsRow
      <4>. QED BY <2>1, <2>2, <3>1, <4>1 DEF TypeOK
    <3>2. CASE why # "adapter_error"
      <4>1. [mem[w][cur[w]] EXCEPT !.attempts = @] \in Row
        BY <2>1 DEF Row
      <4>. QED BY <2>1, <2>2, <3>2, <4>1 DEF TypeOK
    <3>. QED BY <3>1, <3>2
  <2>4. outcome' \in [Workers -> Reasons]
    BY <2>2 DEF TypeOK, Reasons, Retryable
  <2>5. /\ pc' = [pc EXCEPT ![w] = "done"]
        /\ UNCHANGED <<row, released, content, queue, cur, found, expired, cached,
                       enabled, remote, bounds>>
    BY <1>9 DEF PrepareFails
  <2>6. /\ \A v \in Workers : v # w => mem'[v] = mem[v]
        /\ \A r \in Rows : r # cur[w] => mem'[w][r] = mem[w][r]
    BY <2>1, <2>2 DEF TypeOK
  <2>7. TypeOK'
    BY <2>3, <2>4, <2>5 DEF TypeOK, PCs, remote, bounds
  <2>8. CopiesOK'
    BY <1>9, <2>1, <2>3, <2>5, <2>6 DEF PrepareFails, TypeOK, CopiesOK, Busy
  <2>. QED BY <2>7, <2>8
<1>10. ASSUME NEW w \in Workers, Send(w) PROVE TypeInv'
  <2>1. cur[w] \in Rows /\ mem[w][cur[w]] \in Row
    BY <1>10 DEF Send, CopiesOK, Busy
  <2>2. mem[w][cur[w]].fp \in Fps /\ Lineage[cur[w]] \in Lineages
    BY <2>1 DEF Row, Lineages
  <2>3. doc' \in [Lineages -> Rows \cup {0}]
    BY <1>10, <2>1, <2>2 DEF Send, TypeOK
  <2>6. acked' \subseteq Rows
    BY <1>10, <2>1 DEF Send, TypeOK
  <2>4. outcome' \in [Workers -> Reasons]
    BY <1>10 DEF Send, TypeOK, Reasons, Retryable
  <2>5. sends' \in [Rows -> Nat]
    BY <1>10, <2>1 DEF Send, TypeOK
  <2>. QED BY <1>10, <2>1, <2>3, <2>4, <2>5, <2>6 DEF Send, TypeOK, CopiesOK, Busy, PCs, bounds
<1>11. ASSUME NEW w \in Workers, Commit(w) PROVE TypeInv'
  <2>1. cur[w] \in Rows /\ mem[w][cur[w]] \in Row /\ row[cur[w]] \in Row
    BY <1>11 DEF Commit, TypeOK, CopiesOK, Busy, Present
  <2>2. row' \in [Rows -> Row \cup {NoRow}]
    BY <1>11, <2>1, HelpersGiveRows DEF Commit, TypeOK
  <2>3. everSent' \subseteq Rows
    BY <1>11, <2>1 DEF Commit, TypeOK
  <2>4. NextInBatch(w, cur[w]) /\ Busy(w)
    BY <1>11 DEF Commit, Busy
  <2>. QED BY <1>11, <2>1, <2>2, <2>3, <2>4, LeaveRow DEF Commit, TypeOK, bounds
<1>12. ASSUME NEW w \in Workers, ProcessRaises(w) PROVE TypeInv'
  <2>1. cur[w] \in Rows
    BY <1>12 DEF ProcessRaises, CopiesOK, Busy
  <2>2. row' \in [Rows -> Row \cup {NoRow}]
    BY <1>12, <2>1, HelpersGiveRows DEF ProcessRaises, TypeOK, Present
  <2>. QED BY <1>12, <2>2 DEF ProcessRaises, TypeOK, CopiesOK, Busy, PCs, Reasons, remote, bounds
<1>13. ASSUME NEW w \in Workers, Crash(w) PROVE TypeInv'
  BY <1>13 DEF Crash, TypeOK, CopiesOK, Busy, PCs, Reasons, remote
<1>14. ASSUME NEW r \in Rows, Release(r) PROVE TypeInv'
  <2>1. row' \in [Rows -> Row \cup {NoRow}]
    BY <1>14, HelpersGiveRows DEF Release, TypeOK
  <2>. QED BY <1>14, <2>1 DEF Release, TypeOK, CopiesOK, Busy, local, remote, bounds
<1>15. ASSUME NEW r \in Rows, RacingRelease(r) PROVE TypeInv'
  <2>1. row' \in [Rows -> Row \cup {NoRow}]
    BY <1>15, HelpersGiveRows DEF RacingRelease, TypeOK, Present
  <2>. QED BY <1>15, <2>1 DEF RacingRelease, TypeOK, CopiesOK, Busy, local, remote, bounds
<1>16. ASSUME NEW r \in Rows, FileChanges(r) PROVE TypeInv'
  BY <1>16 DEF FileChanges, TypeOK, CopiesOK, Busy, local, remote, bounds
<1>17. ASSUME NEW r \in Rows, Replay(r) PROVE TypeInv'
  <2>1. row' \in [Rows -> Row \cup {NoRow}]
    <3>1. row[r] \in Row
      BY <1>17 DEF Replay, TypeOK, States
    <3>2. ASSUME NEW x \in Row
          PROVE  [x EXCEPT !.state = "pending", !.reason = NoReason, !.attempts = 0,
                           !.claim = "none", !.due = TRUE] \in Row
      BY DEF Row, States, Reasons
    <3>. QED BY <1>17, <3>1, <3>2 DEF Replay, TypeOK
  <2>. QED BY <1>17, <2>1 DEF Replay, TypeOK, CopiesOK, Busy, local
<1>18. ASSUME NEW r \in Rows, Prune(r) PROVE TypeInv'
  BY <1>18 DEF Prune, TypeOK, CopiesOK, Busy, local, remote, bounds
<1>19. ASSUME NEW r \in Rows, ClaimAges(r) PROVE TypeInv'
  <2>1. row' \in [Rows -> Row \cup {NoRow}]
    <3>1. row[r] \in Row
      BY <1>19 DEF ClaimAges, TypeOK, States
    <3>. QED BY <1>19, <3>1, HelpersGiveRows DEF ClaimAges, TypeOK
  <2>. QED BY <1>19, <2>1 DEF ClaimAges, TypeOK, CopiesOK, Busy, local, remote, bounds
<1>20. ASSUME NEW r \in Rows, BackoffElapses(r) PROVE TypeInv'
  <2>1. row' \in [Rows -> Row \cup {NoRow}]
    <3>1. row[r] \in Row
      BY <1>20 DEF BackoffElapses, TypeOK, States
    <3>2. ASSUME NEW x \in Row PROVE [x EXCEPT !.due = TRUE] \in Row
      BY DEF Row
    <3>. QED BY <1>20, <3>1, <3>2 DEF BackoffElapses, TypeOK
  <2>. QED BY <1>20, <2>1 DEF BackoffElapses, TypeOK, CopiesOK, Busy, local, remote, bounds
<1>21. CASE SwitchOff
  BY <1>21 DEF SwitchOff, TypeOK, CopiesOK, Busy, local, remote, bounds
<1>22. CASE UNCHANGED vars
  BY <1>22 DEF vars, TypeOK, CopiesOK, Busy, local, remote, bounds
<1>. QED
  BY <1>1, <1>2, <1>3, <1>4, <1>5, <1>6, <1>7, <1>8, <1>9, <1>10, <1>11, <1>12, <1>13,
     <1>14, <1>15, <1>16, <1>17, <1>18, <1>19, <1>20, <1>21, <1>22 DEF Next, Tick, Time

\* Every column of the outbox and every variable of a worker keeps its type, with
\* the copies the workers write back included.
THEOREM TypeCorrect == Spec => []TypeOK
<1>1. Spec => []TypeInv
  BY TypeInit, TypeStep, PTL DEF Spec
<1>2. TypeInv => TypeOK
  BY DEF TypeInv
<1>. QED BY <1>1, <1>2, PTL

-----------------------------------------------------------------------------
(* SENT is only recorded for what Athena acknowledged.                       *)

\* Which helpers can make a row SENT.
LEMMA HelperStates ==
    /\ \A fp \in Fps : NewRow(fp).state = "pending"
    /\ \A x \in Row, fp \in Fps : Reenqueued(x, fp).state = "sent" => x.state = "sent"
    /\ \A x \in Row, y \in Row : Skipped(x, y).state = "skipped"
    /\ \A x \in Row, y \in Row, why \in Reasons :
            /\ why = NoReason => Result(x, y, why).state = "sent"
            /\ why # NoReason => Result(x, y, why).state # "sent"
    /\ \A x \in Row : Deferred(x).state = "sent" => x.state = "sent"
<1>1. ASSUME NEW x \in Row, NEW y \in Row PROVE Skipped(x, y).state = "skipped"
  BY DEF Skipped, Row
<1>2. ASSUME NEW x \in Row, NEW y \in Row, NEW why \in Reasons
      PROVE  /\ why = NoReason => Result(x, y, why).state = "sent"
             /\ why # NoReason => Result(x, y, why).state # "sent"
  <2>1. Sent(x, y).state = "sent"
    BY DEF Sent, Row
  <2>2. Failed(x, y, why).state = "failed"
    BY DEF Failed, Row
  <2>3. Rescheduled(x, y, why).state # "sent"
    BY <2>2 DEF Rescheduled, Failed, Row
  <2>4. NoReason \notin Retryable
    BY DEF NoReason, Retryable
  <2>. QED BY <2>1, <2>2, <2>3, <2>4 DEF Result
<1>3. ASSUME NEW x \in Row, Deferred(x).state = "sent" PROVE x.state = "sent"
  BY <1>3 DEF Deferred, Row
<1>4. ASSUME NEW x \in Row, NEW fp \in Fps, Reenqueued(x, fp).state = "sent" PROVE x.state = "sent"
  BY <1>4 DEF Reenqueued, Row
<1>. QED BY <1>1, <1>2, <1>3, <1>4 DEF NewRow

\* A row becomes SENT in one way: a worker commits an acknowledged attempt.
Acknowledged(w) == pc[w] = "done" /\ outcome[w] = NoReason

LEMMA OnlyCommitSends ==
    ASSUME TypeInv, [Next]_vars, NEW r \in Rows, row'[r].state = "sent", row[r].state # "sent"
    PROVE  \E w \in Workers : Commit(w) /\ cur[w] = r /\ Acknowledged(w)
<1>. USE RowFacts DEF TypeInv
<1>1. ASSUME NEW w \in Workers, Tick(w) PROVE \E v \in Workers : Commit(v) /\ cur[v] = r /\ Acknowledged(v)
  <2>1. CASE ReclaimWrite(w)
    BY <2>1 DEF ReclaimWrite, TypeOK, Present, Row
  <2>2. CASE ClaimBatch(w)
    BY <2>2 DEF ClaimBatch, Claimable, TypeOK, Row
  <2>3. CASE SkipRow(w)
    <3>1. PICK s \in queue[w] : /\ Present(s)
                                /\ row' = [row EXCEPT ![s] = [Skipped(@, Copy(w, s)) EXCEPT !.claim = "none"]]
      BY <2>3 DEF SkipRow
    <3>. QED BY <3>1 DEF Skipped, TypeOK, Present, Row
  <2>4. CASE RevalidateRejects(w)
    BY <2>4 DEF RevalidateRejects, Skipped, TypeOK, Row
  <2>5. CASE Commit(w)
    <3>1. cur[w] \in Rows /\ mem[w][cur[w]] \in Row /\ row[cur[w]] \in Row /\ outcome[w] \in Reasons
      BY <2>5 DEF Commit, TypeOK, CopiesOK, Busy, Present
    <3>2. row' = [row EXCEPT ![cur[w]] = Result(row[cur[w]], mem[w][cur[w]], outcome[w])]
      BY <2>5 DEF Commit
    <3>3. r = cur[w] /\ Result(row[r], mem[w][r], outcome[w]).state = "sent"
      BY <3>1, <3>2 DEF TypeOK
    <3>4. outcome[w] = NoReason
      BY <3>1, <3>3, HelperStates
    <3>. QED BY <2>5, <3>3, <3>4 DEF Commit, Acknowledged
  <2>6. CASE ProcessRaises(w)
    BY <2>6, HelperStates DEF ProcessRaises, TypeOK, CopiesOK, Busy, Present
  <2>7. CASE ReclaimRead(w) \/ CheckRow(w) \/ AbortTick(w) \/ Prepare(w) \/ PrepareFails(w) \/ Send(w)
    BY <2>7 DEF ReclaimRead, CheckRow, AbortTick, Prepare, PrepareFails, Send
  <2>. QED BY <1>1, <2>1, <2>2, <2>3, <2>4, <2>5, <2>6, <2>7 DEF Tick
<1>2. ASSUME NEW w \in Workers, Crash(w) PROVE FALSE
  BY <1>2 DEF Crash
<1>3. ASSUME NEW s \in Rows, Time(s) PROVE FALSE
  <2>1. row[s] \in Row
    BY <1>3 DEF Time, ClaimAges, BackoffElapses, TypeOK, States
  <2>2. ASSUME NEW x \in Row
        PROVE  /\ [x EXCEPT !.claim = "stale"].state = x.state
               /\ [x EXCEPT !.due = TRUE].state = x.state
    BY DEF Row
  <2>. QED BY <1>3, <2>1, <2>2 DEF Time, ClaimAges, BackoffElapses, TypeOK
<1>4. ASSUME NEW s \in Rows, Release(s) PROVE FALSE
  BY <1>4, HelperStates DEF Release, TypeOK
<1>5. ASSUME NEW s \in Rows, RacingRelease(s) PROVE FALSE
  BY <1>5, HelperStates DEF RacingRelease, TypeOK, Present
<1>6. ASSUME NEW s \in Rows, FileChanges(s) \/ Prune(s) PROVE FALSE
  BY <1>6 DEF FileChanges, Prune, TypeOK, NoRow
<1>8. ASSUME NEW s \in Rows, Replay(s) PROVE FALSE
  <2>1. row[s] \in Row
    BY <1>8 DEF Replay, TypeOK, States
  <2>2. row'[s].state = "pending"
    BY <1>8, <2>1 DEF Replay, TypeOK, Row
  <2>. QED BY <1>8, <2>2 DEF Replay, TypeOK
<1>7. CASE SwitchOff \/ UNCHANGED vars
  BY <1>7 DEF SwitchOff, vars
<1>. QED BY <1>1, <1>2, <1>3, <1>4, <1>5, <1>6, <1>7, <1>8 DEF Next

\* An acknowledgement a worker holds was given by Athena for the row it is busy
\* with: it is the evidence behind the SENT the worker is about to write.
SentInv ==
    /\ TypeInv
    /\ SentWasAcknowledged
    /\ \A w \in Workers : Acknowledged(w) => cur[w] \in acked

\* What Athena has acknowledged stays acknowledged.
LEMMA AckedGrows == [Next]_vars => acked \subseteq acked'
  BY DEF Next, Tick, Time, ReclaimRead, ReclaimWrite, ClaimBatch, SkipRow, CheckRow, AbortTick,
     RevalidateRejects, Prepare, PrepareFails, Send, Commit, ProcessRaises, Crash, ClaimAges,
     BackoffElapses, Release, RacingRelease, FileChanges, Replay, Prune, SwitchOff, vars, remote

\* A worker obtains an acknowledgement from Send only.
LEMMA AcknowledgedBySend ==
    ASSUME TypeInv, [Next]_vars, NEW w \in Workers, Acknowledged(w)'
    PROVE  \/ Acknowledged(w) /\ cur'[w] = cur[w]
           \/ Send(w) /\ cur'[w] = cur[w] /\ acked' = acked \cup {cur[w]}
<1>. USE DEF TypeInv, TypeOK, Acknowledged
<1>1. ASSUME NEW v \in Workers, Tick(v), v # w PROVE Acknowledged(w) /\ cur'[w] = cur[w]
  BY <1>1 DEF Tick, ReclaimRead, ReclaimWrite, ClaimBatch, SkipRow, CheckRow, AbortTick,
     RevalidateRejects, Prepare, PrepareFails, Send, Commit, ProcessRaises, NextInBatch
<1>2. CASE Send(w)
  BY <1>2 DEF Send, Retryable, NoReason
<1>3. CASE Tick(w) /\ ~Send(w)
  BY <1>3 DEF Tick, ReclaimRead, ReclaimWrite, ClaimBatch, SkipRow, CheckRow, AbortTick,
     RevalidateRejects, Prepare, PrepareFails, Commit, ProcessRaises, NextInBatch, NoReason
<1>4. ASSUME NEW v \in Workers, Crash(v) PROVE Acknowledged(w) /\ cur'[w] = cur[w]
  BY <1>4 DEF Crash
<1>5. ASSUME NEW r \in Rows, Time(r) \/ Release(r) \/ RacingRelease(r) \/ FileChanges(r) \/ Replay(r) \/ Prune(r)
      PROVE  Acknowledged(w) /\ cur'[w] = cur[w]
  BY <1>5 DEF Time, ClaimAges, BackoffElapses, Release, RacingRelease, FileChanges, Replay, Prune, local
<1>6. CASE SwitchOff \/ UNCHANGED vars
  BY <1>6 DEF SwitchOff, vars, local
<1>. QED BY <1>1, <1>2, <1>3, <1>4, <1>5, <1>6 DEF Next

LEMMA SentStep == SentInv /\ [Next]_vars => SentInv'
<1>. SUFFICES ASSUME SentInv, [Next]_vars PROVE SentInv'
  OBVIOUS
<1>1. TypeInv'
  BY TypeStep DEF SentInv
<1>2. ASSUME NEW r \in Rows, row'[r].state = "sent" PROVE r \in acked'
  <2>1. CASE row[r].state = "sent"
    BY <2>1, AckedGrows DEF SentInv, SentWasAcknowledged
  <2>2. CASE row[r].state # "sent"
    BY <1>2, <2>2, OnlyCommitSends, AckedGrows DEF SentInv
  <2>. QED BY <2>1, <2>2
<1>3. ASSUME NEW w \in Workers, Acknowledged(w)' PROVE (cur[w] \in acked)'
  BY <1>3, AcknowledgedBySend, AckedGrows DEF SentInv
<1>. QED BY <1>1, <1>2, <1>3 DEF SentInv, SentWasAcknowledged

\* SENT is only ever recorded for a row Athena has acknowledged (process writes SENT
\* only for an ok result): for any number of rows and workers, crashes, replays,
\* claims outlived by their workers, with or without the prune.
THEOREM SentIsEvidence == Spec => []SentWasAcknowledged
<1>1. Init => SentInv
  <2>1. Init => SentWasAcknowledged /\ \A w \in Workers : ~Acknowledged(w)
    BY DEF Init, SentWasAcknowledged, Acknowledged, NoRow
  <2>. QED BY <2>1, TypeInit DEF SentInv
<1>2. SentInv => SentWasAcknowledged
  BY DEF SentInv
<1>. QED BY <1>1, <1>2, SentStep, PTL DEF Spec

-----------------------------------------------------------------------------
(* Latest-wins, for the deployment the documents describe: one drain worker, *)
(* retention prune off.  SENT rows then stay (they are what                  *)
(* _superseded_by_newer_sent compares with), and no row the worker holds is  *)
(* SENT; so no newer version is recorded as SENT when the worker sends,      *)
(* whatever Athena then does with the content.                               *)

LatestInv ==
    /\ TypeInv
    /\ \A r \in Rows : Present(r) => r \in released
    /\ \A r \in everSent : row[r].state = "sent"
    /\ \A w \in Workers, r \in Rows : Holds(w, r) => row[r].state # "sent"
    /\ \A w \in Workers : Busy(w) => ~Superseded(cur[w])

\* Only released versions have rows.
LEMMA RowsWereReleased ==
    ASSUME TypeInv, [Next]_vars, \A r \in Rows : Present(r) => r \in released
    PROVE  \A r \in Rows : Present(r)' => r \in released'
<1>. USE RowFacts DEF TypeInv, TypeOK, Present
<1>1. ASSUME NEW w \in Workers, Tick(w)
      PROVE  released' = released /\ \A r \in Rows : Present(r)' => Present(r)
  <2>1. CASE ReclaimRead(w) \/ CheckRow(w) \/ AbortTick(w) \/ Prepare(w) \/ PrepareFails(w) \/ Send(w)
    BY <2>1 DEF ReclaimRead, CheckRow, AbortTick, Prepare, PrepareFails, Send
  <2>2. CASE ReclaimWrite(w)
    BY <2>2 DEF ReclaimWrite
  <2>3. CASE ClaimBatch(w)
    BY <2>3 DEF ClaimBatch, Claimable, NoRow
  <2>4. CASE SkipRow(w) \/ RevalidateRejects(w) \/ Commit(w)
    BY <2>4 DEF SkipRow, RevalidateRejects, Commit, NextInBatch
  <2>5. CASE ProcessRaises(w)
    BY <2>5 DEF ProcessRaises
  <2>. QED BY <1>1, <2>1, <2>2, <2>3, <2>4, <2>5 DEF Tick
<1>2. ASSUME NEW w \in Workers, Crash(w) PROVE UNCHANGED <<row, released>>
  BY <1>2 DEF Crash
<1>3. ASSUME NEW s \in Rows, Release(s) PROVE \A r \in Rows : Present(r)' => r \in released'
  BY <1>3 DEF Release
<1>4. ASSUME NEW s \in Rows, Time(s) \/ RacingRelease(s) \/ FileChanges(s) \/ Replay(s) \/ Prune(s)
      PROVE  released' = released /\ \A r \in Rows : Present(r)' => Present(r)
  BY <1>4 DEF Time, ClaimAges, BackoffElapses, RacingRelease, FileChanges, Replay, Prune, NoRow
<1>5. CASE SwitchOff \/ UNCHANGED vars
  BY <1>5 DEF SwitchOff, vars
<1>. QED BY <1>1, <1>2, <1>3, <1>4, <1>5 DEF Next

\* Nothing but the prune takes a row out of SENT while no worker holds it.
LEMMA SentStays ==
    ASSUME TypeInv, [Next]_vars, ~Retention, NEW r \in Rows, row[r].state = "sent",
           r \in released, \A w \in Workers : ~Holds(w, r)
    PROVE  row'[r].state = "sent"
<1>. USE RowFacts DEF TypeInv, TypeOK
<1>1. ASSUME NEW w \in Workers, Tick(w) PROVE row'[r].state = row[r].state
  <2>1. CASE ReclaimRead(w) \/ CheckRow(w) \/ AbortTick(w) \/ Prepare(w) \/ PrepareFails(w) \/ Send(w)
    BY <2>1 DEF ReclaimRead, CheckRow, AbortTick, Prepare, PrepareFails, Send
  <2>2. CASE ReclaimWrite(w)
    BY <2>2 DEF ReclaimWrite, Present, Row
  <2>3. CASE ClaimBatch(w)
    BY <2>3 DEF ClaimBatch, Claimable
  <2>4. CASE SkipRow(w) \/ RevalidateRejects(w) \/ Commit(w) \/ ProcessRaises(w)
    BY <2>4 DEF SkipRow, RevalidateRejects, Commit, ProcessRaises, Holds
  <2>. QED BY <1>1, <2>1, <2>2, <2>3, <2>4 DEF Tick
<1>2. ASSUME NEW w \in Workers, Crash(w) PROVE row' = row
  BY <1>2 DEF Crash
<1>3. ASSUME NEW s \in Rows, RacingRelease(s) PROVE row'[r].state = "sent"
  <2>1. row[r] \in Row
    BY DEF States
  <2>2. ASSUME NEW fp \in Fps PROVE Reenqueued(row[r], fp).state = "sent"
    BY <2>1 DEF Reenqueued, Row
  <2>. QED BY <1>3, <2>2 DEF RacingRelease
<1>4. ASSUME NEW s \in Rows, Time(s) \/ Release(s) \/ FileChanges(s) \/ Replay(s) \/ Prune(s)
      PROVE  row'[r] = row[r]
  BY <1>4 DEF Time, ClaimAges, BackoffElapses, Release, FileChanges, Replay, Prune
<1>5. CASE SwitchOff \/ UNCHANGED vars
  BY <1>5 DEF SwitchOff, vars
<1>. QED BY <1>1, <1>2, <1>3, <1>4, <1>5 DEF Next

\* A worker comes to hold a row by claiming it, and then it is pending.
LEMMA HeldIsClaimed ==
    ASSUME TypeInv, [Next]_vars, NEW w \in Workers, NEW r \in Rows, Holds(w, r)'
    PROVE  Holds(w, r) \/ row'[r].state = "pending"
<1>. USE RowFacts DEF TypeInv, TypeOK, Holds
<1>1. ASSUME NEW v \in Workers, Tick(v), v # w PROVE UNCHANGED <<queue[w], cur[w]>>
  BY <1>1 DEF Tick, ReclaimRead, ReclaimWrite, ClaimBatch, SkipRow, CheckRow, AbortTick,
     RevalidateRejects, Prepare, PrepareFails, Send, Commit, ProcessRaises, NextInBatch
<1>2. CASE ClaimBatch(w)
  BY <1>2 DEF ClaimBatch, Claimable, Row
<1>3. CASE Tick(w) /\ ~ClaimBatch(w)
  BY <1>3, RowsAreNumbered DEF Tick, ReclaimRead, ReclaimWrite, SkipRow, CheckRow, AbortTick,
     RevalidateRejects, Prepare, PrepareFails, Send, Commit, ProcessRaises, NextInBatch
<1>4. ASSUME NEW v \in Workers, Crash(v) PROVE Holds(w, r)
  BY <1>4, RowsAreNumbered DEF Crash
<1>5. ASSUME NEW s \in Rows, Time(s) \/ Release(s) \/ RacingRelease(s) \/ FileChanges(s) \/ Replay(s) \/ Prune(s)
      PROVE  UNCHANGED <<queue, cur>>
  BY <1>5 DEF Time, ClaimAges, BackoffElapses, Release, RacingRelease, FileChanges, Replay, Prune, local
<1>6. CASE SwitchOff \/ UNCHANGED vars
  BY <1>6 DEF SwitchOff, vars, local
<1>. QED BY <1>1, <1>2, <1>3, <1>4, <1>5, <1>6 DEF Next

\* A worker that commits a result is done with the row.
LEMMA CommitLetsGo ==
    ASSUME TypeInv, NEW w \in Workers, Commit(w), NEW r \in Rows, cur[w] = r
    PROVE  ~Busy(w)' /\ ~Holds(w, r)'
<1>1. queue'[w] = queue[w] \ {r} /\ cur'[w] = 0 /\ pc'[w] \in {"idle", "batch"}
  BY DEF TypeInv, TypeOK, Commit, NextInBatch
<1>. QED BY <1>1, RowsAreNumbered DEF Busy, Holds

\* A worker becomes busy by checking the row against newer SENT ones.
LEMMA BusyWasChecked ==
    ASSUME TypeInv, [Next]_vars, NEW w \in Workers, Busy(w)'
    PROVE  \/ Busy(w) /\ cur'[w] = cur[w]
           \/ row' = row /\ ~Superseded(cur'[w])
<1>. USE DEF TypeInv, TypeOK, Busy
<1>1. ASSUME NEW v \in Workers, Tick(v), v # w PROVE UNCHANGED <<pc[w], cur[w]>>
  BY <1>1 DEF Tick, ReclaimRead, ReclaimWrite, ClaimBatch, SkipRow, CheckRow, AbortTick,
     RevalidateRejects, Prepare, PrepareFails, Send, Commit, ProcessRaises, NextInBatch
<1>2. CASE CheckRow(w)
  BY <1>2 DEF CheckRow
<1>3. CASE Tick(w) /\ ~CheckRow(w)
  BY <1>3 DEF Tick, ReclaimRead, ReclaimWrite, ClaimBatch, SkipRow, AbortTick,
     RevalidateRejects, Prepare, PrepareFails, Send, Commit, ProcessRaises, NextInBatch
<1>4. ASSUME NEW v \in Workers, Crash(v) PROVE UNCHANGED <<pc[w], cur[w]>>
  BY <1>4 DEF Crash
<1>5. ASSUME NEW s \in Rows, Time(s) \/ Release(s) \/ RacingRelease(s) \/ FileChanges(s) \/ Replay(s) \/ Prune(s)
      PROVE  UNCHANGED <<pc, cur>>
  BY <1>5 DEF Time, ClaimAges, BackoffElapses, Release, RacingRelease, FileChanges, Replay, Prune, local
<1>6. CASE SwitchOff \/ UNCHANGED vars
  BY <1>6 DEF SwitchOff, vars, local
<1>. QED BY <1>1, <1>2, <1>3, <1>4, <1>5, <1>6 DEF Next

\* Who changes the document, and who records a row as sent.
LEMMA DocChangedBySend ==
    [Next]_vars =>
        \/ UNCHANGED <<doc, everSent>>
        \/ \E w \in Workers : Send(w) /\ everSent' = everSent
        \/ \E w \in Workers : Commit(w) /\ doc' = doc
  BY DEF Next, Tick, Time, ReclaimRead, ReclaimWrite, ClaimBatch, SkipRow, CheckRow, AbortTick,
     RevalidateRejects, Prepare, PrepareFails, Send, Commit, ProcessRaises, Crash, ClaimAges,
     BackoffElapses, Release, RacingRelease, FileChanges, Replay, Prune, SwitchOff, vars, remote

LEMMA LatestStep ==
    ASSUME ~Retention, \A v, w \in Workers : v = w, LatestInv, [Next]_vars
    PROVE  LatestInv'
<1>. USE DEF LatestInv
<1>1. TypeInv' /\ \A r \in Rows : Present(r)' => r \in released'
  BY TypeStep, RowsWereReleased
<1>2. ASSUME NEW r \in Rows, row[r].state = "sent" PROVE row'[r].state = "sent"
  <2>1. r \in released
    BY <1>2 DEF Present, NoRow
  <2>. QED BY <1>2, <2>1, SentStays
<1>3. ASSUME NEW r \in everSent' PROVE row'[r].state = "sent"
  <2>1. CASE r \in everSent
    BY <1>2, <2>1 DEF TypeInv, TypeOK
  <2>2. CASE r \notin everSent
    <3>1. PICK w \in Workers : Commit(w) /\ r = cur[w] /\ outcome[w] = NoReason
      BY <1>3, <2>2, DocChangedBySend DEF Commit
    <3>2. cur[w] \in Rows /\ mem[w][cur[w]] \in Row /\ row[cur[w]] \in Row /\ outcome[w] \in Reasons
      BY <3>1 DEF Commit, TypeInv, TypeOK, CopiesOK, Busy, Present
    <3>3. row'[r] = Result(row[r], mem[w][r], outcome[w])
      BY <3>1, <3>2 DEF Commit, TypeInv, TypeOK
    <3>. QED BY <3>1, <3>2, <3>3, HelperStates
  <2>. QED BY <2>1, <2>2
<1>4. ASSUME NEW w \in Workers, NEW r \in Rows, Holds(w, r)', row'[r].state = "sent"
      PROVE  FALSE
  <2>1. Holds(w, r) /\ row[r].state # "sent"
    BY <1>4, HeldIsClaimed
  <2>2. Commit(w) /\ cur[w] = r
    BY <1>4, <2>1, OnlyCommitSends
  <2>. QED BY <1>4, <2>2, CommitLetsGo
<1>5. ASSUME NEW w \in Workers, Busy(w)', Superseded(cur[w])' PROVE FALSE
  <2>1. PICK s \in Rows : Newer(cur'[w], s) /\ row'[s].state = "sent"
    BY <1>5 DEF Superseded, Newer
  <2>2. Busy(w) /\ cur'[w] = cur[w] /\ row[s].state # "sent"
    BY <1>5, <2>1, BusyWasChecked DEF Superseded
  <2>3. Commit(w) /\ cur[w] = s
    BY <2>1, <2>2, OnlyCommitSends
  <2>. QED BY <1>5, <2>3, CommitLetsGo
<1>. QED BY <1>1, <1>3, <1>4, <1>5

\* The document changes by a send, and that of a row no newer SENT row supersedes.
LEMMA LatestIsKept ==
    ASSUME LatestInv, [Next]_vars, NEW r \in everSent, doc'[Lineage[r]] # doc[Lineage[r]]
    PROVE  doc'[Lineage[r]] >= r
<1>1. PICK w \in Workers : Send(w)
  BY DocChangedBySend
<1>2. r \in Rows /\ row[r].state = "sent" /\ Busy(w) /\ cur[w] \in Rows
  BY <1>1 DEF LatestInv, TypeInv, TypeOK, CopiesOK, Busy, Send
<1>3. Lineage[r] \in Lineages /\ Lineage[cur[w]] \in Lineages
  BY <1>2 DEF Lineages
<1>4. Lineage[r] = Lineage[cur[w]] /\ doc'[Lineage[r]] = cur[w]
  BY <1>1, <1>3 DEF Send, LatestInv, TypeInv, TypeOK
<1>5. cur[w] >= r
  BY <1>2, <1>4, RowsAreNumbered DEF LatestInv, Superseded, Newer
<1>. QED BY <1>4, <1>5

\* With one drain worker and without the prune no older version overwrites the
\* document once a version has been recorded as SENT (_superseded_by_newer_sent),
\* for any number of documents, versions, crashes, retries and replays.
THEOREM PublishedStaysLatest ==
    ASSUME ~Retention, \A v, w \in Workers : v = w
    PROVE  Spec => LatestWins
<1>1. Init => LatestInv
  <2>1. Init => /\ \A r \in Rows : ~Present(r)
                /\ everSent = {} /\ \A w \in Workers : ~Busy(w)
                /\ \A r \in Rows : row[r].state # "sent"
    BY DEF Init, Present, Busy, NoRow
  <2>. QED BY <2>1, TypeInit DEF LatestInv
<1>2. LatestInv /\ [Next]_vars => LatestInv'
  BY LatestStep
<1>3. LatestInv /\ [Next]_vars
        => [\A r \in everSent : doc'[Lineage[r]] # doc[Lineage[r]] => doc'[Lineage[r]] >= r]_doc
  BY LatestIsKept
<1>. QED BY <1>1, <1>2, <1>3, PTL DEF Spec, LatestWins

-----------------------------------------------------------------------------
(* Claims are exclusive, until a worker crashes, outlives a claim, or a     *)
(* racing release reopens a settled row.                                    *)

Quiet == crashes = 0 /\ overruns = 0 /\ races = 0

\* A worker outside its batch holds nothing.
IdleHoldsNone ==
    \A w \in Workers :
        /\ ~Busy(w) => cur[w] = 0
        /\ ~Busy(w) /\ pc[w] # "batch" => queue[w] = {}

\* A pending row is unclaimed, or claimed by the one worker that holds it: no
\* claim is left behind for the reclaim to find.
Exclusive ==
    /\ \A w \in Workers : found[w] = {}
    /\ \A r \in Rows :
         row[r].state = "pending" =>
            \/ row[r].claim = "none"
            \/ row[r].claim = "fresh" /\ \E w \in Workers : Holds(w, r)
    /\ \A w \in Workers, r \in Rows :
         Holds(w, r) => row[r].state = "pending" /\ row[r].claim = "fresh"
    /\ \A r \in Rows, v, w \in Workers : Holds(v, r) /\ Holds(w, r) => v = w

ExclusiveInv ==
    /\ TypeInv
    /\ \A r \in Rows : Present(r) => r \in released
    /\ IdleHoldsNone
    /\ Quiet => Exclusive

LEMMA IdleStep == TypeInv /\ IdleHoldsNone /\ [Next]_vars => IdleHoldsNone'
<1>. SUFFICES ASSUME TypeInv, IdleHoldsNone, [Next]_vars PROVE IdleHoldsNone'
  OBVIOUS
<1>. USE DEF TypeInv, TypeOK, IdleHoldsNone, Busy
<1>1. ASSUME NEW w \in Workers, ReclaimRead(w) \/ ReclaimWrite(w) \/ AbortTick(w)
      PROVE  IdleHoldsNone'
  BY <1>1 DEF ReclaimRead, ReclaimWrite, AbortTick
<1>2. ASSUME NEW w \in Workers, ClaimBatch(w) PROVE IdleHoldsNone'
  BY <1>2 DEF ClaimBatch
<1>3. ASSUME NEW w \in Workers, SkipRow(w) PROVE IdleHoldsNone'
  BY <1>3 DEF SkipRow, NextInBatch
<1>4. ASSUME NEW w \in Workers, CheckRow(w) PROVE IdleHoldsNone'
  BY <1>4 DEF CheckRow
<1>5. ASSUME NEW w \in Workers, RevalidateRejects(w) \/ Commit(w) \/ ProcessRaises(w)
      PROVE  IdleHoldsNone'
  BY <1>5 DEF RevalidateRejects, Commit, ProcessRaises, NextInBatch
<1>6. ASSUME NEW w \in Workers, Prepare(w) \/ PrepareFails(w) \/ Send(w) PROVE IdleHoldsNone'
  BY <1>6 DEF Prepare, PrepareFails, Send
<1>7. ASSUME NEW w \in Workers, Crash(w) PROVE IdleHoldsNone'
  BY <1>7 DEF Crash
<1>8. ASSUME NEW r \in Rows, Time(r) \/ Release(r) \/ RacingRelease(r) \/ FileChanges(r) \/ Replay(r) \/ Prune(r)
      PROVE  UNCHANGED <<pc, queue, cur>>
  BY <1>8 DEF Time, ClaimAges, BackoffElapses, Release, RacingRelease, FileChanges, Replay, Prune, local
<1>9. CASE SwitchOff \/ UNCHANGED vars
  BY <1>9 DEF SwitchOff, vars, local
<1>. QED BY <1>1, <1>2, <1>3, <1>4, <1>5, <1>6, <1>7, <1>8, <1>9 DEF Next, Tick

\* A worker that leaves a row leaves it settled or unclaimed.
LEMMA ResultLetsGo ==
    /\ \A x \in Row, y \in Row, why \in Reasons :
         Result(x, y, why).state # "pending" \/ Result(x, y, why).claim = "none"
    /\ \A x \in Row : Deferred(x).claim = "none"
    /\ \A x \in Row, y \in Row : Skipped(x, y).state = "skipped"
<1>1. ASSUME NEW x \in Row, NEW y \in Row, NEW why \in Reasons
      PROVE  Result(x, y, why).state # "pending" \/ Result(x, y, why).claim = "none"
  <2>1. Sent(x, y).state = "sent" /\ Failed(x, y, why).state = "failed"
    BY DEF Sent, Failed, Row
  <2>2. Failed(x, y, why) \in Row
    BY DEF Failed, Row, States
  <2>3. Rescheduled(x, y, why).claim = "none"
    BY <2>2 DEF Rescheduled, Row
  <2>. QED BY <2>1, <2>3 DEF Result
<1>2. ASSUME NEW x \in Row PROVE Deferred(x).claim = "none"
  BY DEF Deferred, Row
<1>. QED BY <1>1, <1>2, HelperStates

LEMMA LeavingKeepsExclusive ==
    ASSUME TypeInv, Exclusive, NEW w \in Workers, NEW r \in Rows, Holds(w, r), cur[w] \in {0, r},
           queue' = [queue EXCEPT ![w] = @ \ {r}], cur' = [cur EXCEPT ![w] = 0],
           found' = found, NEW y, row' = [row EXCEPT ![r] = y],
           y.state # "pending" \/ y.claim = "none"
    PROVE  Exclusive'
<1>. USE RowsAreNumbered DEF TypeInv, TypeOK, Exclusive, Holds
<1>1. ASSUME NEW v \in Workers, NEW s \in Rows
      PROVE  Holds(v, s)' <=> Holds(v, s) /\ s # r
  <2>1. CASE v = w
    BY <2>1
  <2>2. CASE v # w
    BY <2>2
  <2>. QED BY <2>1, <2>2
<1>2. \A s \in Rows : row'[s] = IF s = r THEN y ELSE row[s]
  OBVIOUS
<1>. QED BY <1>1, <1>2

LEMMA RowsKeepExclusive ==
    ASSUME TypeInv, Exclusive, UNCHANGED <<queue, cur, found>>,
           \A r \in Rows : \/ row'[r].state = row[r].state /\ row'[r].claim = row[r].claim
                           \/ /\ row[r].state # "pending"
                              /\ row'[r].state # "pending" \/ row'[r].claim = "none"
    PROVE  Exclusive'
<1>1. \A v \in Workers, s \in Rows : Holds(v, s)' <=> Holds(v, s)
  BY DEF Holds
<1>2. ASSUME NEW s \in Rows, NEW v \in Workers, Holds(v, s)
      PROVE  row'[s].state = "pending" /\ row'[s].claim = "fresh"
  BY <1>2 DEF Exclusive
<1>3. ASSUME NEW s \in Rows, row'[s].state = "pending"
      PROVE  \/ row'[s].claim = "none"
             \/ row'[s].claim = "fresh" /\ \E w \in Workers : Holds(w, s)
  <2>1. CASE row'[s].state = row[s].state /\ row'[s].claim = row[s].claim
    BY <1>3, <2>1 DEF Exclusive
  <2>2. CASE row'[s].state # "pending" \/ row'[s].claim = "none"
    BY <1>3, <2>2
  <2>. QED BY <2>1, <2>2
<1>. QED BY <1>1, <1>2, <1>3 DEF Exclusive

\* What is counted is never uncounted.
LEMMA CountersGrow ==
    ASSUME TypeInv, [Next]_vars
    PROVE  crashes <= crashes' /\ overruns <= overruns' /\ races <= races'
<1>. USE DEF TypeInv, TypeOK
<1>1. ASSUME NEW w \in Workers, Tick(w) PROVE UNCHANGED bounds
  BY <1>1 DEF Tick, ReclaimRead, ReclaimWrite, ClaimBatch, SkipRow, CheckRow, AbortTick,
     RevalidateRejects, Prepare, PrepareFails, Send, Commit, ProcessRaises
<1>2. ASSUME NEW w \in Workers, Crash(w)
      PROVE  crashes' = crashes + 1 /\ UNCHANGED <<overruns, races>>
  BY <1>2 DEF Crash
<1>3. ASSUME NEW r \in Rows, ClaimAges(r)
      PROVE  overruns' \in {overruns, overruns + 1} /\ UNCHANGED <<crashes, races>>
  BY <1>3 DEF ClaimAges
<1>4. ASSUME NEW r \in Rows, RacingRelease(r)
      PROVE  races' = races + 1 /\ UNCHANGED <<crashes, overruns>>
  BY <1>4 DEF RacingRelease
<1>5. ASSUME NEW r \in Rows, BackoffElapses(r) \/ Release(r) \/ FileChanges(r) \/ Replay(r) \/ Prune(r)
      PROVE  UNCHANGED <<crashes, overruns, races>>
  BY <1>5 DEF BackoffElapses, Release, FileChanges, Replay, Prune, bounds
<1>6. CASE SwitchOff \/ UNCHANGED vars
  BY <1>6 DEF SwitchOff, vars, bounds
<1>. QED BY <1>1, <1>2, <1>3, <1>4, <1>5, <1>6 DEF Next, Time, bounds

LEMMA ExclusiveStep == ExclusiveInv /\ [Next]_vars => ExclusiveInv'
<1>. SUFFICES ASSUME ExclusiveInv, [Next]_vars, Quiet' PROVE Exclusive'
  BY TypeStep, RowsWereReleased, IdleStep DEF ExclusiveInv
<1>. USE RowFacts DEF ExclusiveInv
<1>0. Quiet
  BY CountersGrow DEF Quiet, TypeInv, TypeOK
<1>00. Exclusive
  BY <1>0
<1>1. ASSUME NEW w \in Workers, ReclaimRead(w) PROVE Exclusive'
  <2>1. found'[w] = {}
    BY <1>1, <1>00 DEF ReclaimRead, Exclusive, TypeInv, TypeOK
  <2>2. \A v \in Workers : found'[v] = {}
    BY <1>1, <2>1, <1>00 DEF ReclaimRead, Exclusive, TypeInv, TypeOK
  <2>3. UNCHANGED <<row, queue, cur>>
    BY <1>1 DEF ReclaimRead
  <2>. QED BY <1>00, <2>2, <2>3 DEF Exclusive, Holds
<1>2. ASSUME NEW w \in Workers, ReclaimWrite(w) PROVE Exclusive'
  <2>1. found[w] = {}
    BY <1>00 DEF Exclusive
  <2>2. found' = found /\ UNCHANGED <<queue, cur>>
    BY <1>2, <2>1 DEF ReclaimWrite, TypeInv, TypeOK
  <2>3. \A r \in Rows : row'[r] = row[r]
    BY <1>2, <2>1 DEF ReclaimWrite
  <2>. QED BY <1>00, <2>2, <2>3, RowsKeepExclusive
<1>3. ASSUME NEW w \in Workers, ClaimBatch(w) PROVE Exclusive'
  <2>. DEFINE due == IF cached[w] THEN {r \in Rows : Claimable(r)} ELSE {}
  <2>1. PICK batch \in SUBSET due :
            /\ row' = [r \in Rows |-> IF r \in batch
                                     THEN [row[r] EXCEPT !.claim = "fresh"] ELSE row[r]]
            /\ queue' = [queue EXCEPT ![w] = batch]
    BY <1>3 DEF ClaimBatch
  <2>2. UNCHANGED <<cur, found>> /\ queue[w] = {} /\ cur[w] = 0
    BY <1>3 DEF ClaimBatch, IdleHoldsNone, Busy
  <2>3. \A r \in batch : /\ r \in Rows /\ row[r] \in Row /\ row[r].state = "pending"
                         /\ \A v \in Workers : ~Holds(v, r)
    BY <1>00 DEF Claimable, Exclusive, TypeInv, TypeOK, States
  <2>4. \A v \in Workers, r \in Rows : Holds(v, r)' <=> Holds(v, r) \/ (v = w /\ r \in batch)
    BY <2>1, <2>2, RowsAreNumbered DEF Holds, TypeInv, TypeOK
  <2>5. \A r \in batch : row'[r].state = "pending" /\ row'[r].claim = "fresh"
    BY <2>1, <2>3 DEF Row
  <2>6. \A r \in Rows : r \notin batch => row'[r] = row[r]
    BY <2>1
  <2>. QED BY <1>00, <2>2, <2>3, <2>4, <2>5, <2>6 DEF Exclusive
<1>4. ASSUME NEW w \in Workers, SkipRow(w) PROVE Exclusive'
  <2>1. PICK r \in queue[w] :
            /\ Present(r)
            /\ row' = [row EXCEPT ![r] = [Skipped(@, Copy(w, r)) EXCEPT !.claim = "none"]]
            /\ NextInBatch(w, r)
    BY <1>4 DEF SkipRow
  <2>2. r \in Rows /\ Holds(w, r) /\ cur[w] = 0
    BY <1>4, <2>1 DEF SkipRow, IdleHoldsNone, Busy, Holds, TypeInv, TypeOK
  <2>3. row[r] \in Row /\ Copy(w, r) \in Row
    BY <2>1, <2>2 DEF TypeInv, TypeOK, CopiesOK, Present, Copy
  <2>4. [Skipped(row[r], Copy(w, r)) EXCEPT !.claim = "none"].claim = "none"
    BY <2>3, HelpersGiveRows DEF Row
  <2>. QED BY <1>00, <2>1, <2>2, <2>4, LeavingKeepsExclusive DEF NextInBatch
<1>5. ASSUME NEW w \in Workers, CheckRow(w) PROVE Exclusive'
  <2>1. PICK r \in queue[w] : /\ queue' = [queue EXCEPT ![w] = @ \ {r}]
                              /\ cur' = [cur EXCEPT ![w] = r]
    BY <1>5 DEF CheckRow
  <2>2. UNCHANGED <<row, found>> /\ cur[w] = 0
    BY <1>5 DEF CheckRow, IdleHoldsNone, Busy
  <2>3. \A v \in Workers, s \in Rows : Holds(v, s)' <=> Holds(v, s)
    BY <2>1, <2>2, RowsAreNumbered DEF Holds, TypeInv, TypeOK
  <2>. QED BY <1>00, <2>2, <2>3 DEF Exclusive
<1>6. ASSUME NEW w \in Workers, AbortTick(w) PROVE FALSE
  <2>1. PICK r \in queue[w] : ~Present(r)
    BY <1>6 DEF AbortTick
  <2>2. r \in Rows /\ row[r].state = "pending"
    BY <1>00 DEF Exclusive, Holds, TypeInv, TypeOK
  <2>. QED BY <2>1, <2>2 DEF Present, NoRow
<1>7. ASSUME NEW w \in Workers, RevalidateRejects(w) \/ Commit(w) \/ ProcessRaises(w) PROVE Exclusive'
  <2>. DEFINE r == cur[w]
  <2>1. r \in Rows /\ mem[w][r] \in Row /\ Holds(w, r)
    BY <1>7 DEF RevalidateRejects, Commit, ProcessRaises, TypeInv, CopiesOK, Busy, Holds
  <2>2. row[r].state = "pending" /\ row[r] \in Row /\ Present(r)
    BY <1>00, <2>1 DEF Exclusive, TypeInv, TypeOK, Present, States, NoRow
  <2>3. /\ queue' = [queue EXCEPT ![w] = @ \ {r}] /\ cur' = [cur EXCEPT ![w] = 0]
        /\ found' = found
    BY <1>7, <2>2 DEF RevalidateRejects, Commit, ProcessRaises, NextInBatch
  <2>4. outcome[w] \in Reasons
    BY DEF TypeInv, TypeOK
  <2>5. PICK y : /\ row' = [row EXCEPT ![r] = y]
                 /\ y.state # "pending" \/ y.claim = "none"
    <3>1. CASE RevalidateRejects(w)
      <4>1. row' = [row EXCEPT ![r] = Skipped(row[r], mem[w][r])]
        BY <3>1 DEF RevalidateRejects
      <4>. QED BY <2>1, <2>2, <4>1, ResultLetsGo
    <3>2. CASE Commit(w)
      <4>1. row' = [row EXCEPT ![r] = Result(row[r], mem[w][r], outcome[w])]
        BY <3>2 DEF Commit
      <4>2. \/ Result(row[r], mem[w][r], outcome[w]).state # "pending"
            \/ Result(row[r], mem[w][r], outcome[w]).claim = "none"
        BY <2>1, <2>2, <2>4, ResultLetsGo
      <4>. QED BY <4>1, <4>2
    <3>3. CASE ProcessRaises(w)
      <4>1. row' = [row EXCEPT ![r] = Deferred(row[r])]
        BY <2>2, <3>3 DEF ProcessRaises
      <4>. QED BY <2>2, <4>1, ResultLetsGo
    <3>. QED BY <1>7, <3>1, <3>2, <3>3
  <2>. QED BY <1>00, <2>1, <2>3, <2>5, LeavingKeepsExclusive
<1>8. ASSUME NEW w \in Workers, Prepare(w) \/ PrepareFails(w) \/ Send(w) PROVE Exclusive'
  <2>1. UNCHANGED <<row, queue, cur, found>>
    BY <1>8 DEF Prepare, PrepareFails, Send
  <2>. QED BY <1>00, <2>1 DEF Exclusive, Holds
<1>9. ASSUME NEW w \in Workers, Crash(w) PROVE FALSE
  BY <1>9 DEF Crash, Quiet, TypeInv, TypeOK
<1>10. ASSUME NEW r \in Rows, RacingRelease(r) PROVE FALSE
  BY <1>10 DEF RacingRelease, Quiet, TypeInv, TypeOK
<1>11. ASSUME NEW r \in Rows, ClaimAges(r) PROVE FALSE
  <2>1. \E w \in Workers : Holds(w, r)
    BY <1>11, <1>00 DEF ClaimAges, Exclusive
  <2>. QED BY <1>11, <2>1 DEF ClaimAges, Quiet, TypeInv, TypeOK
<1>12. ASSUME NEW r \in Rows, BackoffElapses(r) PROVE Exclusive'
  <2>1. row[r] \in Row /\ UNCHANGED <<queue, cur, found>>
    BY <1>12 DEF BackoffElapses, TypeInv, TypeOK, States, local
  <2>2. \A s \in Rows : row'[s].state = row[s].state /\ row'[s].claim = row[s].claim
    BY <1>12, <2>1 DEF BackoffElapses, TypeInv, TypeOK, Row
  <2>. QED BY <1>00, <2>1, <2>2, RowsKeepExclusive
<1>13. ASSUME NEW r \in Rows, Release(r) PROVE Exclusive'
  <2>1. row[r] = NoRow /\ UNCHANGED <<queue, cur, found>>
    BY <1>13 DEF Release, Present, local
  <2>2. row' = row \/ \E fp \in Fps : row' = [row EXCEPT ![r] = NewRow(fp)]
    BY <1>13 DEF Release
  <2>3. \A fp \in Fps : NewRow(fp).claim = "none"
    BY DEF NewRow
  <2>4. \A s \in Rows : row'[s] = row[s] \/ (s = r /\ row'[s].claim = "none")
    BY <2>2, <2>3 DEF TypeInv, TypeOK
  <2>5. row[r].state # "pending"
    BY <2>1 DEF NoRow
  <2>. QED BY <1>00, <2>1, <2>4, <2>5, RowsKeepExclusive
<1>14. ASSUME NEW r \in Rows, Replay(r) \/ Prune(r) PROVE Exclusive'
  <2>1. row[r].state # "pending" /\ row[r] \in Row /\ UNCHANGED <<queue, cur, found>>
    BY <1>14 DEF Replay, Prune, local, TypeInv, TypeOK, States
  <2>2. row'[r].state # "pending" \/ row'[r].claim = "none"
    <3>1. CASE Replay(r)
      <4>1. row'[r].claim = "none"
        BY <2>1, <3>1 DEF Replay, TypeInv, TypeOK, Row
      <4>. QED BY <4>1
    <3>2. CASE Prune(r)
      <4>1. row'[r] = NoRow
        BY <3>2 DEF Prune, TypeInv, TypeOK
      <4>. QED BY <4>1 DEF NoRow
    <3>. QED BY <1>14, <3>1, <3>2
  <2>3. \A s \in Rows : s # r => row'[s] = row[s]
    BY <1>14 DEF Replay, Prune, TypeInv, TypeOK
  <2>. QED BY <1>00, <2>1, <2>2, <2>3, RowsKeepExclusive
<1>15. ASSUME NEW r \in Rows, FileChanges(r) PROVE Exclusive'
  <2>1. UNCHANGED <<row, queue, cur, found>>
    BY <1>15 DEF FileChanges, local
  <2>. QED BY <1>00, <2>1 DEF Exclusive, Holds
<1>16. CASE SwitchOff \/ UNCHANGED vars
  <2>1. UNCHANGED <<row, queue, cur, found>>
    BY <1>16 DEF SwitchOff, vars, local
  <2>. QED BY <1>00, <2>1 DEF Exclusive, Holds
<1>. QED
  BY <1>1, <1>2, <1>3, <1>4, <1>5, <1>6, <1>7, <1>8, <1>9, <1>10, <1>11, <1>12, <1>13, <1>14,
     <1>15, <1>16 DEF Next, Tick, Time

\* However many drain workers there are, no two of them ever hold one row (the claim of
\* _claim_batch), as long as no claim is left behind for _reclaim_stale to find.
THEOREM ClaimsAreExclusive == Spec => []ClaimExclusive
<1>1. Init => ExclusiveInv
  <2>1. Init => /\ \A r \in Rows : row[r] = NoRow
                /\ \A w \in Workers : cur[w] = 0 /\ queue[w] = {} /\ found[w] = {}
    BY DEF Init
  <2>2. NoRow.state # "pending"
    BY DEF NoRow
  <2>. QED BY <2>1, <2>2, TypeInit, RowsAreNumbered
           DEF ExclusiveInv, Exclusive, IdleHoldsNone, Present, Holds
<1>2. ExclusiveInv => ClaimExclusive
  BY DEF ExclusiveInv, Exclusive, ClaimExclusive, Quiet
<1>. QED BY <1>1, <1>2, ExclusiveStep, PTL DEF Spec

=============================================================================
