------------------------- MODULE EcmRefinement_proofs -------------------------
(***************************************************************************)
(* Proofs about EcmOutbox in the deployment with one drain worker, for     *)
(* every value of the other constants, with or without the prune: it       *)
(* implements PublicationOutbox, SENT is final, and the attempts a row has *)
(* left bound its sends.                                                   *)
(***************************************************************************)
EXTENDS EcmOutbox_proofs

\* The states of Outbox, as it maps them.
States1 == [r \in Rows |-> row[r].state]

\* What makes the steps of one worker steps of the abstract outbox: it holds pending
\* rows only, while it is busy no newer row of the lineage is SENT, and an
\* acknowledgement it has is the target's.
RefInv ==
    /\ TypeInv
    /\ \A r \in Rows : Present(r) => r \in released
    /\ \A w \in Workers, r \in Rows : Holds(w, r) => row[r].state = "pending"
    /\ \A w \in Workers : Busy(w) => ~Superseded(cur[w])
    /\ \A w \in Workers : Acknowledged(w) => cur[w] \in acked

\* A busy worker's row and copy.
LEMMA BusyFacts ==
    ASSUME RefInv, NEW w \in Workers, Busy(w)
    PROVE  /\ cur[w] \in Rows /\ mem[w][cur[w]] \in Row
           /\ row[cur[w]] \in Row /\ row[cur[w]].state = "pending"
<1>1. cur[w] \in Rows /\ mem[w][cur[w]] \in Row
  BY DEF RefInv, TypeInv, CopiesOK
<1>2. row[cur[w]].state = "pending"
  BY <1>1 DEF RefInv, Holds
<1>. QED BY <1>1, <1>2, RowFacts DEF RefInv, TypeInv, TypeOK, States

-----------------------------------------------------------------------------
(* Every step moves one row at most, and this is how.                       *)

\* The states a step of the outbox may take row r through.
Move(r) ==
    \/ Present(r)' /\ ~Present(r) /\ row'[r].state = "pending"
    \/ row[r].state = "pending" /\ row'[r].state \in {"failed", "skipped"}
    \/ \E w \in Workers : Commit(w) /\ cur[w] = r /\ Acknowledged(w) /\ row'[r].state = "sent"
    \/ row[r].state \in {"failed", "skipped"} /\ row'[r].state = "pending"
    \/ row[r].state = "sent" /\ row'[r].state = "absent"

Still(r) == row'[r].state = row[r].state

\* Where the helpers leave a pending row.
LEMMA PendingGoes ==
    /\ \A x \in Row, y \in Row, why \in Reasons :
         x.state = "pending" /\ why # NoReason => Result(x, y, why).state \in {"pending", "failed"}
    /\ \A x \in Row : x.state = "pending" => Deferred(x).state \in {"pending", "failed"}
    /\ \A x \in Row, fp \in Fps :
         \/ Reenqueued(x, fp).state = x.state
         \/ x.state \in {"failed", "skipped"} /\ Reenqueued(x, fp).state = "pending"
    /\ \A x \in Row, c \in {"none", "fresh", "stale"} : [x EXCEPT !.claim = c].state = x.state
    /\ \A x \in Row : [x EXCEPT !.due = TRUE].state = x.state
<1>1. ASSUME NEW x \in Row, NEW y \in Row, NEW why \in Reasons, x.state = "pending", why # NoReason
      PROVE  Result(x, y, why).state \in {"pending", "failed"}
  <2>1. Failed(x, y, why).state = "failed"
    BY DEF Failed, Row
  <2>2. Rescheduled(x, y, why).state \in {"pending", "failed"}
    BY <2>1 DEF Rescheduled, Failed, Row
  <2>. QED BY <1>1, <2>1, <2>2 DEF Result
<1>2. ASSUME NEW x \in Row, x.state = "pending" PROVE Deferred(x).state \in {"pending", "failed"}
  BY <1>2 DEF Deferred, Row
<1>3. ASSUME NEW x \in Row, NEW fp \in Fps
      PROVE  \/ Reenqueued(x, fp).state = x.state
             \/ x.state \in {"failed", "skipped"} /\ Reenqueued(x, fp).state = "pending"
  <2>1. CASE x.fp = fp
    BY <2>1 DEF Reenqueued
  <2>2. CASE x.fp # fp /\ x.state = "sent"
    <3>1. [x EXCEPT !.conflict = TRUE].state = x.state
      BY DEF Row
    <3>. QED BY <2>2, <3>1 DEF Reenqueued
  <2>3. CASE x.fp # fp /\ x.state # "sent"
    <3>1. [x EXCEPT !.fp = fp, !.state = "pending", !.reason = NoReason].state = "pending"
      BY DEF Row
    <3>2. x.state \in {"pending", "failed", "skipped"}
      BY <2>3 DEF Row, States
    <3>. QED BY <2>3, <3>1, <3>2 DEF Reenqueued
  <2>. QED BY <2>1, <2>2, <2>3
<1>4. ASSUME NEW x \in Row
      PROVE  /\ \A c \in {"none", "fresh", "stale"} : [x EXCEPT !.claim = c].state = x.state
             /\ [x EXCEPT !.due = TRUE].state = x.state
  BY DEF Row
<1>. QED BY <1>1, <1>2, <1>3, <1>4

LEMMA OneMoves ==
    ASSUME RefInv, [Next]_vars
    PROVE  \/ \A r \in Rows : Still(r)
           \/ \E r \in Rows : Move(r) /\ \A s \in Rows \ {r} : Still(s)
<1>. DEFINE Goal == \/ \A r \in Rows : Still(r)
                    \/ \E r \in Rows : Move(r) /\ \A s \in Rows \ {r} : Still(s)
<1>. USE RowFacts DEF RefInv, TypeInv, Still
<1>. HIDE DEF RefInv
<1>0. row \in [Rows -> Row \cup {NoRow}] /\ \A r \in Rows : row[r].state \in States => row[r] \in Row
  BY DEF RefInv, TypeOK
<1>1. ASSUME NEW w \in Workers, Tick(w) PROVE Goal
  <2>1. CASE ReclaimRead(w) \/ CheckRow(w) \/ AbortTick(w) \/ Prepare(w) \/ PrepareFails(w) \/ Send(w)
    BY <2>1 DEF ReclaimRead, CheckRow, AbortTick, Prepare, PrepareFails, Send
  <2>2. CASE ReclaimWrite(w)
    BY <1>0, <2>2, PendingGoes DEF ReclaimWrite, Present
  <2>3. CASE ClaimBatch(w)
    <3>1. PICK batch \in SUBSET {r \in Rows : Claimable(r)} :
            row' = [r \in Rows |-> IF r \in batch THEN [row[r] EXCEPT !.claim = "fresh"] ELSE row[r]]
      BY <2>3 DEF ClaimBatch
    <3>2. \A r \in batch : row[r] \in Row
      BY <1>0 DEF Claimable, States
    <3>. QED BY <3>1, <3>2, PendingGoes
  <2>4. CASE SkipRow(w)
    <3>1. PICK r \in queue[w] :
            /\ Present(r)
            /\ row' = [row EXCEPT ![r] = [Skipped(@, Copy(w, r)) EXCEPT !.claim = "none"]]
      BY <2>4 DEF SkipRow
    <3>2. r \in Rows /\ Holds(w, r)
      BY DEF RefInv, TypeOK, Holds
    <3>3. row[r].state = "pending" /\ row[r] \in Row
      BY <1>0, <3>1, <3>2 DEF RefInv, Present
    <3>4. row'[r].state = "skipped"
      BY <1>0, <3>1, <3>2, <3>3 DEF Skipped, Row
    <3>5. \A s \in Rows \ {r} : Still(s)
      BY <1>0, <3>1, <3>2
    <3>. QED BY <3>2, <3>3, <3>4, <3>5 DEF Move
  <2>5. CASE RevalidateRejects(w)
    <3>1. cur[w] \in Rows /\ row[cur[w]] \in Row /\ row[cur[w]].state = "pending" /\ mem[w][cur[w]] \in Row
      BY <2>5, BusyFacts DEF RevalidateRejects, Busy
    <3>2. row' = [row EXCEPT ![cur[w]] = Skipped(@, mem[w][cur[w]])]
      BY <2>5 DEF RevalidateRejects
    <3>3. row'[cur[w]].state = "skipped" /\ \A s \in Rows \ {cur[w]} : Still(s)
      BY <1>0, <3>1, <3>2, HelperStates
    <3>. QED BY <3>1, <3>3 DEF Move
  <2>6. CASE Commit(w)
    <3>1. cur[w] \in Rows /\ row[cur[w]] \in Row /\ row[cur[w]].state = "pending"
          /\ mem[w][cur[w]] \in Row /\ outcome[w] \in Reasons
      BY <2>6, BusyFacts DEF Commit, Busy, RefInv, TypeOK
    <3>2. row' = [row EXCEPT ![cur[w]] = Result(@, mem[w][cur[w]], outcome[w])]
      BY <2>6 DEF Commit
    <3>3. row'[cur[w]].state = Result(row[cur[w]], mem[w][cur[w]], outcome[w]).state
          /\ \A s \in Rows \ {cur[w]} : Still(s)
      BY <1>0, <3>1, <3>2
    <3>4. CASE outcome[w] = NoReason
      <4>1. row'[cur[w]].state = "sent"
        BY <3>1, <3>3, <3>4, HelperStates
      <4>2. Acknowledged(w)
        BY <2>6, <3>4 DEF Commit, Acknowledged
      <4>. QED BY <2>6, <3>1, <3>3, <4>1, <4>2 DEF Move
    <3>5. CASE outcome[w] # NoReason
      <4>1. row'[cur[w]].state \in {"pending", "failed"}
        BY <3>1, <3>3, <3>5, PendingGoes
      <4>. QED BY <3>1, <3>3, <4>1 DEF Move
    <3>. QED BY <3>4, <3>5
  <2>7. CASE ProcessRaises(w)
    <3>1. cur[w] \in Rows /\ row[cur[w]] \in Row /\ row[cur[w]].state = "pending"
      BY <2>7, BusyFacts DEF ProcessRaises, Busy
    <3>2. row' = [row EXCEPT ![cur[w]] = Deferred(@)]
      BY <2>7, <3>1 DEF ProcessRaises, Present
    <3>3. row'[cur[w]].state \in {"pending", "failed"} /\ \A s \in Rows \ {cur[w]} : Still(s)
      BY <1>0, <3>1, <3>2, PendingGoes
    <3>. QED BY <3>1, <3>3 DEF Move
  <2>. QED BY <1>1, <2>1, <2>2, <2>3, <2>4, <2>5, <2>6, <2>7 DEF Tick
<1>2. ASSUME NEW w \in Workers, Crash(w) PROVE Goal
  BY <1>2 DEF Crash
<1>3. ASSUME NEW r \in Rows, Time(r) PROVE Goal
  <2>1. row[r].state = "pending"
    BY <1>3 DEF Time, ClaimAges, BackoffElapses
  <2>2. row[r] \in Row
    BY <1>0, <2>1 DEF States
  <2>3. CASE row' = [row EXCEPT ![r].claim = "stale"]
    <3>1. row'[r] = [row[r] EXCEPT !.claim = "stale"] /\ \A s \in Rows \ {r} : Still(s)
      BY <1>0, <2>3
    <3>2. Still(r)
      BY <2>2, <3>1, PendingGoes
    <3>. QED BY <3>1, <3>2
  <2>4. CASE row' = [row EXCEPT ![r].due = TRUE]
    <3>1. row'[r] = [row[r] EXCEPT !.due = TRUE] /\ \A s \in Rows \ {r} : Still(s)
      BY <1>0, <2>4
    <3>2. Still(r)
      BY <2>2, <3>1, PendingGoes
    <3>. QED BY <3>1, <3>2
  <2>. QED BY <1>3, <2>3, <2>4 DEF Time, ClaimAges, BackoffElapses
<1>4. ASSUME NEW r \in Rows, Release(r) PROVE Goal
  <2>1. CASE row' = row
    BY <2>1
  <2>2. CASE row' = [row EXCEPT ![r] = NewRow(content[r])]
    <3>1. row'[r].state = "pending" /\ row'[r] # NoRow /\ \A s \in Rows \ {r} : Still(s)
      BY <1>0, <2>2 DEF NewRow, NoRow
    <3>2. ~Present(r)
      BY <1>4 DEF Release, RefInv
    <3>. QED BY <3>1, <3>2 DEF Move, Present
  <2>. QED BY <1>4, <2>1, <2>2 DEF Release
<1>5. ASSUME NEW r \in Rows, RacingRelease(r) PROVE Goal
  <2>1. row[r] \in Row /\ content[r] \in Fps /\ row' = [row EXCEPT ![r] = Reenqueued(row[r], content[r])]
    BY <1>0, <1>5 DEF RacingRelease, Present
  <2>2. row'[r].state = Reenqueued(row[r], content[r]).state /\ \A s \in Rows \ {r} : Still(s)
    BY <1>0, <2>1
  <2>3. Still(r) \/ Move(r)
    BY <2>1, <2>2, PendingGoes DEF Move
  <2>. QED BY <2>2, <2>3
<1>6. ASSUME NEW r \in Rows, Replay(r) PROVE Goal
  <2>1. row[r] \in Row
    BY <1>0, <1>6 DEF Replay, States
  <2>2. row'[r].state = "pending" /\ \A s \in Rows \ {r} : Still(s)
    BY <1>0, <1>6, <2>1 DEF Replay, Row
  <2>. QED BY <1>6, <2>2 DEF Move, Replay
<1>7. ASSUME NEW r \in Rows, Prune(r) PROVE Goal
  BY <1>0, <1>7 DEF Prune, Move, NoRow
<1>8. CASE SwitchOff \/ UNCHANGED vars \/ \E r \in Rows : FileChanges(r)
  BY <1>8 DEF SwitchOff, vars, FileChanges
<1>. QED BY <1>1, <1>2, <1>3, <1>4, <1>5, <1>6, <1>7, <1>8 DEF Next

-----------------------------------------------------------------------------
(* The invariant.                                                           *)

\* Only a commit, an exception or a refused row moves a pending row out of pending,
\* and then it is in no worker's hands; with one worker no other row is.
LEMMA HeldStaysPending ==
    ASSUME RefInv, \A v, w \in Workers : v = w, [Next]_vars,
           NEW w \in Workers, NEW r \in Rows, Holds(w, r)', Holds(w, r)
    PROVE  row'[r].state = "pending"
<1>. USE RowFacts DEF RefInv, TypeInv
<1>. HIDE DEF RefInv
<1>0. row \in [Rows -> Row \cup {NoRow}] /\ row[r].state = "pending" /\ row[r] \in Row
  BY DEF RefInv, TypeOK, States
<1>1. ASSUME NEW v \in Workers, Tick(v) PROVE row'[r].state = "pending"
  <2>0. v = w
    OBVIOUS
  <2>1. CASE ReclaimRead(w) \/ CheckRow(w) \/ AbortTick(w) \/ Prepare(w) \/ PrepareFails(w) \/ Send(w)
    BY <1>0, <2>1 DEF ReclaimRead, CheckRow, AbortTick, Prepare, PrepareFails, Send
  <2>2. CASE ReclaimWrite(w)
    BY <1>0, <2>2, PendingGoes DEF ReclaimWrite
  <2>3. CASE ClaimBatch(w)
    BY <1>0, <2>3, PendingGoes DEF ClaimBatch
  <2>4. CASE SkipRow(w)
    <3>1. PICK s \in queue[w] :
            /\ row' = [row EXCEPT ![s] = [Skipped(@, Copy(w, s)) EXCEPT !.claim = "none"]]
            /\ NextInBatch(w, s)
      BY <2>4 DEF SkipRow
    <3>2. s # r
      BY <3>1, RowsAreNumbered DEF Holds, NextInBatch, RefInv, TypeOK
    <3>. QED BY <1>0, <3>1, <3>2
  <2>5. CASE RevalidateRejects(w) \/ Commit(w) \/ ProcessRaises(w)
    <3>1. Busy(w)
      BY <2>5 DEF RevalidateRejects, Commit, ProcessRaises, Busy
    <3>2. cur[w] \in Rows /\ cur[w] \notin queue[w]
      BY <3>1 DEF RefInv, CopiesOK
    <3>3. Present(cur[w])
      BY <3>1, BusyFacts DEF Present
    <3>4. queue'[w] = queue[w] \ {cur[w]} /\ cur'[w] = 0
      BY <2>5, <3>3 DEF RevalidateRejects, Commit, ProcessRaises, NextInBatch, RefInv, TypeOK
    <3>5. cur[w] # r
      BY <3>4, RowsAreNumbered DEF Holds
    <3>. QED BY <1>0, <2>5, <3>5 DEF RevalidateRejects, Commit, ProcessRaises
  <2>. QED BY <1>1, <2>0, <2>1, <2>2, <2>3, <2>4, <2>5 DEF Tick
<1>2. ASSUME NEW v \in Workers, Crash(v) PROVE row' = row
  BY <1>2 DEF Crash
<1>3. ASSUME NEW s \in Rows, Time(s) PROVE row'[r].state = "pending"
  BY <1>0, <1>3 DEF Time, ClaimAges, BackoffElapses, Row
<1>4. ASSUME NEW s \in Rows, RacingRelease(s) PROVE row'[r].state = "pending"
  <2>1. ASSUME NEW fp \in Fps PROVE Reenqueued(row[r], fp).state = "pending"
    BY <1>0, PendingGoes
  <2>. QED BY <1>0, <1>4, <2>1 DEF RacingRelease
<1>5. ASSUME NEW s \in Rows, Release(s) PROVE row'[r] = row[r]
  BY <1>0, <1>5 DEF Release, RefInv, Present
<1>6. ASSUME NEW s \in Rows, FileChanges(s) \/ Replay(s) \/ Prune(s) PROVE row'[r] = row[r]
  BY <1>0, <1>6 DEF FileChanges, Replay, Prune
<1>7. CASE SwitchOff \/ UNCHANGED vars
  BY <1>0, <1>7 DEF SwitchOff, vars
<1>. QED BY <1>0, <1>1, <1>2, <1>3, <1>4, <1>5, <1>6, <1>7 DEF Next

LEMMA RefStep ==
    ASSUME RefInv, \A v, w \in Workers : v = w, [Next]_vars
    PROVE  RefInv'
<1>1. TypeInv' /\ \A r \in Rows : Present(r)' => r \in released'
  BY TypeStep, RowsWereReleased DEF RefInv
<1>2. ASSUME NEW w \in Workers, NEW r \in Rows, Holds(w, r)'
      PROVE  row'[r].state = "pending"
  BY <1>2, HeldIsClaimed, HeldStaysPending DEF RefInv
<1>3. ASSUME NEW w \in Workers, Busy(w)', Superseded(cur[w])' PROVE FALSE
  <2>1. PICK s \in Rows : Newer(cur'[w], s) /\ row'[s].state = "sent"
    BY <1>3 DEF Superseded, Newer
  <2>2. Busy(w) /\ cur'[w] = cur[w] /\ row[s].state # "sent"
    BY <1>3, <2>1, BusyWasChecked DEF Superseded, RefInv
  <2>3. Commit(w) /\ cur[w] = s
    BY <2>1, <2>2, OnlyCommitSends DEF RefInv
  <2>. QED BY <1>3, <2>3, CommitLetsGo DEF RefInv
<1>4. ASSUME NEW w \in Workers, Acknowledged(w)' PROVE (cur[w] \in acked)'
  BY <1>4, AcknowledgedBySend, AckedGrows DEF RefInv
<1>. QED BY <1>1, <1>2, <1>3, <1>4 DEF RefInv

LEMMA RefInit == Init => RefInv
<1>1. Init => /\ \A r \in Rows : ~Present(r)
              /\ \A w \in Workers : ~Busy(w) /\ ~Acknowledged(w)
              /\ \A w \in Workers, r \in Rows : ~Holds(w, r)
  BY RowsAreNumbered DEF Init, Present, Busy, Acknowledged, NoRow, Holds
<1>. QED BY <1>1, TypeInit DEF RefInv

-----------------------------------------------------------------------------
(* The simulation.                                                          *)

\* One row's state changes, in the table and in its image.
LEMMA ImageMoves ==
    ASSUME NEW r \in Rows, \A s \in Rows \ {r} : Still(s)
    PROVE  States1' = [States1 EXCEPT ![r] = row'[r].state]
  BY DEF States1, Still

LEMMA ImageStill ==
    ASSUME \A r \in Rows : Still(r)
    PROVE  States1' = States1
  BY DEF States1, Still

\* What the target has is changed by a send alone.
LEMMA TargetChangedBySend ==
    [Next]_vars =>
        \/ UNCHANGED <<doc, acked>>
        \/ \E w \in Workers : Send(w) /\ row' = row
  BY DEF Next, Tick, Time, ReclaimRead, ReclaimWrite, ClaimBatch, SkipRow, CheckRow, AbortTick,
     RevalidateRejects, Prepare, PrepareFails, Send, Commit, ProcessRaises, Crash, ClaimAges,
     BackoffElapses, Release, RacingRelease, FileChanges, Replay, Prune, SwitchOff, vars, remote

LEMMA ImageDelivers ==
    ASSUME NEW r \in Rows, row[r].state = "pending", row' = row,
           \A s \in Rows : (Lineage[s] = Lineage[r] /\ s > r) => row[s].state # "sent",
           acked' = acked \/ acked' = acked \cup {r},
           doc' = doc \/ doc' = [doc EXCEPT ![Lineage[r]] = r]
    PROVE  Outbox!Deliver(r)
  BY DEF Outbox!Deliver

LEMMA Simulates ==
    ASSUME RefInv, \A v, w \in Workers : v = w, [Next]_vars
    PROVE  [Outbox!Next]_Outbox!vars
<1>1. CASE UNCHANGED <<doc, acked>>
  <2>1. CASE \A r \in Rows : Still(r)
    <3>1. States1' = States1
      BY <2>1, ImageStill
    <3>. QED BY <1>1, <3>1 DEF Outbox!vars, States1
  <2>2. ASSUME NEW r \in Rows, Move(r), \A s \in Rows \ {r} : Still(s)
        PROVE  Outbox!Next
    <3>1. States1' = [States1 EXCEPT ![r] = row'[r].state] /\ States1[r] = row[r].state
      BY <2>2, ImageMoves DEF States1
    <3>2. CASE Present(r)' /\ ~Present(r) /\ row'[r].state = "pending"
      <4>1. Outbox!Enqueue(r)
        BY <1>1, <3>1, <3>2 DEF Outbox!Enqueue, States1, Present, NoRow
      <4>. QED BY <4>1 DEF Outbox!Next
    <3>3. CASE row[r].state = "pending" /\ row'[r].state \in {"failed", "skipped"}
      <4>1. ASSUME NEW x \in {"failed", "skipped"}, row'[r].state = x
            PROVE  Outbox!Settle(r, x) /\ x \in Outbox!Settled
        BY <1>1, <3>1, <3>3, <4>1 DEF Outbox!Settle, Outbox!Settled, States1
      <4>. QED BY <3>3, <4>1 DEF Outbox!Next
    <3>4. CASE \E w \in Workers : Commit(w) /\ cur[w] = r /\ Acknowledged(w) /\ row'[r].state = "sent"
      <4>1. row[r].state = "pending" /\ r \in acked /\ row'[r].state = "sent"
        BY <3>4, BusyFacts DEF RefInv, Commit, Busy
      <4>2. Outbox!Settle(r, "sent")
        BY <1>1, <3>1, <4>1 DEF Outbox!Settle, States1
      <4>. QED BY <4>2 DEF Outbox!Next, Outbox!Settled
    <3>5. CASE row[r].state \in {"failed", "skipped"} /\ row'[r].state = "pending"
      <4>1. Outbox!Reopen(r)
        BY <1>1, <3>1, <3>5 DEF Outbox!Reopen, States1
      <4>. QED BY <4>1 DEF Outbox!Next
    <3>6. CASE row[r].state = "sent" /\ row'[r].state = "absent"
      <4>1. Outbox!Forget(r)
        BY <1>1, <3>1, <3>6 DEF Outbox!Forget, States1
      <4>. QED BY <4>1 DEF Outbox!Next
    <3>. QED BY <2>2, <3>2, <3>3, <3>4, <3>5, <3>6 DEF Move
  <2>. QED BY <2>1, <2>2, OneMoves
<1>2. ASSUME NEW w \in Workers, Send(w), row' = row
      PROVE  Outbox!Next
  <2>1. Busy(w)
    BY <1>2 DEF Send, Busy
  <2>2. PICK r \in Rows : r = cur[w] /\ row[r].state = "pending"
    BY <2>1, BusyFacts
  <2>3. /\ doc' = doc \/ doc' = [doc EXCEPT ![Lineage[r]] = r]
        /\ acked' = acked \/ acked' = acked \cup {r}
    BY <1>2, <2>2 DEF Send
  <2>4. \A s \in Rows : (Lineage[s] = Lineage[r] /\ s > r) => row[s].state # "sent"
    BY <2>1, <2>2 DEF RefInv, Superseded, Newer
  <2>5. Outbox!Deliver(r)
    BY <1>2, <2>2, <2>3, <2>4, ImageDelivers
  <2>. QED BY <2>2, <2>5 DEF Outbox!Next
<1>. QED BY <1>1, <1>2, TargetChangedBySend

LEMMA MapsInit == Init => Outbox!Init
  BY DEF Init, Outbox!Init, Outbox!Lineages, Lineages, NoRow

\* The worker's claims, copies, rollbacks, reschedules, crashes and reclaims, the racing
\* release, the operator and the prune together are an outbox as PublicationOutbox
\* specifies it (ecm_publication/worker.py:102-310), with one worker.
THEOREM ImplementsOutbox ==
    ASSUME \A v, w \in Workers : v = w
    PROVE  Spec => OutboxSpec
<1>1. Init => RefInv
  BY RefInit
<1>2. RefInv /\ [Next]_vars => RefInv'
  BY RefStep
<1>3. RefInv /\ [Next]_vars => [Outbox!Next]_Outbox!vars
  BY Simulates
<1>. QED BY <1>1, <1>2, <1>3, MapsInit, PTL DEF Spec, OutboxSpec, Outbox!Spec

-----------------------------------------------------------------------------
(* SENT is final.                                                           *)

\* No step of one worker, of the operator or of a racing release takes a row out of
\* SENT; the prune deletes it (service.py:225-239, worker.py:150-310).
THEOREM SentRowsStaySent ==
    ASSUME \A v, w \in Workers : v = w
    PROVE  Spec => SentIsFinal
<1>. DEFINE Final == \A r \in Rows : row[r].state = "sent" => row'[r].state \in {"sent", "absent"}
<1>1. ASSUME RefInv, [Next]_vars PROVE [Final]_row
  <2>1. CASE \A r \in Rows : Still(r)
    BY <2>1 DEF Still
  <2>2. ASSUME NEW r \in Rows, Move(r), \A s \in Rows \ {r} : Still(s) PROVE Final
    <3>1. row[r].state = "sent" => row'[r].state \in {"sent", "absent"}
      <4>1. ASSUME NEW w \in Workers, Commit(w), cur[w] = r PROVE row[r].state = "pending"
        BY <1>1, <4>1, BusyFacts DEF Commit, Busy
      <4>2. ASSUME ~Present(r) PROVE row[r].state = "absent"
        BY <4>2 DEF Present, NoRow
      <4>. QED BY <2>2, <4>1, <4>2 DEF Move
    <3>. QED BY <2>2, <3>1 DEF Still
  <2>. QED BY <1>1, <2>1, <2>2, OneMoves
<1>2. RefInv /\ [Next]_vars => RefInv'
  BY RefStep
<1>. QED BY <1>1, <1>2, RefInit, PTL DEF Spec, SentIsFinal

-----------------------------------------------------------------------------
(* The budget of sends.                                                     *)

\* A send is paid for by an attempt: one counted in the row, or in the worker's copy
\* until the result is committed, or lost in a crash.  A pending row has an attempt left,
\* unless a race reopened it.
InHand(r) == \E w \in Workers : pc[w] = "done" /\ cur[w] = r

TablePays(r) ==
    /\ r \notin released => sends[r] = 0
    /\ ~Present(r) => sends[r] <= MaxAttempts + crashes + races
    /\ Present(r) /\ ~InHand(r) => sends[r] <= row[r].attempts + crashes
    /\ Present(r) => row[r].attempts <= MaxAttempts + races
    /\ row[r].state = "pending" => row[r].attempts < MaxAttempts + races

CopyPays(w, r) ==
    /\ r \in queue[w] /\ ~expired[w] => mem[w][r].attempts = row[r].attempts
    /\ cur[w] = r /\ pc[w] = "checked" => mem[w][r].attempts = row[r].attempts
    /\ cur[w] = r /\ pc[w] = "ready" => mem[w][r].attempts = row[r].attempts + 1
    /\ cur[w] = r /\ pc[w] = "done" =>
            /\ mem[w][r].attempts \in {row[r].attempts, row[r].attempts + 1}
            /\ sends[r] <= mem[w][r].attempts + crashes

BudgetInv ==
    /\ RefInv
    /\ \A r \in Rows : TablePays(r)
    /\ \A w \in Workers, r \in Rows : CopyPays(w, r)

LEMMA BudgetInit == Init => BudgetInv
<1>. SUFFICES ASSUME Init PROVE BudgetInv
  OBVIOUS
<1>1. \A r \in Rows : row[r] = NoRow /\ row[r].state # "pending" /\ sends[r] = 0
  BY DEF Init, NoRow
<1>2. \A w \in Workers : pc[w] = "idle" /\ queue[w] = {}
  BY DEF Init
<1>3. crashes = 0 /\ races = 0 /\ MaxAttempts \in Nat
  BY BoundsAreNat DEF Init
<1>4. \A r \in Rows : TablePays(r)
  BY <1>1, <1>3 DEF TablePays, Present
<1>5. \A w \in Workers, r \in Rows : CopyPays(w, r)
  BY <1>2 DEF CopyPays
<1>. QED BY <1>4, <1>5, RefInit DEF BudgetInv

\* The invariant bounds the sends.
LEMMA BudgetBounds == BudgetInv => SendsWithinBudget
<1>. SUFFICES ASSUME BudgetInv, NEW r \in Rows PROVE sends[r] <= MaxAttempts + crashes + races
  BY DEF SendsWithinBudget
<1>0. /\ sends[r] \in Nat /\ crashes \in Nat /\ races \in Nat /\ MaxAttempts \in Nat
      /\ Present(r) => row[r] \in Row /\ row[r].attempts \in Nat
  BY RowFacts, BoundsAreNat DEF BudgetInv, RefInv, TypeInv, TypeOK, Present
<1>1. CASE ~Present(r)
  BY <1>1 DEF BudgetInv, TablePays
<1>2. CASE Present(r) /\ ~InHand(r)
  BY <1>0, <1>2 DEF BudgetInv, TablePays
<1>3. ASSUME NEW w \in Workers, pc[w] = "done", cur[w] = r PROVE sends[r] <= MaxAttempts + crashes + races
  <2>1. Busy(w) /\ Holds(w, r)
    BY <1>3 DEF Busy, Holds
  <2>2. row[r].state = "pending"
    BY <2>1 DEF BudgetInv, RefInv
  <2>3. Present(r) /\ row[r].attempts < MaxAttempts + races
    BY <2>2 DEF BudgetInv, TablePays, Present, NoRow
  <2>4. mem[w][r].attempts \in {row[r].attempts, row[r].attempts + 1} /\ sends[r] <= mem[w][r].attempts + crashes
    BY <1>3 DEF BudgetInv, CopyPays
  <2>. QED BY <1>0, <2>3, <2>4
<1>. QED BY <1>1, <1>2, <1>3 DEF InHand

\* What the helpers do to the attempts of a row.
LEMMA HelperAttempts ==
    /\ \A x \in Row, fp \in Fps : Reenqueued(x, fp).attempts = x.attempts
    /\ \A x \in Row, y \in Row : Skipped(x, y).attempts = x.attempts /\ Skipped(x, y).state = "skipped"
    /\ \A x \in Row, c \in {"none", "fresh", "stale"} :
            [x EXCEPT !.claim = c].attempts = x.attempts /\ [x EXCEPT !.claim = c].state = x.state
    /\ \A x \in Row, y \in Row, why \in Reasons :
            /\ Result(x, y, why).attempts = y.attempts
            /\ Result(x, y, why).state = "pending" => y.attempts < MaxAttempts
    /\ \A x \in Row : /\ Deferred(x).attempts = x.attempts + 1
                      /\ Deferred(x).state = "pending" => x.attempts + 1 < MaxAttempts
<1>1. ASSUME NEW x \in Row, NEW fp \in Fps PROVE Reenqueued(x, fp).attempts = x.attempts
  BY DEF Reenqueued, Row
<1>2. ASSUME NEW x \in Row, NEW y \in Row
      PROVE  Skipped(x, y).attempts = x.attempts /\ Skipped(x, y).state = "skipped"
  BY DEF Skipped, Row
<1>3. ASSUME NEW x \in Row, NEW c \in {"none", "fresh", "stale"}
      PROVE  [x EXCEPT !.claim = c].attempts = x.attempts /\ [x EXCEPT !.claim = c].state = x.state
  BY DEF Row
<1>4. ASSUME NEW x \in Row, NEW y \in Row, NEW why \in Reasons
      PROVE  /\ Result(x, y, why).attempts = y.attempts
             /\ Result(x, y, why).state = "pending" => y.attempts < MaxAttempts
  <2>0. y.attempts \in Nat /\ MaxAttempts \in Nat
    BY BoundsAreNat DEF Row
  <2>1. Sent(x, y).attempts = y.attempts /\ Sent(x, y).state = "sent"
    BY DEF Sent, Row
  <2>2. Failed(x, y, why).attempts = y.attempts /\ Failed(x, y, why).state = "failed"
    BY DEF Failed, Row
  <2>3. /\ Rescheduled(x, y, why).attempts = y.attempts
        /\ Rescheduled(x, y, why).state = "pending" => y.attempts < MaxAttempts
    <3>1. CASE y.attempts >= MaxAttempts
      <4>1. Rescheduled(x, y, why) = [Failed(x, y, why) EXCEPT !.claim = "none"]
        BY <3>1 DEF Rescheduled
      <4>2. Failed(x, y, why) \in Row
        BY DEF Failed, Row, States
      <4>. QED BY <2>2, <4>1, <4>2, <1>3
    <3>2. CASE ~(y.attempts >= MaxAttempts)
      <4>1. Rescheduled(x, y, why).attempts = y.attempts
        BY <3>2 DEF Rescheduled, Row
      <4>. QED BY <2>0, <3>2, <4>1
    <3>. QED BY <3>1, <3>2
  <2>. QED BY <2>1, <2>2, <2>3 DEF Result
<1>5. ASSUME NEW x \in Row
      PROVE  /\ Deferred(x).attempts = x.attempts + 1
             /\ Deferred(x).state = "pending" => x.attempts + 1 < MaxAttempts
  <2>. DEFINE y == [x EXCEPT !.attempts = @ + 1, !.claim = "none"]
  <2>0. y.attempts = x.attempts + 1 /\ x.attempts + 1 \in Nat /\ MaxAttempts \in Nat /\ y \in Row
    <3>1. ASSUME NEW n \in Nat PROVE [x EXCEPT !.attempts = n, !.claim = "none"] \in Row
      BY DEF Row
    <3>2. x.attempts + 1 \in Nat /\ MaxAttempts \in Nat
      BY BoundsAreNat DEF Row
    <3>3. y \in Row
      BY <3>1, <3>2
    <3>. QED BY <3>2, <3>3 DEF Row
  <2>1. [y EXCEPT !.state = "failed", !.reason = "remote_error"].attempts = y.attempts
        /\ [y EXCEPT !.state = "failed", !.reason = "remote_error"].state = "failed"
        /\ [y EXCEPT !.due = FALSE].attempts = y.attempts
    BY <2>0 DEF Row
  <2>. HIDE DEF y
  <2>2. Deferred(x) = IF y.attempts >= MaxAttempts
                      THEN [y EXCEPT !.state = "failed", !.reason = "remote_error"]
                      ELSE [y EXCEPT !.due = FALSE]
    BY DEF Deferred, y
  <2>. QED BY <2>0, <2>1, <2>2
<1>. QED BY <1>1, <1>2, <1>3, <1>4, <1>5

\* Row r keeps its place in the table, its state and its attempts.
Same(r) == (Present(r)' <=> Present(r)) /\ Still(r) /\ row'[r].attempts = row[r].attempts

\* The table pays as before for a row that is left alone; a crash or a race only leaves
\* it more.
LEMMA SameTablePays ==
    ASSUME TypeInv, TypeInv', NEW r \in Rows, TablePays(r), Same(r), sends'[r] = sends[r],
           r \in released => r \in released', crashes' >= crashes, races' >= races,
           InHand(r) => InHand(r)'
    PROVE  TablePays(r)'
<1>1. /\ sends[r] \in Nat /\ crashes \in Nat /\ crashes' \in Nat /\ races \in Nat /\ races' \in Nat
      /\ MaxAttempts \in Nat
      /\ Present(r) => row[r].attempts \in Nat
  BY RowFacts, BoundsAreNat DEF TypeInv, TypeOK, Present
<1>2. row[r].state = "pending" => Present(r)
  BY DEF Present, NoRow
<1>. QED BY <1>1, <1>2 DEF TablePays, Same, Still

\* So does the copy, while the worker does nothing with the row.
LEMMA SameCopyPays ==
    ASSUME NEW w \in Workers, NEW r \in Rows, CopyPays(w, r), Same(r), sends'[r] = sends[r],
           crashes' = crashes, UNCHANGED <<pc, queue, cur, mem, expired>>
    PROVE  CopyPays(w, r)'
  BY DEF CopyPays, Same

\* A step of one worker keeps the budget.
LEMMA BudgetStep ==
    ASSUME BudgetInv, \A v, w \in Workers : v = w, [Next]_vars
    PROVE  BudgetInv'
<1>. DEFINE Pays(r) == TablePays(r)' /\ \A w \in Workers : CopyPays(w, r)'
<1>1. RefInv /\ RefInv' /\ TypeInv /\ TypeInv' /\ TypeOK
  BY RefStep DEF BudgetInv, RefInv, TypeInv
<1>2. /\ row \in [Rows -> Row \cup {NoRow}]
      /\ \A r \in Rows : Present(r) => row[r] \in Row /\ row[r].attempts \in Nat
      /\ \A r \in Rows : row[r].state \in States => Present(r)
  BY <1>1, RowFacts DEF TypeInv, TypeOK, Present, States, NoRow
<1>3. ASSUME NEW r \in Rows, Same(r), UNCHANGED <<pc, queue, cur, mem, expired>>,
             sends'[r] = sends[r], released \subseteq released', crashes' = crashes, races' >= races
      PROVE  Pays(r)
  <2>1. crashes' >= crashes /\ (InHand(r) => InHand(r)')
    BY <1>1, <1>3 DEF InHand, TypeOK
  <2>2. TablePays(r)'
    BY <1>1, <1>3, <2>1, SameTablePays DEF BudgetInv
  <2>. QED BY <1>3, <2>2, SameCopyPays DEF BudgetInv
\* The worker's own steps.
<1>4. ASSUME NEW w \in Workers, Tick(w) \/ Crash(w), NEW r \in Rows PROVE Pays(r)
  <2>0. \A v \in Workers : v = w
    OBVIOUS
  <2>1. InHand(r) <=> pc[w] = "done" /\ cur[w] = r
    BY <2>0 DEF InHand
  <2>2. InHand(r)' <=> pc'[w] = "done" /\ cur'[w] = r
    BY <2>0 DEF InHand
  <2>3. TablePays(r) /\ CopyPays(w, r)
    BY DEF BudgetInv
  <2>4. SUFFICES TablePays(r)' /\ CopyPays(w, r)'
    BY <2>0
  <2>5. /\ sends[r] \in Nat /\ crashes \in Nat /\ races \in Nat /\ MaxAttempts \in Nat
        /\ released \subseteq released /\ races >= races /\ crashes >= crashes
    BY <1>1, BoundsAreNat DEF TypeOK
  \* Nothing of the row or of the account moves, and the row is not in the worker's hands.
  <2>6. ASSUME Same(r), UNCHANGED <<released, sends, crashes, races>>,
               InHand(r) => InHand(r)'
        PROVE  TablePays(r)'
    BY <1>1, <2>3, <2>5, <2>6, SameTablePays
  <2>7. CASE ReclaimRead(w) \/ ReclaimWrite(w)
    <3>1. Same(r)
      <4>1. CASE row'[r] = row[r]
        BY <4>1 DEF Same, Still, Present
      <4>2. CASE row'[r] # row[r]
        <5>1. row[r] \in Row /\ row'[r] = [row[r] EXCEPT !.claim = "none"] /\ row'[r] \in Row
          BY <1>2, <2>7, <4>2, HelpersGiveRows DEF ReclaimRead, ReclaimWrite
        <5>. QED BY <5>1, HelperAttempts, RowFacts DEF Same, Still, Present
      <4>. QED BY <4>1, <4>2
    <3>2. pc[w] \in {"idle", "reclaim"} /\ pc'[w] \in {"claim", "reclaim"}
      BY <1>1, <2>7 DEF ReclaimRead, ReclaimWrite, TypeOK
    <3>3. UNCHANGED <<released, sends, crashes, races, queue, cur, mem, expired>>
      BY <2>7 DEF ReclaimRead, ReclaimWrite, remote, bounds
    <3>. QED BY <2>1, <2>2, <2>3, <2>6, <3>1, <3>2, <3>3 DEF CopyPays, Same
  <2>8. CASE ClaimBatch(w)
    <3>1. PICK batch \in SUBSET {s \in Rows : Claimable(s)} :
            /\ row' = [s \in Rows |-> IF s \in batch THEN [row[s] EXCEPT !.claim = "fresh"] ELSE row[s]]
            /\ queue' = [queue EXCEPT ![w] = batch]
            /\ mem' = [mem EXCEPT ![w] = [s \in Rows |-> IF s \in batch THEN row'[s] ELSE NoRow]]
            /\ pc' = [pc EXCEPT ![w] = IF batch = {} THEN "idle" ELSE "batch"]
      BY <2>8 DEF ClaimBatch
    <3>2. \A s \in batch : row[s] \in Row
      BY <1>2 DEF Claimable, States
    <3>3. Same(r)
      BY <1>2, <3>1, <3>2, HelpersGiveRows, HelperAttempts, RowFacts DEF Same, Still, Present
    <3>4. pc[w] = "claim" /\ pc'[w] \in {"idle", "batch"}
          /\ UNCHANGED <<released, sends, crashes, races>>
      BY <1>1, <2>8, <3>1 DEF ClaimBatch, TypeOK, remote, bounds
    <3>5. r \in queue'[w] => mem'[w][r].attempts = row'[r].attempts
      BY <1>1, <3>1 DEF TypeOK
    <3>. QED BY <2>1, <2>2, <2>6, <3>3, <3>4, <3>5 DEF CopyPays
  <2>9. CASE CheckRow(w)
    <3>1. PICK s \in queue[w] :
            /\ Present(s) \/ ~expired[w]
            /\ mem' = [mem EXCEPT ![w][s] = Copy(w, s)]
            /\ queue' = [queue EXCEPT ![w] = @ \ {s}]
            /\ cur' = [cur EXCEPT ![w] = s]
      BY <2>9 DEF CheckRow
    <3>2. /\ pc[w] = "batch" /\ pc'[w] = "checked" /\ cur'[w] = s /\ s \in Rows
          /\ UNCHANGED <<row, released, sends, crashes, races, expired>>
      BY <1>1, <2>9, <3>1 DEF CheckRow, TypeOK, remote, bounds
    <3>3. Copy(w, s).attempts = row[s].attempts
      BY <3>1, <3>2 DEF Copy, BudgetInv, CopyPays
    <3>4. mem'[w][s] = Copy(w, s) /\ (r # s => mem'[w][r] = mem[w][r])
      BY <1>1, <3>1, <3>2 DEF TypeOK
    <3>5. Same(r) /\ TablePays(r)'
      BY <2>1, <2>6, <3>2 DEF Same, Still, Present
    <3>6. queue'[w] = queue[w] \ {s}
      BY <1>1, <3>1 DEF TypeOK
    <3>. QED BY <2>3, <3>2, <3>3, <3>4, <3>5, <3>6 DEF CopyPays
  <2>10. CASE AbortTick(w)
    <3>1. /\ pc[w] = "batch" /\ pc'[w] = "idle" /\ queue'[w] = {}
          /\ UNCHANGED <<row, released, sends, crashes, races>>
      BY <1>1, <2>10 DEF AbortTick, TypeOK, remote, bounds
    <3>2. TablePays(r)'
      BY <2>1, <2>6, <3>1 DEF Same, Still, Present
    <3>. QED BY <3>1, <3>2 DEF CopyPays
  <2>11. CASE Crash(w)
    <3>1. /\ pc'[w] = "idle" /\ queue'[w] = {} /\ crashes' = crashes + 1
          /\ UNCHANGED <<row, released, sends, races>>
      BY <1>1, <2>11 DEF Crash, TypeOK, remote
    <3>2. CASE ~InHand(r)
      <4>1. Same(r) /\ crashes' >= crashes /\ races' >= races /\ sends'[r] = sends[r]
        BY <2>5, <3>1 DEF Same, Still, Present
      <4>2. TablePays(r)'
        BY <1>1, <2>3, <3>1, <3>2, <4>1, SameTablePays
      <4>. QED BY <3>1, <4>2 DEF CopyPays
    <3>3. CASE InHand(r)
      <4>1. Present(r) /\ row[r].attempts \in Nat /\ row[r].attempts < MaxAttempts + races
        BY <1>1, <1>2, <2>1, <2>3, <3>3 DEF RefInv, Holds, TablePays, States
      <4>2. sends[r] <= row[r].attempts + 1 + crashes
        BY <2>1, <2>3, <2>5, <3>3, <4>1 DEF CopyPays
      <4>3. TablePays(r)'
        BY <2>3, <2>5, <3>1, <4>1, <4>2 DEF TablePays, Present
      <4>. QED BY <3>1, <4>3 DEF CopyPays
    <3>. QED BY <3>2, <3>3
  \* Between the check and the commit.
  <2>12. CASE Prepare(w)
    <3>1. /\ pc[w] = "checked" /\ pc'[w] = "ready"
          /\ mem' = [mem EXCEPT ![w][cur[w]].attempts = @ + 1]
          /\ UNCHANGED <<row, released, sends, crashes, races, queue, cur, expired>>
      BY <1>1, <2>12 DEF Prepare, TypeOK, remote, bounds
    <3>2. cur[w] \in Rows /\ mem[w][cur[w]] \in Row /\ cur[w] \notin queue[w]
      BY <1>1, <3>1 DEF TypeInv, CopiesOK, Busy
    <3>3. TablePays(r)'
      BY <2>1, <2>6, <3>1 DEF Same, Still, Present
    <3>4. mem'[w][cur[w]].attempts = mem[w][cur[w]].attempts + 1
          /\ (r # cur[w] => mem'[w][r] = mem[w][r])
      BY <1>1, <3>1, <3>2 DEF TypeOK, Row
    <3>. QED BY <2>3, <3>1, <3>2, <3>3, <3>4 DEF CopyPays
  <2>13. CASE PrepareFails(w)
    <3>1. PICK why \in {"adapter_error", "validation_error"} :
            mem' = [mem EXCEPT ![w][cur[w]].attempts = IF why = "adapter_error" THEN @ + 1 ELSE @]
      BY <2>13 DEF PrepareFails
    <3>2. /\ pc[w] = "checked" /\ pc'[w] = "done"
          /\ UNCHANGED <<row, released, sends, crashes, races, queue, cur, expired>>
      BY <1>1, <2>13 DEF PrepareFails, TypeOK, remote, bounds
    <3>3. cur[w] \in Rows /\ mem[w][cur[w]] \in Row /\ cur[w] \notin queue[w]
      BY <1>1, <3>2 DEF TypeInv, CopiesOK, Busy
    <3>4. /\ mem'[w][cur[w]].attempts \in {mem[w][cur[w]].attempts, mem[w][cur[w]].attempts + 1}
          /\ (r # cur[w] => mem'[w][r] = mem[w][r])
      BY <1>1, <3>1, <3>3 DEF TypeOK, Row
    <3>5. TablePays(r)'
      BY <2>1, <2>2, <2>6, <3>2 DEF Same, Still, Present
    <3>6. CASE cur[w] # r
      BY <2>3, <3>2, <3>4, <3>5, <3>6 DEF CopyPays
    <3>7. CASE cur[w] = r
      <4>1. Present(r) /\ ~InHand(r) /\ row[r].attempts \in Nat
        BY <1>1, <1>2, <2>1, <3>2, <3>7 DEF RefInv, Holds, States
      <4>. QED BY <2>3, <2>5, <3>2, <3>3, <3>4, <3>5, <3>7, <4>1 DEF CopyPays, TablePays
    <3>. QED BY <3>6, <3>7
  <2>14. CASE Send(w)
    <3>1. /\ pc[w] = "ready" /\ pc'[w] = "done" /\ sends' = [sends EXCEPT ![cur[w]] = @ + 1]
          /\ UNCHANGED <<row, released, crashes, races, queue, cur, mem, expired>>
      BY <1>1, <2>14 DEF Send, TypeOK, bounds
    <3>2. cur[w] \in Rows /\ cur[w] \notin queue[w]
      BY <1>1, <3>1 DEF TypeInv, CopiesOK, Busy
    <3>3. CASE cur[w] # r
      <4>1. Same(r) /\ sends'[r] = sends[r] /\ (InHand(r) => InHand(r)')
        BY <1>1, <2>1, <3>1, <3>3 DEF Same, Still, Present, TypeOK
      <4>2. TablePays(r)'
        BY <1>1, <2>3, <2>5, <3>1, <4>1, SameTablePays
      <4>. QED BY <2>3, <3>1, <3>3, <4>1, <4>2 DEF CopyPays
    <3>4. CASE cur[w] = r
      <4>1. Present(r) /\ ~InHand(r) /\ row[r].attempts \in Nat
        BY <1>1, <1>2, <2>1, <3>1, <3>4 DEF RefInv, Holds, States
      <4>2. sends'[r] = sends[r] + 1 /\ r \in released
        BY <1>1, <3>1, <3>4, <4>1 DEF TypeOK, RefInv
      <4>3. TablePays(r)'
        BY <2>2, <2>3, <2>5, <3>1, <3>4, <4>1, <4>2 DEF TablePays, Present
      <4>4. mem[w][r].attempts = row[r].attempts + 1 /\ sends[r] <= row[r].attempts + crashes
        BY <2>3, <3>1, <3>4, <4>1 DEF CopyPays, TablePays
      <4>5. sends'[r] <= mem[w][r].attempts + crashes
        BY <2>5, <4>1, <4>2, <4>4
      <4>. QED BY <3>1, <3>2, <3>4, <4>3, <4>4, <4>5 DEF CopyPays
    <3>. QED BY <3>3, <3>4
  \* The worker goes on without row s.
  <2>15. ASSUME NEW s \in Rows, Holds(w, s), Busy(w) => cur[w] = s, \A q \in Rows \ {s} : row'[q] = row[q],
                queue'[w] = queue[w] \ {s}, cur'[w] = 0, pc'[w] \in {"idle", "batch"},
                \A q \in queue'[w] : expired'[w] \/ (~expired[w] /\ mem'[w][q] = mem[w][q]),
                UNCHANGED <<released, sends, crashes, races>>,
                row'[s] \in Row, row'[s].attempts \in {row[s].attempts, row[s].attempts + 1},
                ~InHand(s) \/ sends[s] <= row'[s].attempts + crashes,
                row'[s].state = "pending" => row'[s].attempts < MaxAttempts + races
         PROVE  TablePays(r)' /\ CopyPays(w, r)'
    <3>1. s \in released /\ Present(s) /\ row[s].attempts \in Nat /\ row[s].attempts < MaxAttempts + races
      BY <1>1, <1>2, <2>15 DEF RefInv, BudgetInv, TablePays, States
    <3>2. ~InHand(r)'
      BY <2>2, <2>15
    <3>3. CASE r # s
      <4>1. Same(r)
        BY <2>15, <3>3 DEF Same, Still, Present
      <4>2. ~InHand(r)
        BY <2>1, <2>15, <3>3 DEF Busy
      <4>3. TablePays(r)'
        BY <2>6, <2>15, <4>1, <4>2
      <4>. QED BY <2>3, <2>15, <4>1, <4>3, RowsAreNumbered DEF CopyPays, Same
    <3>4. CASE r = s
      <4>1. Present(r)' /\ row'[r].attempts \in Nat
        BY <2>15, <3>4, RowFacts DEF Present
      <4>2. sends[r] <= row'[r].attempts + crashes
        BY <2>3, <2>5, <2>15, <3>1, <3>4 DEF TablePays
      <4>3. TablePays(r)'
        BY <2>5, <2>15, <3>1, <3>4, <4>1, <4>2 DEF TablePays
      <4>. QED BY <2>15, <3>4, <4>3, RowsAreNumbered DEF CopyPays
    <3>. QED BY <3>3, <3>4
  <2>16. CASE SkipRow(w)
    <3>1. PICK s \in queue[w] :
            /\ row' = [row EXCEPT ![s] = [Skipped(@, Copy(w, s)) EXCEPT !.claim = "none"]]
            /\ NextInBatch(w, s)
      BY <2>16 DEF SkipRow
    <3>2. /\ s \in Rows /\ Holds(w, s) /\ pc[w] = "batch" /\ ~Busy(w) /\ ~InHand(s)
          /\ UNCHANGED <<released, sends, crashes, races>>
      BY <1>1, <2>0, <2>16, <3>1 DEF SkipRow, Holds, Busy, InHand, TypeOK, remote, bounds, NextInBatch
    <3>3. row[s] \in Row /\ Copy(w, s) \in Row
      BY <1>1, <1>2, <3>1, <3>2 DEF RefInv, TypeInv, CopiesOK, Copy, States
    <3>4. Skipped(row[s], Copy(w, s)) \in Row /\ Skipped(row[s], Copy(w, s)).attempts = row[s].attempts
          /\ Skipped(row[s], Copy(w, s)).state = "skipped"
      BY <3>3, HelpersGiveRows, HelperAttempts
    <3>5. row'[s] \in Row /\ row'[s].attempts = row[s].attempts /\ row'[s].state = "skipped"
      BY <1>2, <3>1, <3>2, <3>4, HelpersGiveRows, HelperAttempts
    <3>6. \A q \in Rows \ {s} : row'[q] = row[q]
      BY <1>2, <3>1, <3>2
    <3>7. /\ queue'[w] = queue[w] \ {s} /\ cur'[w] = 0 /\ pc'[w] \in {"idle", "batch"}
          /\ \A q \in queue'[w] : expired'[w] \/ (~expired[w] /\ mem'[w][q] = mem[w][q])
      BY <1>1, <3>1, <3>2 DEF NextInBatch, TypeOK
    <3>. QED BY <2>15, <3>2, <3>5, <3>6, <3>7
  <2>17. CASE RevalidateRejects(w)
    <3>1. /\ pc[w] = "checked" /\ row' = [row EXCEPT ![cur[w]] = Skipped(@, mem[w][cur[w]])]
          /\ NextInBatch(w, cur[w]) /\ UNCHANGED <<released, sends, crashes, races>>
      BY <2>17 DEF RevalidateRejects, remote, bounds, NextInBatch
    <3>2. /\ cur[w] \in Rows /\ mem[w][cur[w]] \in Row /\ row[cur[w]] \in Row
          /\ Holds(w, cur[w]) /\ ~InHand(cur[w])
      BY <1>1, <2>0, <3>1, BusyFacts DEF Busy, Holds, InHand
    <3>3. /\ row'[cur[w]] \in Row /\ row'[cur[w]].attempts = row[cur[w]].attempts
          /\ row'[cur[w]].state = "skipped"
      <4>1. row'[cur[w]] = Skipped(row[cur[w]], mem[w][cur[w]])
        BY <1>2, <3>1, <3>2
      <4>2. ASSUME NEW x \in Row, NEW y \in Row
            PROVE  Skipped(x, y) \in Row /\ Skipped(x, y).attempts = x.attempts
                   /\ Skipped(x, y).state = "skipped"
        BY HelpersGiveRows, HelperAttempts
      <4>. QED BY <3>2, <4>1, <4>2
    <3>4. \A q \in Rows \ {cur[w]} : row'[q] = row[q]
      BY <1>2, <3>1, <3>2
    <3>5. /\ queue'[w] = queue[w] \ {cur[w]} /\ cur'[w] = 0 /\ pc'[w] \in {"idle", "batch"}
          /\ \A q \in queue'[w] : expired'[w] \/ (~expired[w] /\ mem'[w][q] = mem[w][q])
      BY <1>1, <3>1, <3>2 DEF NextInBatch, TypeOK
    <3>. QED BY <2>15, <3>1, <3>2, <3>3, <3>4, <3>5
  <2>18. CASE Commit(w)
    <3>1. /\ pc[w] = "done" /\ row' = [row EXCEPT ![cur[w]] = Result(@, mem[w][cur[w]], outcome[w])]
          /\ NextInBatch(w, cur[w]) /\ UNCHANGED <<released, sends, crashes, races>>
      BY <2>18 DEF Commit, bounds, NextInBatch
    <3>2. /\ cur[w] \in Rows /\ mem[w][cur[w]] \in Row /\ row[cur[w]] \in Row /\ outcome[w] \in Reasons
          /\ Holds(w, cur[w])
      BY <1>1, <3>1, BusyFacts DEF Busy, Holds, TypeOK
    <3>3. /\ row'[cur[w]] \in Row /\ row'[cur[w]].attempts = mem[w][cur[w]].attempts
          /\ row'[cur[w]].state = "pending" => mem[w][cur[w]].attempts < MaxAttempts
      <4>1. row'[cur[w]] = Result(row[cur[w]], mem[w][cur[w]], outcome[w])
        BY <1>2, <3>1, <3>2
      <4>2. ASSUME NEW x \in Row, NEW y \in Row, NEW why \in Reasons
            PROVE  Result(x, y, why) \in Row /\ Result(x, y, why).attempts = y.attempts
                   /\ (Result(x, y, why).state = "pending" => y.attempts < MaxAttempts)
        BY HelpersGiveRows, HelperAttempts
      <4>3. /\ Result(row[cur[w]], mem[w][cur[w]], outcome[w]) \in Row
            /\ Result(row[cur[w]], mem[w][cur[w]], outcome[w]).attempts = mem[w][cur[w]].attempts
            /\ Result(row[cur[w]], mem[w][cur[w]], outcome[w]).state = "pending"
                    => mem[w][cur[w]].attempts < MaxAttempts
        BY <3>2, <4>2
      <4>. QED BY <4>1, <4>3
    <3>4. \A q \in Rows \ {cur[w]} : row'[q] = row[q]
      BY <1>2, <3>1, <3>2
    <3>5. /\ queue'[w] = queue[w] \ {cur[w]} /\ cur'[w] = 0 /\ pc'[w] \in {"idle", "batch"}
          /\ \A q \in queue'[w] : expired'[w] \/ (~expired[w] /\ mem'[w][q] = mem[w][q])
      BY <1>1, <3>1, <3>2 DEF NextInBatch, TypeOK
    <3>6. /\ mem[w][cur[w]].attempts \in {row[cur[w]].attempts, row[cur[w]].attempts + 1}
          /\ sends[cur[w]] <= mem[w][cur[w]].attempts + crashes
          /\ mem[w][cur[w]].attempts \in Nat
      BY <3>1, <3>2, RowFacts DEF BudgetInv, CopyPays
    <3>. QED BY <2>5, <2>15, <3>1, <3>2, <3>3, <3>4, <3>5, <3>6
  <2>19. CASE ProcessRaises(w)
    <3>1. Busy(w) /\ UNCHANGED <<released, sends, crashes, races>>
      BY <2>19 DEF ProcessRaises, Busy, remote, bounds
    <3>2. /\ cur[w] \in Rows /\ mem[w][cur[w]] \in Row /\ row[cur[w]] \in Row /\ Holds(w, cur[w])
          /\ Present(cur[w]) /\ row[cur[w]].attempts \in Nat
      BY <1>1, <3>1, BusyFacts, RowFacts DEF Holds, Present
    <3>3. row' = [row EXCEPT ![cur[w]] = Deferred(@)]
      BY <2>19, <3>2 DEF ProcessRaises
    <3>4. /\ row'[cur[w]] \in Row /\ row'[cur[w]].attempts = row[cur[w]].attempts + 1
          /\ row'[cur[w]].state = "pending" => row[cur[w]].attempts + 1 < MaxAttempts
      BY <1>2, <3>2, <3>3, HelpersGiveRows, HelperAttempts
    <3>5. \A q \in Rows \ {cur[w]} : row'[q] = row[q]
      BY <1>2, <3>2, <3>3
    <3>6. /\ queue'[w] = queue[w] \ {cur[w]} /\ cur'[w] = 0 /\ pc'[w] \in {"idle", "batch"}
          /\ \A q \in queue'[w] : expired'[w]
      BY <1>1, <2>19, <3>2 DEF ProcessRaises, TypeOK
    <3>7. ~InHand(cur[w]) \/ sends[cur[w]] <= row[cur[w]].attempts + 1 + crashes
      <4>1. CASE pc[w] = "done"
        <5>1. /\ mem[w][cur[w]].attempts \in {row[cur[w]].attempts, row[cur[w]].attempts + 1}
              /\ sends[cur[w]] <= mem[w][cur[w]].attempts + crashes
          BY <3>2, <4>1 DEF BudgetInv, CopyPays
        <5>2. sends[cur[w]] \in Nat
          BY <1>1, <3>2 DEF TypeOK
        <5>. QED BY <2>5, <3>2, <5>1, <5>2
      <4>2. CASE pc[w] # "done"
        BY <2>0, <4>2 DEF InHand
      <4>. QED BY <4>1, <4>2
    <3>. QED BY <2>5, <2>15, <3>1, <3>2, <3>4, <3>5, <3>6, <3>7
  <2>. QED BY <1>4, <2>7, <2>8, <2>9, <2>10, <2>11, <2>12, <2>13, <2>14, <2>16, <2>17, <2>18, <2>19 DEF Tick
<1>5. ASSUME NEW s \in Rows, Time(s), NEW r \in Rows PROVE Pays(r)
  <2>1. Same(r)
    <3>1. row[s] \in Row
      BY <1>2, <1>5 DEF Time, ClaimAges, BackoffElapses, States
    <3>2. \/ row' = [row EXCEPT ![s].claim = "stale"]
          \/ row' = [row EXCEPT ![s].due = TRUE]
      BY <1>5 DEF Time, ClaimAges, BackoffElapses
    <3>3. \A x \in Row : /\ [x EXCEPT !.claim = "stale"] \in Row /\ [x EXCEPT !.due = TRUE] \in Row
                         /\ [x EXCEPT !.claim = "stale"].state = x.state
                         /\ [x EXCEPT !.claim = "stale"].attempts = x.attempts
                         /\ [x EXCEPT !.due = TRUE].state = x.state
                         /\ [x EXCEPT !.due = TRUE].attempts = x.attempts
      BY DEF Row
    <3>. QED BY <1>2, <3>1, <3>2, <3>3, RowFacts DEF Same, Still, Present
  <2>. QED BY <1>1, <1>3, <1>5, <2>1 DEF Time, ClaimAges, BackoffElapses, local, remote, bounds, TypeOK
<1>6. ASSUME NEW s \in Rows, Release(s), NEW r \in Rows PROVE Pays(r)
  <2>1. /\ UNCHANGED <<pc, queue, cur, mem, expired, sends, crashes, races>> /\ races' >= races
        /\ released \subseteq released' /\ s \notin released /\ s \in released'
    BY <1>1, <1>6 DEF Release, local, remote, bounds, TypeOK
  <2>2. CASE row'[r] = row[r]
    BY <1>3, <2>1, <2>2 DEF Same, Still, Present
  <2>3. CASE row'[r] # row[r]
    <3>1. r = s /\ row'[r] = NewRow(content[r])
      BY <1>2, <1>6, <2>3 DEF Release
    <3>2. row'[r].attempts = 0 /\ row'[r].state = "pending" /\ Present(r)'
      BY <3>1 DEF NewRow, Present, NoRow
    <3>3. sends'[r] = 0 /\ ~Present(r)
      BY <1>1, <2>1, <3>1 DEF BudgetInv, TablePays, RefInv
    <3>4. \A w \in Workers : r \notin queue[w] /\ ~(Busy(w) /\ cur[w] = r)
      BY <1>1, <1>2, <3>3 DEF RefInv, Holds, States
    <3>5. MaxAttempts \in Nat /\ MaxAttempts > 0 /\ crashes \in Nat /\ races \in Nat
      BY <1>1, BoundsAreNat, SomeAttempts DEF TypeOK
    <3>6. TablePays(r)'
      BY <2>1, <3>1, <3>2, <3>3, <3>5 DEF TablePays
    <3>7. \A w \in Workers : CopyPays(w, r)'
      BY <2>1, <3>4 DEF CopyPays, Busy
    <3>. QED BY <3>6, <3>7
  <2>. QED BY <2>2, <2>3
<1>7. ASSUME NEW s \in Rows, RacingRelease(s), NEW r \in Rows PROVE Pays(r)
  <2>1. /\ UNCHANGED <<pc, queue, cur, mem, expired, sends, crashes, released>>
        /\ races \in Nat /\ races' = races + 1 /\ races' >= races
        /\ row[s] \in Row /\ content[s] \in Fps /\ row' = [row EXCEPT ![s] = Reenqueued(row[s], content[s])]
    BY <1>1, <1>2, <1>7 DEF RacingRelease, local, remote, TypeOK
  <2>2. Present(r)' <=> Present(r)
    BY <1>2, <2>1, HelpersGiveRows, RowFacts DEF Present
  <2>3. Present(r) => row'[r].attempts = row[r].attempts
    BY <1>2, <2>1, HelperAttempts
  <2>4. CASE Still(r) /\ Present(r)
    BY <1>3, <2>1, <2>2, <2>3, <2>4 DEF Same
  <2>5. CASE ~Present(r)
    BY <1>2, <1>3, <2>1, <2>2, <2>5 DEF Same, Still, Present
  <2>6. CASE ~Still(r) /\ Present(r)
    <3>1. r = s /\ row[r].state \in {"failed", "skipped"}
      BY <1>2, <2>1, <2>6, PendingGoes DEF Still
    <3>2. \A w \in Workers : r \notin queue[w] /\ ~(Busy(w) /\ cur[w] = r)
      BY <1>1, <3>1 DEF RefInv, Holds
    <3>3. ~InHand(r) /\ ~InHand(r)'
      BY <2>1, <3>2 DEF InHand, Busy
    <3>4. row[r].attempts \in Nat /\ MaxAttempts \in Nat /\ crashes \in Nat /\ sends[r] \in Nat
      BY <1>1, <1>2, <2>6, BoundsAreNat DEF TypeOK
    <3>5. TablePays(r)'
      BY <2>1, <2>2, <2>3, <2>6, <3>3, <3>4 DEF TablePays, BudgetInv
    <3>6. \A w \in Workers : CopyPays(w, r)'
      BY <2>1, <3>2 DEF CopyPays, Busy
    <3>. QED BY <3>5, <3>6
  <2>. QED BY <2>4, <2>5, <2>6
<1>8. ASSUME NEW s \in Rows, Replay(s), NEW r \in Rows PROVE Pays(r)
  <2>1. /\ UNCHANGED <<pc, queue, cur, mem, expired, crashes, races, released>> /\ races' >= races
        /\ row[s] \in Row /\ row[s].state = "failed" /\ Present(s)
    BY <1>1, <1>2, <1>8 DEF Replay, local, TypeOK, States
  <2>2. CASE r # s
    <3>1. row'[r] = row[r] /\ sends'[r] = sends[r]
      BY <1>2, <1>8, <2>2 DEF Replay
    <3>. QED BY <1>3, <2>1, <3>1 DEF Same, Still, Present
  <2>3. CASE r = s
    <3>1. row'[r].attempts = 0 /\ row'[r].state = "pending" /\ sends'[r] = 0
      BY <1>1, <1>2, <1>8, <2>1, <2>3 DEF Replay, Row, TypeOK
    <3>2. \A w \in Workers : r \notin queue[w] /\ ~(Busy(w) /\ cur[w] = r)
      BY <1>1, <2>1, <2>3 DEF RefInv, Holds
    <3>3. MaxAttempts \in Nat /\ MaxAttempts > 0 /\ crashes \in Nat /\ races \in Nat
      BY <1>1, BoundsAreNat, SomeAttempts DEF TypeOK
    <3>4. TablePays(r)'
      BY <2>1, <3>1, <3>3 DEF TablePays
    <3>5. \A w \in Workers : CopyPays(w, r)'
      BY <2>1, <3>2 DEF CopyPays, Busy
    <3>. QED BY <3>4, <3>5
  <2>. QED BY <2>2, <2>3
<1>9. ASSUME NEW s \in Rows, Prune(s), NEW r \in Rows PROVE Pays(r)
  <2>1. /\ UNCHANGED <<pc, queue, cur, mem, expired, crashes, races, released, sends>> /\ races' >= races
        /\ row[s].state = "sent" /\ Present(s)
    BY <1>1, <1>2, <1>9 DEF Prune, local, remote, bounds, TypeOK, States
  <2>2. CASE r # s
    BY <1>2, <1>3, <1>9, <2>1, <2>2 DEF Prune, Same, Still, Present
  <2>3. CASE r = s
    <3>1. row'[r] = NoRow
      BY <1>2, <1>9, <2>3 DEF Prune
    <3>2. \A w \in Workers : r \notin queue[w] /\ ~(Busy(w) /\ cur[w] = r)
      BY <1>1, <2>1, <2>3 DEF RefInv, Holds
    <3>3. sends[r] <= MaxAttempts + crashes + races
      BY BudgetBounds DEF SendsWithinBudget
    <3>4. r \in released
      BY <1>1, <2>1, <2>3 DEF RefInv
    <3>5. TablePays(r)'
      BY <2>1, <3>1, <3>3, <3>4 DEF TablePays, Present, NoRow
    <3>6. \A w \in Workers : CopyPays(w, r)'
      BY <2>1, <3>2 DEF CopyPays, Busy
    <3>. QED BY <3>5, <3>6
  <2>. QED BY <2>2, <2>3
<1>10. CASE SwitchOff \/ UNCHANGED vars \/ \E s \in Rows : FileChanges(s)
  <2>1. /\ UNCHANGED <<row, pc, queue, cur, mem, expired, crashes, races, released, sends>>
        /\ races' >= races
    BY <1>1, <1>10 DEF SwitchOff, vars, FileChanges, local, remote, bounds, TypeOK
  <2>2. \A r \in Rows : Pays(r)
    BY <1>3, <2>1 DEF Same, Still, Present
  <2>. QED BY <1>1, <2>2 DEF BudgetInv
<1>11. (\A r \in Rows : Pays(r)) => BudgetInv'
  BY <1>1 DEF BudgetInv
<1>. HIDE DEF Pays
<1>. QED BY <1>4, <1>5, <1>6, <1>7, <1>8, <1>9, <1>10, <1>11 DEF Next

\* max_attempts bounds what one drain worker sends: through copies written back after a
\* rollback, reschedules, crashes between the send and its commit, races that reopen a
\* dead letter and replays (service.py:318-351, worker.py:232-310).
THEOREM SendsAreBudgeted ==
    ASSUME \A v, w \in Workers : v = w
    PROVE  Spec => []SendsWithinBudget
<1>1. BudgetInv /\ [Next]_vars => BudgetInv'
  BY BudgetStep
<1>. QED BY <1>1, BudgetInit, BudgetBounds, PTL DEF Spec
=============================================================================
