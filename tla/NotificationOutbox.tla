--------------------------- MODULE NotificationOutbox ---------------------------
(***************************************************************************)
(* The deliveries of the notification outbox (notifications/service.py)    *)
(* and their drain workers (notifications/worker.py).                      *)
(*                                                                         *)
(* A tick looks for stale claims, releases them, claims a batch and sends  *)
(* it row by row; a session keeps the rows it has read, so that what it    *)
(* writes follows from its copy.  Time is abstract: a retry is due at once *)
(* or not yet, and the claim of a crashed worker turns stale sooner or     *)
(* later.  A claim that turns stale under a living worker, whose batch     *)
(* takes longer than the timeout, is bounded by MaxOverruns.               *)
(***************************************************************************)
EXTENDS Naturals, FiniteSets

CONSTANTS
    Deliveries,    \* bound: the deliveries, numbered
    NoAddress,     \* those whose recipient has no e-mail address
    Workers,
    BatchSize,
    MaxAttempts,
    MaxCrashes,    \* bound: crashes with a send under way, and
    MaxOverruns    \* bound: claims that turn stale under a living worker

VARIABLES
    row,         \* row[d]: state, attempt_count, worker_id, claim stale, retry due
    batch,       \* batch[w]: the deliveries the worker has yet to settle
    count,       \* count[w][d]: the attempt_count of its copy
    found,       \* found[w]: stale claims its tick has read
    answer,      \* answer[w]: the delivery it has sent, and how that went
    sends,       \* history: sends[d]: times the adapter was called
    accepted,    \* history: deliveries the mail server has accepted
    confirmed,   \* history: deliveries a send of which the adapter answered with ok
    crashes, overruns

vars == <<row, batch, count, found, answer, sends, accepted, confirmed, crashes, overruns>>

None == "none"
NoAnswer == [delivery |-> 0, result |-> None]
NoRow == [state |-> "absent", attempts |-> 0, worker |-> None, stale |-> FALSE, due |-> TRUE]

Init ==
    /\ row = [d \in Deliveries |-> NoRow]
    /\ batch = [w \in Workers |-> {}]
    /\ count = [w \in Workers |-> [d \in Deliveries |-> 0]]
    /\ found = [w \in Workers |-> {}]
    /\ answer = [w \in Workers |-> NoAnswer]
    /\ sends = [d \in Deliveries |-> 0]
    /\ accepted = {}
    /\ confirmed = {}
    /\ crashes = 0
    /\ overruns = 0

-----------------------------------------------------------------------------
\* One delivery per recipient; without an address it has failed already.
Enqueue(d) ==
    /\ row[d].state = "absent"
    /\ row' = [row EXCEPT ![d].state = IF d \in NoAddress THEN "failed" ELSE "pending"]
    /\ UNCHANGED <<batch, count, found, answer, sends, accepted, confirmed, crashes, overruns>>

Idle(w) == batch[w] = {}
Unclaimed(r) == r.worker = None \/ r.stale

LookForStale(w) ==
    /\ Idle(w)
    /\ found' = [found EXCEPT ![w] =
        {d \in Deliveries : row[d].state = "pending" /\ row[d].worker # None /\ row[d].stale}]
    /\ found'[w] # found[w]
    /\ UNCHANGED <<row, batch, count, answer, sends, accepted, confirmed, crashes, overruns>>

\* The rows found stale are released by primary key, whoever holds them by now.
Released(w) ==
    [d \in Deliveries |->
        IF d \in found[w] THEN [row[d] EXCEPT !.worker = None, !.stale = FALSE] ELSE row[d]]

Claim(w) ==
    /\ Idle(w)
    /\ LET released == Released(w)
           free == {d \in Deliveries : released[d].state = "pending" /\ released[d].due
                                           /\ Unclaimed(released[d])}
       IN  \E b \in SUBSET free :
            /\ b # {} /\ Cardinality(b) <= BatchSize
            /\ Cardinality(b) = BatchSize \/ b = free
            /\ batch' = [batch EXCEPT ![w] = b]
            /\ count' = [count EXCEPT ![w] =
                [d \in Deliveries |-> IF d \in b THEN row[d].attempts ELSE 0]]
            /\ row' = [d \in Deliveries |->
                IF d \in b THEN [released[d] EXCEPT !.worker = w, !.stale = FALSE]
                ELSE released[d]]
    /\ found' = [found EXCEPT ![w] = {}]
    /\ UNCHANGED <<answer, sends, accepted, confirmed, crashes, overruns>>

\* The adapter is called: the server accepts or refuses, or accepts and the
\* answer is lost, which the worker takes for an error; without a server
\* configured the null adapter answers ok and mails nothing.
Send(w, d) ==
    /\ answer[w] = NoAnswer /\ d \in batch[w]
    /\ sends' = [sends EXCEPT ![d] = @ + 1]
    /\ \E result \in {"ok", "retry", "final"}, arrived \in BOOLEAN :
        /\ accepted' = IF arrived THEN accepted \cup {d} ELSE accepted
        /\ confirmed' = IF result = "ok" THEN confirmed \cup {d} ELSE confirmed
        /\ answer' = [answer EXCEPT ![w] = [delivery |-> d, result |-> result]]
    /\ UNCHANGED <<row, batch, count, found, crashes, overruns>>

\* Mutant: an error the worker may retry is not counted against the budget.
OutcomeUncounted(n, result) ==
    IF result = "ok" THEN "sent" ELSE IF result = "retry" THEN "pending" ELSE "failed"

\* Mutant: a delivery out of attempts counts as sent.
OutcomeSent(n, result) ==
    IF result = "ok" \/ n >= MaxAttempts THEN "sent"
    ELSE IF result = "retry" THEN "pending" ELSE "failed"

\* The state after attempt n.
Outcome(n, result) ==
    IF result = "ok" THEN "sent"
    ELSE IF result = "retry" /\ n < MaxAttempts THEN "pending" ELSE "failed"

\* A state equal to that of the copy, which is pending, is not written.
Settle(w) ==
    /\ answer[w] # NoAnswer
    /\ LET d == answer[w].delivery
           n == count[w][d] + 1
           to == Outcome(n, answer[w].result)
       IN  /\ row' = [row EXCEPT ![d] =
                [@ EXCEPT !.state = IF to = "pending" THEN row[d].state ELSE to, !.attempts = n,
                          !.worker = None, !.stale = FALSE, !.due = (to # "pending")]]
           /\ batch' = [batch EXCEPT ![w] = @ \ {d}]
    /\ answer' = [answer EXCEPT ![w] = NoAnswer]
    /\ UNCHANGED <<count, found, sends, accepted, confirmed, crashes, overruns>>

\* The worker stops, with or without a send it has not recorded, and starts again.
Crash(w) ==
    /\ batch[w] # {}
    /\ answer[w] # NoAnswer => crashes < MaxCrashes
    /\ crashes' = IF answer[w] # NoAnswer THEN crashes + 1 ELSE crashes
    /\ batch' = [batch EXCEPT ![w] = {}]
    /\ answer' = [answer EXCEPT ![w] = NoAnswer]
    /\ UNCHANGED <<row, count, found, sends, accepted, confirmed, overruns>>

TurnStale(d) ==
    /\ row[d].state = "pending" /\ row[d].worker # None /\ ~row[d].stale
    /\ LET alive == \E w \in Workers : d \in batch[w] IN
        /\ alive => overruns < MaxOverruns
        /\ overruns' = IF alive THEN overruns + 1 ELSE overruns
    /\ row' = [row EXCEPT ![d].stale = TRUE]
    /\ UNCHANGED <<batch, count, found, answer, sends, accepted, confirmed, crashes>>

BackoffElapses(d) ==
    /\ row[d].state = "pending" /\ ~row[d].due
    /\ row' = [row EXCEPT ![d].due = TRUE]
    /\ UNCHANGED <<batch, count, found, answer, sends, accepted, confirmed, crashes, overruns>>

Next ==
    \/ \E d \in Deliveries : Enqueue(d) \/ TurnStale(d) \/ BackoffElapses(d)
    \/ \E w \in Workers :
        \/ LookForStale(w) \/ Claim(w) \/ Settle(w) \/ Crash(w)
        \/ \E d \in Deliveries : Send(w, d)

Spec == Init /\ [][Next]_vars

-----------------------------------------------------------------------------
\* A delivery is sent at most MaxAttempts times, and once more for every crash
\* that lost the count of a send; with several workers, and for claims that
\* turned stale under a living one, there is no bound to state here.
SendsWithinBudget ==
    Cardinality(Workers) = 1 =>
        \A d \in Deliveries : sends[d] <= MaxAttempts + crashes

\* With one worker the deliveries are an outbox, each a lineage of its own.  One
\* without an address is never published: it counts as absent.
OutboxState(d) == IF d \in NoAddress THEN "absent" ELSE row[d].state
Outbox == INSTANCE PublicationOutbox
    WITH Rows <- Deliveries, Lineage <- [d \in Deliveries |-> d],
         state <- [d \in Deliveries |-> OutboxState(d)],
         acknowledged <- confirmed,
         shown <- [d \in Deliveries |-> IF d \in accepted THEN d ELSE 0]
OutboxSpec == Outbox!Spec
=============================================================================
