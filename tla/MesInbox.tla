-------------------------------- MODULE MesInbox --------------------------------
(***************************************************************************)
(* Consumption events of the MES: accepted into an inbox, or ingested at   *)
(* once (parallel_tasks_consumption_router.py), and the drain of the inbox *)
(* (consumption_mes_inbox_service.py).  A drain reads its batch without a  *)
(* lock or a claim, so two drains may hold the same row; each keeps the    *)
(* attempt_count it has read.  An event is its idempotency key and its     *)
(* business payload.  The repository has the drain but starts it nowhere.  *)
(***************************************************************************)
EXTENDS Naturals, FiniteSets

CONSTANTS
    Keys,          \* idempotency keys
    Payloads,      \* what two deliveries with one key may differ in
    Drains,
    MaxAttempts

VARIABLES
    inbox,     \* inbox[k]: payload, state and attempt_count of the row
    record,    \* record[k]: payload of the consumption record, and who inserted it
    batch,     \* batch[d]: rows the drain has yet to process
    copy,      \* copy[d][k]: the attempt_count it has read
    shared     \* history: rows two drains have held at once

vars == <<inbox, record, batch, copy, shared>>

None == "none"
Init ==
    /\ inbox = [k \in Keys |-> [payload |-> None, state |-> None, attempts |-> 0]]
    /\ record = [k \in Keys |-> [payload |-> None, by |-> None]]
    /\ batch = [d \in Drains |-> {}]
    /\ copy = [d \in Drains |-> [k \in Keys |-> 0]]
    /\ shared = {}

-----------------------------------------------------------------------------
\* accept_event: a replay is answered DUPLICATE, whatever its payload.
Accept(k, p) ==
    /\ inbox[k].state = None
    /\ inbox' = [inbox EXCEPT ![k] = [payload |-> p, state |-> "pending", attempts |-> 0]]
    /\ UNCHANGED <<record, batch, copy, shared>>

\* The route with MES_INGEST_ASYNC off; with the setting changed both are used.  p is
\* the payload it ingests: the quantity has been converted to the plan's unit before
\* the key is looked up, and a quantity in another dimension refused without a write.
IngestNow(k, p) ==
    /\ record[k].payload = None
    /\ record' = [record EXCEPT ![k] = [payload |-> p, by |-> "route"]]
    /\ UNCHANGED <<inbox, batch, copy, shared>>

\* claim_due.
ClaimDue(d) ==
    /\ batch[d] = {}
    /\ LET due == {k \in Keys : inbox[k].state = "pending"} IN
        /\ due # {}
        /\ batch' = [batch EXCEPT ![d] = due]
        /\ copy' = [copy EXCEPT ![d] =
            [k \in Keys |-> IF k \in due THEN inbox[k].attempts ELSE 0]]
        /\ shared' = shared \cup {k \in due : \E e \in Drains : k \in batch[e]}
    /\ UNCHANGED <<inbox, record>>

\* Mutant: a record with the key is taken for the same event.
SameKeySuffices(old, new) == TRUE

\* The comparison of ingest_mes_consumption.
SamePayload(old, new) == old = new

\* Mutant: the row is refused for its unit after its record has been inserted.
RecordedThoughRefused(k, refused) == record[k].payload = None

\* A record is inserted by the event that finds none, unless its unit disagrees
\* with the plan's.
Inserts(k, refused) == ~refused /\ record[k].payload = None

\* process_row that ends for good, and its commit.
Process(d, k) ==
    /\ k \in batch[d]
    /\ \E refused \in BOOLEAN :
        /\ record' = IF Inserts(k, refused)
                     THEN [record EXCEPT ![k] = [payload |-> inbox[k].payload, by |-> "drain"]]
                     ELSE record
        /\ inbox' = [inbox EXCEPT ![k] =
            IF refused THEN [@ EXCEPT !.state = "conflict", !.attempts = copy[d][k] + 1]
            ELSE [@ EXCEPT !.state =
                    IF SamePayload(record'[k].payload, inbox[k].payload)
                    THEN "processed" ELSE "conflict"]]
    /\ batch' = [batch EXCEPT ![d] = @ \ {k}]
    /\ UNCHANGED <<copy, shared>>

\* The plan is missing or the database fails: a retry, until the attempts are
\* used up.  A state equal to the copy's, which is pending, is not written.
ProcessFails(d, k) ==
    /\ k \in batch[d]
    /\ LET n == copy[d][k] + 1 IN
        inbox' = [inbox EXCEPT ![k].attempts = n,
                               ![k].state = IF n >= MaxAttempts THEN "failed" ELSE @]
    /\ batch' = [batch EXCEPT ![d] = @ \ {k}]
    /\ UNCHANGED <<record, copy, shared>>

\* An event that cannot be rebuilt fails at once.
Poison(d, k) ==
    /\ k \in batch[d]
    /\ inbox' = [inbox EXCEPT ![k].attempts = copy[d][k] + 1, ![k].state = "failed"]
    /\ batch' = [batch EXCEPT ![d] = @ \ {k}]
    /\ UNCHANGED <<record, copy, shared>>

Crash(d) ==
    /\ batch[d] # {}
    /\ batch' = [batch EXCEPT ![d] = {}]
    /\ UNCHANGED <<inbox, record, copy, shared>>

Next ==
    \/ \E k \in Keys, p \in Payloads : Accept(k, p) \/ IngestNow(k, p)
    \/ \E d \in Drains :
        \/ ClaimDue(d) \/ Crash(d)
        \/ \E k \in Keys : Process(d, k) \/ ProcessFails(d, k) \/ Poison(d, k)

Spec == Init /\ [][Next]_vars

-----------------------------------------------------------------------------
\* A row ends "processed" only if the record of its key holds its payload: an
\* event that lost to one with another payload is a conflict.
ProcessedIsRecorded ==
    \A k \in Keys : inbox[k].state = "processed" => record[k].payload = inbox[k].payload

\* A row given up or in conflict has not been counted by a drain with its own
\* payload, through crashes and retries, unless two drains have held it at once:
\* the slower one then writes its own failure over "processed".
RefusedIsNotCounted ==
    \A k \in Keys \ shared :
        inbox[k].state \in {"failed", "conflict"} =>
            record[k].by # "drain" \/ record[k].payload # inbox[k].payload
=============================================================================
