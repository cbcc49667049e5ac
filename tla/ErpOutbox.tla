-------------------------------- MODULE ErpOutbox --------------------------------
(***************************************************************************)
(* The ERP publication outbox behind its HTTP routes                       *)
(* (plm_erp_publication_outbox_router.py, erp_publication/service.py).     *)
(* get_db gives each request a session and closes it afterwards; what the  *)
(* request has flushed and not committed is rolled back.  The routes       *)
(* enqueue, dry-run, process and replay do not commit.  The drain worker   *)
(* commits, but finds rows only if some request has stored them.           *)
(***************************************************************************)
EXTENDS Naturals

CONSTANTS
    Rows,       \* keys of outbox rows: item, version, target and kind
    Contents,   \* readiness snapshots, by fingerprint
    Requests

VARIABLES
    table,     \* committed rows, by key
    session,   \* session[q]: what an open request is about, and the row it has flushed
    answered   \* history: rows a response has called persisted

vars == <<table, session, answered>>

None == "none"
States == {"pending", "skipped", "dry_run_ready", "sent", "failed"}
NoRow == [state |-> None, content |-> None]
Closed == [key |-> None, row |-> NoRow, persisted |-> FALSE]

Init ==
    /\ table = [k \in Rows |-> NoRow]
    /\ session = [q \in Requests |-> Closed]
    /\ answered = {}

Answer(q, k, row, persisted) ==
    /\ session[q] = Closed
    /\ session' = [session EXCEPT ![q] = [key |-> k, row |-> row, persisted |-> persisted]]
    /\ UNCHANGED <<table, answered>>

Eligibility(eligible) == IF eligible THEN "pending" ELSE "skipped"

\* A new row, or the one in the table: reused if its content is the same, refused
\* if it has been sent, re-snapshotted otherwise.
Enqueue(q, k, c, eligible) ==
    /\ table[k].state = "sent" => table[k].content = c
    /\ Answer(q, k,
              IF table[k].content = c THEN table[k]
              ELSE [state |-> Eligibility(eligible), content |-> c],
              TRUE)

DryRun(q, k, valid) ==
    /\ table[k] # NoRow /\ table[k].state # "sent"
    /\ Answer(q, k, [table[k] EXCEPT !.state =
                        IF @ = "skipped" THEN @ ELSE IF valid THEN "dry_run_ready" ELSE "failed"],
              FALSE)

Process(q, k, eligible, ok) ==
    /\ table[k].state \in {"pending", "dry_run_ready"}
    /\ Answer(q, k, [table[k] EXCEPT !.state =
                        IF ~eligible THEN "skipped" ELSE IF ok THEN "sent" ELSE "failed"],
              FALSE)

Replay(q, k, eligible, ok) ==
    /\ table[k].state \in {"failed", "skipped"}
    /\ Answer(q, k, [table[k] EXCEPT !.state =
                        IF ~eligible THEN "skipped" ELSE IF ok THEN "sent" ELSE "failed"],
              FALSE)

\* The response goes out and get_db closes the session, which rolls it back.
Close(q) ==
    /\ session[q] # Closed
    /\ answered' = IF session[q].persisted THEN answered \cup {session[q].key} ELSE answered
    /\ session' = [session EXCEPT ![q] = Closed]
    /\ UNCHANGED table

Next == \E q \in Requests :
    \/ \E k \in Rows :
        \/ \E c \in Contents, eligible \in BOOLEAN : Enqueue(q, k, c, eligible)
        \/ \E valid \in BOOLEAN : DryRun(q, k, valid)
        \/ \E eligible, ok \in BOOLEAN : Process(q, k, eligible, ok) \/ Replay(q, k, eligible, ok)
    \/ Close(q)

Spec == Init /\ [][Next]_vars

-----------------------------------------------------------------------------
\* "Outbox is durable - enqueue -> process; survives restarts" (docs/DEVELOPMENT_
\* PLM_TO_ERP_PUBLICATION_CONTRACT_R2_ADAPTER_OUTBOX_TASKBOOK_20260528.md:29): a
\* row that a response has called persisted is in the table.
EnqueueIsDurable == \A k \in answered : table[k] # NoRow
=============================================================================
