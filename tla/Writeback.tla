------------------------------- MODULE Writeback -------------------------------
(***************************************************************************)
(* Governed edits of BOM lines from the multi-table                        *)
(* (bom_multitable_writeback_service.py and its router).  A request loads  *)
(* the line, then locks its row and writes; the lock does not refresh a    *)
(* line the session has loaded, so it writes from what it loaded.          *)
(*                                                                         *)
(* One tenant.  Entitlement, permission and the lifecycle lock of the      *)
(* parent only refuse, and change nothing; so do a reused key with another *)
(* payload (409) and an If-Match other than the ETag of the line as it was *)
(* loaded (412).                                                           *)
(***************************************************************************)
EXTENDS Naturals, Sequences

CONSTANTS
    Lines,
    Cells,          \* the editable cells
    Values,
    Keys,           \* Idempotency-Key headers
    Requests,
    MaxWrites,      \* bound: rows of the audit
    MaxEdits        \* bound: other edits of lines

Kept == "kept"      \* a cell the payload does not have
Start == [c \in Cells |-> "blank"]
Contents == [Cells -> Values \cup {"blank"}]
Payload == [Cells -> Values \cup {Kept}] \ {[c \in Cells |-> Kept]}

VARIABLES
    line,       \* the editable cells of each line
    audit,      \* the table meta_bom_writeback_audit, in the order of the commits
    req,        \* what each open request has been sent and has loaded
    edits,      \* other edits so far
    mixed       \* history: lines written over a change the writer had not loaded, or edited otherwise

vars == <<line, audit, req, edits, mixed>>

Idle == [key |-> "none"]

Init ==
    /\ line = [l \in Lines |-> Start]
    /\ audit = <<>>
    /\ req = [r \in Requests |-> Idle]
    /\ edits = 0
    /\ mixed = {}

-----------------------------------------------------------------------------
\* The router loads the line.
Ask(r, key, l, after) ==
    /\ req[r] = Idle
    /\ req' = [req EXCEPT ![r] =
        [key |-> key, line |-> l, after |-> after, loaded |-> line[l]]]
    /\ UNCHANGED <<line, audit, edits, mixed>>

\* (tenant_id, idempotency_key) is unique.
Used(q) == \E n \in DOMAIN audit : audit[n].key = q.key

\* Mutant: cells the payload does not have are emptied.
AppliedWhole(cells, after) == [c \in Cells |-> IF after[c] = Kept THEN "blank" ELSE after[c]]

Applied(cells, after) == [c \in Cells |-> IF after[c] = Kept THEN cells[c] ELSE after[c]]

\* From the row lock to the commit: the audit row and the cells.
Write(r) ==
    LET q == req[r] IN
    /\ q # Idle
    /\ ~Used(q)
    /\ Len(audit) < MaxWrites
    /\ audit' = Append(audit, [key |-> q.key, line |-> q.line, after |-> q.after])
    /\ line' = [line EXCEPT ![q.line] = Applied(q.loaded, q.after)]
    /\ mixed' = IF q.loaded # line[q.line] THEN mixed \cup {q.line} ELSE mixed
    /\ req' = [req EXCEPT ![r] = Idle]
    /\ UNCHANGED edits

\* A cached answer to a retry, a refusal, or a request that is lost.
EndUnapplied(r) ==
    /\ req[r] # Idle
    /\ req' = [req EXCEPT ![r] = Idle]
    /\ UNCHANGED <<line, audit, edits, mixed>>

\* An AML update of the line, which locks and audits nothing.
OtherEdit(l, cells) ==
    /\ edits < MaxEdits
    /\ line' = [line EXCEPT ![l] = cells]
    /\ edits' = edits + 1
    /\ mixed' = mixed \cup {l}
    /\ UNCHANGED <<audit, req>>

Next ==
    \/ \E r \in Requests :
        \/ \E key \in Keys, l \in Lines, after \in Payload : Ask(r, key, l, after)
        \/ Write(r) \/ EndUnapplied(r)
    \/ \E l \in Lines, cells \in Contents : OtherEdit(l, cells)

Spec == Init /\ [][Next]_vars

-----------------------------------------------------------------------------
\* What the audit makes of a cell: the value of the last write that has it.
AuditedCell(l, c) ==
    LET writes == {n \in DOMAIN audit : audit[n].line = l /\ audit[n].after[c] # Kept}
    IN  IF writes = {} THEN "blank"
        ELSE audit[CHOOSE n \in writes : \A m \in writes : m <= n].after[c]

\* The audit explains the line: each cell holds what the last audited write of it
\* says, although a write stores all the cells and a retry may come after writes
\* of others.  A write that was loaded before another one and follows it breaks
\* this (the other's cells are lost while its audit row stays), and passes an
\* If-Match that is stale, since the row lock does not reload the line.
AuditMatchesLine ==
    \A l \in Lines \ mixed : \A c \in Cells : line[l][c] = AuditedCell(l, c)
=============================================================================
