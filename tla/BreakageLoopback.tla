---------------------------- MODULE BreakageLoopback ----------------------------
(***************************************************************************)
(* The design loopback of a breakage incident                              *)
(* (BreakageIncidentService in parallel_tasks_service.py and its routes):  *)
(* an incident that is resolved or closed gets an ECO, once.  The ECO is   *)
(* inserted and then linked by an UPDATE of the incident, on condition     *)
(* that the incident has no ECO or one that is not in meta_ecos.           *)
(*                                                                         *)
(* One incident.  READ COMMITTED on PostgreSQL: a statement sees the rows  *)
(* committed before it began; an UPDATE that has waited for a row lock     *)
(* evaluates its condition again on the new version of that row, but its   *)
(* subqueries still see the old snapshot of the other tables.              *)
(***************************************************************************)
CONSTANTS
    Requests,   \* requests that can overlap
    Ecos,       \* bound: the ECOs that can be created
    None        \* no ECO

VARIABLES
    eligible,   \* the incident's status is resolved or closed
    link,       \* its eco_id
    ecos,       \* the ECOs in meta_ecos
    gone,       \* those deleted
    detached,   \* those created with allow_duplicate
    lock,       \* the request that has locked the incident's row, or None
    req         \* the open requests

vars == <<eligible, link, ecos, gone, detached, lock, req>>

Idle == [step |-> "idle"]

Init ==
    /\ eligible = FALSE
    /\ link = None
    /\ ecos = {} /\ gone = {} /\ detached = {}
    /\ lock = None
    /\ req = [r \in Requests |-> Idle]

-----------------------------------------------------------------------------
\* An ECO that no transaction has inserted.
New(e) ==
    /\ e \notin ecos \cup gone
    /\ \A r \in Requests : req[r] # Idle => req[r].eco # e

\* _find_breakage_design_loopback_eco_by_reference, from the copy of the incident
\* the session has: an ECO to use again is in the way of a new one.
Finds(copy) == IF copy = None THEN ecos # {} ELSE copy \in ecos

\* The WHERE clause of the link, on a version of the row, in a snapshot.
Linkable(old, snapshot) == old = None \/ old \notin snapshot

Enter(r, step, auto, eco, copy, snapshot) ==
    req' = [req EXCEPT ![r] =
        [step |-> step, auto |-> auto, eco |-> eco, copy |-> copy, snapshot |-> snapshot]]

-----------------------------------------------------------------------------
\* update_status and the ticket updates without auto_loopback, in one transaction.
UpdateStatus ==
    /\ lock = None
    /\ eligible' = ~eligible
    /\ UNCHANGED <<link, ecos, gone, detached, lock, req>>

\* The route of its own: the ECO is inserted, without a lock on the incident.
Create(r, e) ==
    /\ req[r] = Idle
    /\ eligible /\ ~Finds(link)
    /\ New(e)
    /\ Enter(r, "created", FALSE, e, link, {})
    /\ UNCHANGED <<eligible, link, ecos, gone, detached, lock>>

\* allow_duplicate: an ECO that is not linked.
CreateDuplicate(e) ==
    /\ eligible
    /\ New(e)
    /\ ecos' = ecos \cup {e}
    /\ detached' = detached \cup {e}
    /\ UNCHANGED <<eligible, link, gone, lock, req>>

\* auto_loopback: the incident is loaded, and its new status flushed later.
Load(r) ==
    /\ req[r] = Idle
    /\ Enter(r, "loaded", TRUE, None, link, {})
    /\ UNCHANGED <<eligible, link, ecos, gone, detached, lock>>

FlushStatus(r, e) ==
    /\ req[r].step = "loaded"
    /\ lock = None
    /\ ~Finds(req[r].copy)
    /\ New(e)
    /\ Enter(r, "created", TRUE, e, req[r].copy, {})
    /\ lock' = r
    /\ UNCHANGED <<eligible, link, ecos, gone, detached>>

\* The incident has its ECO already; the status is written.
Reuse(r) ==
    /\ req[r].step = "loaded"
    /\ lock = None
    /\ Finds(req[r].copy)
    /\ eligible' = TRUE
    /\ req' = [req EXCEPT ![r] = Idle]
    /\ UNCHANGED <<link, ecos, gone, detached, lock>>

-----------------------------------------------------------------------------
(* The link.                                                                *)

\* The UPDATE begins: its snapshot has the committed ECOs and its own.
BeginLink(r) ==
    /\ req[r].step = "created"
    /\ LET snapshot == ecos \cup {req[r].eco} IN
        /\ Linkable(link, snapshot)
        /\ req' = [req EXCEPT ![r].step = "linking", ![r].snapshot = snapshot]
    /\ UNCHANGED <<eligible, link, ecos, gone, detached, lock>>

\* It has the row's lock: rowcount = 1 if the row as it is now meets the condition.
LockRow(r) ==
    /\ req[r].step = "linking"
    /\ lock \in {None, r}
    /\ Linkable(link, req[r].snapshot)
    /\ lock' = r
    /\ req' = [req EXCEPT ![r].step = "linked"]
    /\ UNCHANGED <<eligible, link, ecos, gone, detached>>

Commit(r) ==
    /\ req[r].step = "linked"
    /\ ecos' = ecos \cup {req[r].eco}
    /\ link' = req[r].eco
    /\ eligible' = (eligible \/ req[r].auto)
    /\ lock' = None
    /\ req' = [req EXCEPT ![r] = Idle]
    /\ UNCHANGED <<gone, detached>>

\* rowcount = 0: the insert is rolled back, and with auto_loopback the status,
\* which is written again once the winner has been read.
Lose(r) ==
    /\ \/ req[r].step = "created" /\ ~Linkable(link, ecos \cup {req[r].eco})
       \/ req[r].step = "linking" /\ lock \in {None, r} /\ ~Linkable(link, req[r].snapshot)
    /\ eligible' = (eligible \/ (req[r].auto /\ link \in ecos))
    /\ lock' = IF lock = r THEN None ELSE lock
    /\ req' = [req EXCEPT ![r] = Idle]
    /\ UNCHANGED <<link, ecos, gone, detached>>

\* An error, or a lost connection.
Rollback(r) ==
    /\ req[r] # Idle
    /\ lock' = IF lock = r THEN None ELSE lock
    /\ req' = [req EXCEPT ![r] = Idle]
    /\ UNCHANGED <<eligible, link, ecos, gone, detached>>

\* The route deletes a draft ECO and leaves the incident's eco_id alone.
DeleteEco(e) ==
    /\ e \in ecos
    /\ ecos' = ecos \ {e}
    /\ gone' = gone \cup {e}
    /\ UNCHANGED <<eligible, link, detached, lock, req>>

Next ==
    \/ UpdateStatus
    \/ \E e \in Ecos : CreateDuplicate(e) \/ DeleteEco(e)
    \/ \E r \in Requests :
        \/ \E e \in Ecos : Create(r, e) \/ FlushStatus(r, e)
        \/ Load(r) \/ Reuse(r) \/ BeginLink(r) \/ LockRow(r)
        \/ Commit(r) \/ Lose(r) \/ Rollback(r)

Spec == Init /\ [][Next]_vars

-----------------------------------------------------------------------------
\* "exactly one gets rowcount==1" (parallel_tasks_service.py:4539): of overlapping
\* requests one creates the incident's ECO, so every ECO the loopback has created
\* and nobody has deleted is the one the incident is linked to.
OneWinner == \A e \in ecos \ detached : e = link
=============================================================================
