------------------------------- MODULE Promotion -------------------------------
(***************************************************************************)
(* The lifecycle of an item and the workflow its states start              *)
(* (lifecycle/service.py, workflow/service.py).  Entering a state may      *)
(* start a workflow; the end of a workflow promotes the item; a promote    *)
(* that fails half way sets the item's fields back, and its caller commits *)
(* or not.  Sessions do not autoflush: the query for an active process     *)
(* still finds the one the same session has just ended, so that a promote  *)
(* at the end of a workflow cannot start another and fails.                *)
(*                                                                         *)
(* One item, whose requests do not overlap.  Gates, hooks and conditions   *)
(* are what the environment makes of them: a promote may fail at each of   *)
(* its stages.  Whether a promote leaves the version released is modelled, *)
(* what the release does is in VersionLine.                                *)
(***************************************************************************)
EXTENDS Naturals, FiniteSets

CONSTANTS
    States, Arcs,     \* the lifecycle map: arcs are pairs of states
    StartState,
    Released,         \* the state named "Released"
    Obsolete,         \* the state the effectivity sweep promotes to
    Permission,       \* permission of each state, NoPermission to leave the item's
    Flow,             \* for states with a workflow: its first activity, or "End",
                      \* or "broken" for a map without a start activity
    Activities,
    Route             \* Route[a][o]: next activity on outcome o, "End", or "none"

VARIABLES
    item,         \* state, permission_id, released version, active process, current task
    versionable   \* is_versionable, which no operation changes

vars == <<item, versionable>>

NoPermission == "no permission"
Outcomes == {"Approve", "Reject"}
\* Where a promote may fail, and "none".
Failures == {"none", "gate", "enter", "release"}

Init ==
    /\ item = [state |-> StartState, permission |-> Permission[StartState],
               released |-> FALSE, process |-> "none", task |-> "none"]
    /\ versionable \in BOOLEAN

-----------------------------------------------------------------------------
(* Operators on the item i.                                                 *)

Entered(i, t) ==
    [i EXCEPT !.state = t,
              !.permission = IF Permission[t] = NoPermission THEN @ ELSE Permission[t]]

\* Mutant: the permission stays that of the state the item did not enter.
RestoredState(i, before) == [i EXCEPT !.state = before.state]

\* Mutant: nothing is set back.
RestoredNothing(i, before) == i

\* A failed promote sets back the state and the permission, and nothing else.
Restored(i, before) == [i EXCEPT !.state = before.state, !.permission = before.permission]

Failed(i) == [ok |-> FALSE, item |-> i]

\* What follows the workflow of the new state: the release of the version, of an item
\* that has versions.
Completed(i, t, before, fail) ==
    IF t # Released \/ ~versionable THEN [ok |-> TRUE, item |-> i]
    ELSE IF fail = "release" THEN Failed(Restored(i, before))
    ELSE [ok |-> TRUE, item |-> [i EXCEPT !.released = TRUE]]

\* A promote while the session holds a process it has ended but not flushed.
PromoteAtEnd(i, t, fail) ==
    LET e == Entered(i, t) IN
    IF <<i.state, t>> \notin Arcs \/ fail = "gate" THEN Failed(i)
    ELSE IF fail = "enter" \/ t \in DOMAIN Flow THEN Failed(Restored(e, i))
    ELSE Completed(e, t, i, fail)

\* The state the end of a workflow promotes to: the only one, or else Released.
Onward(s) ==
    LET ts == {t \in States : <<s, t>> \in Arcs} IN
    IF Cardinality(ts) = 1 THEN ts ELSE ts \cap {Released}

\* _close_process, whose promote may fail and is then forgotten.
Ended(i, fail) ==
    LET e == [i EXCEPT !.process = "ended", !.task = "none"] IN
    IF Onward(e.state) = {} THEN e
    ELSE PromoteAtEnd(e, CHOOSE t \in Onward(e.state) : TRUE, fail).item

\* start_workflow with a map whose first activity is first.
Started(i, first, fail) ==
    IF i.process = "active" THEN Failed(i)
    ELSE IF first = "broken" THEN Failed([i EXCEPT !.process = "active"])
    ELSE [ok |-> TRUE,
          item |-> IF first = "End" THEN Ended(i, fail)
                   ELSE [i EXCEPT !.process = "active", !.task = first]]

\* promote; failIn is how a promote nested in it fares.
Promote(i, t, fail, failIn) ==
    LET e == Entered(i, t) IN
    IF <<i.state, t>> \notin Arcs \/ fail = "gate" THEN Failed(i)
    ELSE IF fail = "enter" THEN Failed(Restored(e, i))
    ELSE IF t \notin DOMAIN Flow THEN Completed(e, t, i, fail)
    ELSE LET s == Started(e, Flow[t], failIn) IN
         IF s.ok THEN Completed(s.item, t, i, fail) ELSE Failed(Restored(s.item, i))

-----------------------------------------------------------------------------
\* PromoteOperation: a failure raises and the transaction is rolled back.
PromoteItem(t, fail, failIn) ==
    LET p == Promote(item, t, fail, failIn) IN p.ok /\ item' = p.item

\* The sweep of expired effectivities records a failure and commits.
ObsoleteExpired(fail, failIn) ==
    /\ item.state # Obsolete
    /\ item' = Promote(item, Obsolete, fail, failIn).item

\* Workflow.start.
StartWorkflow(first, fail) ==
    LET s == Started(item, first, fail) IN s.ok /\ item' = s.item

\* Workflow.vote; an outcome without a transition leaves the activity without a task.
Vote(o, fail) ==
    /\ item.task # "none"
    /\ LET next == Route[item.task][o] IN
        item' = IF next = "End" THEN Ended(item, fail) ELSE [item EXCEPT !.task = next]

Next ==
    /\ \/ \E t \in States, fail, failIn \in Failures : PromoteItem(t, fail, failIn)
       \/ \E fail, failIn \in Failures : ObsoleteExpired(fail, failIn)
       \/ \E first \in Activities \cup {"End"}, fail \in Failures : StartWorkflow(first, fail)
       \/ \E o \in Outcomes, fail \in Failures : Vote(o, fail)
    /\ UNCHANGED versionable

Spec == Init /\ [][Next]_vars

-----------------------------------------------------------------------------
\* The item has the permission of its state, after promotes that failed at any
\* stage and were committed nonetheless, promotes nested in the start or at the
\* end of a workflow, and sweeps.
PermissionFollowsState ==
    Permission[item.state] # NoPermission => item.permission = Permission[item.state]

\* A versionable item in the state Released has a released version, whichever way it
\* got there.
ReleasedHasVersion == item.state = Released /\ versionable => item.released
=============================================================================
