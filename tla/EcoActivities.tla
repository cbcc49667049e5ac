----------------------------- MODULE EcoActivities -----------------------------
(***************************************************************************)
(* The activities that gate an ECO (ECOActivityValidationService of        *)
(* parallel_tasks_service.py): their statuses, their dependencies, and the *)
(* bulk transition, which walks a Python set round after round.  One ECO,  *)
(* one request at a time; the visits of a bulk transition are steps, so    *)
(* that each round may visit the set in any order.                         *)
(***************************************************************************)
EXTENDS Naturals, FiniteSets

CONSTANTS
    MaxActivities,   \* bound: the activities, numbered in the order of creation
    Blocking,        \* those created with is_blocking
    Targets          \* bound: targets of bulk transitions

VARIABLES
    act,      \* act[a]: status and dependencies; status "none" before it exists
    bulk      \* the bulk transition under way

vars == <<act, bulk>>

Activities == 1..MaxActivities
Missing == 0   \* the id of a dependency that does not exist

Status == {"pending", "active", "completed", "canceled", "exception"}
Terminal == {"completed", "canceled", "exception"}

\* _TRANSITIONS.
Transitions ==
    [pending   |-> {"active", "completed", "canceled", "exception"},
     active    |-> {"completed", "canceled", "exception"},
     completed |-> {"pending"},
     canceled  |-> {"pending"},
     exception |-> {"pending", "active"}]

Existing == {a \in Activities : act[a].status # "none"}
NoBulk == [target |-> "none", candidates |-> {}, remaining |-> {}, visited |-> {},
           progressed |-> FALSE, rounds |-> 0]

Init ==
    /\ act = [a \in Activities |-> [status |-> "none", deps |-> {}]]
    /\ bulk = NoBulk

-----------------------------------------------------------------------------
\* Ids are made when an activity is created: it can name only earlier ones, or none.
Create(a) ==
    /\ bulk = NoBulk
    /\ Existing = 1..(a - 1)
    /\ \E deps \in SUBSET (Existing \cup {Missing}) :
        act' = [act EXCEPT ![a] = [status |-> "pending", deps |-> deps]]
    /\ UNCHANGED bulk

\* Mutant: a closed dependency counts as a completed one.
ReadyWhenClosed(a) == \A d \in act[a].deps : d \in Existing /\ act[d].status \in Terminal

\* _dependency_blockers is empty.
Ready(a) == \A d \in act[a].deps : d \in Existing /\ act[d].status = "completed"

\* evaluate_transition.
CanTransition(a, target) ==
    /\ target \in Transitions[act[a].status] \cup {act[a].status}
    /\ target \in {"active", "completed"} => Ready(a)

Transition(a, target) ==
    /\ bulk = NoBulk
    /\ a \in Existing /\ CanTransition(a, target)
    /\ act' = [act EXCEPT ![a].status = target]
    /\ UNCHANGED bulk

\* The listed activities, without closed and non-blocking ones unless asked for.
Candidates(some, terminal, nonBlocking) ==
    {a \in some \cap Existing :
        /\ terminal \/ act[a].status \notin Terminal
        /\ nonBlocking \/ a \in Blocking}

\* Mutant: one round.
OneRound(candidates) == 1

MaxRounds(candidates) == IF candidates = {} THEN 1 ELSE Cardinality(candidates)

BulkStart(some, target, terminal, nonBlocking) ==
    /\ bulk = NoBulk
    /\ LET candidates == Candidates(some, terminal, nonBlocking) IN
        bulk' = [target |-> target, candidates |-> candidates, remaining |-> candidates,
                 visited |-> {}, progressed |-> FALSE, rounds |-> MaxRounds(candidates)]
    /\ UNCHANGED act

\* One pass of the inner loop.
BulkVisit(a) ==
    /\ bulk.rounds > 0
    /\ a \in bulk.remaining \ bulk.visited
    /\ LET can == CanTransition(a, bulk.target) IN
        /\ act' = IF can THEN [act EXCEPT ![a].status = bulk.target] ELSE act
        /\ bulk' = [bulk EXCEPT !.visited = @ \cup {a},
                                !.remaining = IF can THEN @ \ {a} ELSE @,
                                !.progressed = @ \/ can]

BulkRound ==
    /\ bulk.rounds > 0
    /\ bulk.remaining \subseteq bulk.visited
    /\ bulk' = [bulk EXCEPT !.visited = {}, !.progressed = FALSE,
                            !.rounds = IF bulk.progressed THEN @ - 1 ELSE 0]
    /\ UNCHANGED act

BulkEnd ==
    /\ bulk # NoBulk /\ bulk.rounds = 0
    /\ bulk' = NoBulk
    /\ UNCHANGED act

Next ==
    \/ \E a \in Activities :
        \/ Create(a)
        \/ \E target \in Status : Transition(a, target)
        \/ BulkVisit(a)
    \/ \E some \in SUBSET Activities, target \in Targets, terminal, nonBlocking \in BOOLEAN :
        BulkStart(some, target, terminal, nonBlocking)
    \/ BulkRound
    \/ BulkEnd

Spec == Init /\ [][Next]_vars

-----------------------------------------------------------------------------
\* When a bulk transition ends, no candidate it has skipped could still make the
\* transition, in whatever order the set was walked.
BulkIsComplete ==
    bulk # NoBulk /\ bulk.rounds = 0 =>
        \A a \in bulk.remaining : ~CanTransition(a, bulk.target)

\* A bulk completion leaves every activity it has completed with its
\* dependencies completed, though they may be candidates of the same call.
BulkKeepsOrder ==
    bulk.target = "completed" =>
        \A a \in bulk.candidates \ bulk.remaining : \A d \in act[a].deps :
            d \in Existing /\ act[d].status = "completed"
=============================================================================
