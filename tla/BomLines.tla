------------------------------- MODULE BomLines -------------------------------
(***************************************************************************)
(* The lines of a bill of materials and the cycle check of add_child       *)
(* (bom_service.py, its router and the CAD import).  A request reads what  *)
(* is committed and what it has itself added, and commits later; nothing   *)
(* is locked and no constraint backs the check.                            *)
(*                                                                         *)
(* Lines of one unit of measure.  The other guards of add_child (part not  *)
(* released, suspended, locked) only refuse, and change nothing.           *)
(***************************************************************************)
EXTENDS Naturals, FiniteSets

CONSTANTS
    Parts,
    Requests,
    MaxLines        \* bound: lines at one time, those not committed included

Edges == Parts \X Parts

VARIABLES
    lines,      \* committed lines: how many from a parent to a child
    new,        \* lines a request has added and not committed
    stale,      \* history: requests that miss a line committed since they looked
    unchecked   \* history: lines whose check missed another, or had none

vars == <<lines, new, stale, unchecked>>

Init ==
    /\ lines = [e \in Edges |-> 0]
    /\ new = [r \in Requests |-> {}]
    /\ stale = {}
    /\ unchecked = {}

Committed == {e \in Edges : lines[e] > 0}

HasRoom ==
    Cardinality(UNION {{e} \X (1..lines[e]) : e \in Edges})
        + Cardinality(UNION {new[r] \X {r} : r \in Requests}) < MaxLines

-----------------------------------------------------------------------------
Closed(edges, some) == \A e \in edges : e[1] \in some => e[2] \in some

\* The parts the search from a part comes to, which has no limit and visits each once:
\* those in every set that has the part, and the children of all it has.
Reached(edges, part) ==
    {p \in Parts : \A some \in SUBSET Parts : part \in some /\ Closed(edges, some) => p \in some}

\* Mutant: the search stops at the children of the child.
HasCycleNear(edges, parent, child) == parent = child \/ <<child, parent>> \in edges

\* detect_cycle_with_path.
HasCycle(edges, parent, child) == parent \in Reached(edges, child)

AddChild(r, parent, child) ==
    /\ HasRoom
    /\ ~HasCycle(Committed \cup new[r], parent, child)
    /\ <<parent, child>> \notin Committed \cup new[r]
    /\ new' = [new EXCEPT ![r] = @ \cup {<<parent, child>>}]
    /\ UNCHANGED <<lines, stale, unchecked>>

Commit(r) ==
    /\ new[r] # {}
    /\ lines' = [e \in Edges |-> IF e \in new[r] THEN lines[e] + 1 ELSE lines[e]]
    /\ unchecked' = IF r \in stale THEN unchecked \cup new[r] ELSE unchecked
    /\ new' = [new EXCEPT ![r] = {}]
    /\ stale' = {q \in Requests \ {r} : new[q] # {}}

Rollback(r) ==
    /\ new[r] # {}
    /\ new' = [new EXCEPT ![r] = {}]
    /\ stale' = stale \ {r}
    /\ UNCHANGED <<lines, unchecked>>

\* The generic add of a relationship looks for neither a cycle nor a second line.
AmlAdd(parent, child) ==
    /\ HasRoom
    /\ lines' = [lines EXCEPT ![<<parent, child>>] = @ + 1]
    /\ unchecked' = unchecked \cup {<<parent, child>>}
    /\ stale' = {q \in Requests : new[q] # {}}
    /\ UNCHANGED new

\* remove_child, the delete and its commit: one of the lines.
RemoveChild(parent, child) ==
    /\ lines[<<parent, child>>] > 0
    /\ lines' = [lines EXCEPT ![<<parent, child>>] = @ - 1]
    /\ unchecked' = IF lines[<<parent, child>>] = 1 THEN unchecked \ {<<parent, child>>}
                    ELSE unchecked
    /\ UNCHANGED <<new, stale>>

Next ==
    \/ \E r \in Requests :
        \/ \E parent, child \in Parts : AddChild(r, parent, child)
        \/ Commit(r) \/ Rollback(r)
    \/ \E parent, child \in Parts : AmlAdd(parent, child) \/ RemoveChild(parent, child)

Spec == Init /\ [][Next]_vars

-----------------------------------------------------------------------------
\* The lines add_child has checked against all others make no cycle (the parts
\* can be numbered so that each line goes from a smaller to a larger number) and
\* there is one between a parent and a child, whatever else is committed in
\* between.  Reads of unbounded depth rely on it (bom_multitable_projection_service.py:31
\* calls a service-built BOM a DAG); two overlapping requests each miss the other's line.
CheckedIsDag ==
    LET checked == Committed \ unchecked IN
    /\ \A e \in checked : lines[e] = 1
    /\ \E rank \in [Parts -> 1..Cardinality(Parts)] :
        \A e \in checked : rank[e[1]] < rank[e[2]]
=============================================================================
