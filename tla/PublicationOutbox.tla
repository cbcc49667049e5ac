--------------------------- MODULE PublicationOutbox ---------------------------
(***************************************************************************)
(* What a publication outbox promises, whatever its workers do: a row is   *)
(* enqueued, its content is sent to the target any number of times, and it *)
(* is settled.  The target may overwrite what it shows by the content or   *)
(* leave it, and may acknowledge the send or not: "sent" is recorded only  *)
(* for an acknowledged row, and only a prune takes a row out of "sent".  A *)
(* row reaches the target only while it is pending and no newer row of its *)
(* lineage is recorded as sent.                                            *)
(*                                                                         *)
(* EcmOutbox implements it with a single drain worker, and so does         *)
(* NotificationOutbox, whose deliveries are each a lineage of their own.   *)
(***************************************************************************)
EXTENDS Naturals

CONSTANTS Rows,     \* the rows, numbered in the order of publication
          Lineage   \* the lineage of each row: rows of one overwrite each other

VARIABLES state,         \* state[r]: "absent", or the state column of the row
          acknowledged,  \* rows a send of which the target has acknowledged
          shown          \* shown[l]: the row whose content the target shows, 0 for none

vars == <<state, acknowledged, shown>>

Settled == {"sent", "failed", "skipped"}
Lineages == {Lineage[r] : r \in Rows}

Init ==
    /\ state = [r \in Rows |-> "absent"]
    /\ acknowledged = {}
    /\ shown = [l \in Lineages |-> 0]

Enqueue(r) ==
    /\ state[r] = "absent"
    /\ state' = [state EXCEPT ![r] = "pending"]
    /\ UNCHANGED <<acknowledged, shown>>

\* A send reaches the target, which applies the content or not and acknowledges
\* it or not.
Deliver(r) ==
    /\ state[r] = "pending"
    /\ \A s \in Rows : (Lineage[s] = Lineage[r] /\ s > r) => state[s] # "sent"
    /\ acknowledged' \in {acknowledged, acknowledged \cup {r}}
    /\ shown' \in {shown, [shown EXCEPT ![Lineage[r]] = r]}
    /\ UNCHANGED state

Settle(r, s) ==
    /\ state[r] = "pending"
    /\ s = "sent" => r \in acknowledged
    /\ state' = [state EXCEPT ![r] = s]
    /\ UNCHANGED <<acknowledged, shown>>

\* An operator, or a new release, has a row published after all.
Reopen(r) ==
    /\ state[r] \in {"failed", "skipped"}
    /\ state' = [state EXCEPT ![r] = "pending"]
    /\ UNCHANGED <<acknowledged, shown>>

\* The retention prune.
Forget(r) ==
    /\ state[r] = "sent"
    /\ state' = [state EXCEPT ![r] = "absent"]
    /\ UNCHANGED <<acknowledged, shown>>

Next == \E r \in Rows :
            \/ Enqueue(r) \/ Deliver(r) \/ Reopen(r) \/ Forget(r)
            \/ \E s \in Settled : Settle(r, s)

Spec == Init /\ [][Next]_vars
=============================================================================
