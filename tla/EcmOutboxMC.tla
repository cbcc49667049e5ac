----------------------------- MODULE EcmOutboxMC -----------------------------
(* Instances of EcmOutbox for TLC. *)
EXTENDS EcmOutbox

\* All rows are successive versions of one (item_id, file_role) document.
SameLineage == [r \in Rows |-> 1]
=============================================================================
