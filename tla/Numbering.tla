------------------------------- MODULE Numbering -------------------------------
(***************************************************************************)
(* Item numbers (numbering_service.py): a counter row per item type and    *)
(* prefix, raised by an upsert inside the transaction that inserts the     *)
(* item, above a floor taken from the items already stored.  Requests run  *)
(* concurrently under READ COMMITTED; the upsert locks the counter row     *)
(* until its transaction ends.  One item type and one prefix, in one       *)
(* tenant and organisation: the counter row is per scope, the scan is not, *)
(* and an item of another scope is to it what one with a typed number is.  *)
(* A scan that fails allocates nothing (PostgreSQL then refuses the upsert *)
(* of the same transaction too).  The path for databases other than        *)
(* PostgreSQL and SQLite is not modelled.                                  *)
(***************************************************************************)
EXTENDS Naturals, FiniteSets

CONSTANTS
    Items,       \* bound: the items that can be created
    Requests,    \* requests that can overlap
    Start,       \* the rule's start
    TokenMode,   \* the prefix is rendered from a token pattern
    MaxNumber    \* bound: numbers in use

VARIABLES
    status,     \* status[i]: "none", "open" (in an open transaction), "live" or "deleted"
    number,     \* number[i]: the item's number, 0 before it has one
    explicit,   \* items whose number came with the request
    last,       \* committed last_value of the counter row, 0 if there is no row
    raised,     \* the value an open transaction has raised it to, 0 if none has
    mine,       \* mine[r]: items inserted by r's open transaction
    view,       \* view[r]: items in r's floor scan
    scanned,    \* requests between the floor scan and the upsert
    seen        \* history: seen[i]: the items in the scan i's number was chosen with

vars == <<status, number, explicit, last, raised, mine, view, scanned, seen>>

Init ==
    /\ status = [i \in Items |-> "none"]
    /\ number = [i \in Items |-> 0]
    /\ explicit = {}
    /\ last = 0
    /\ raised = 0
    /\ mine = [r \in Requests |-> {}]
    /\ view = [r \in Requests |-> {}]
    /\ scanned = {}
    /\ seen = [i \in Items |-> {}]

-----------------------------------------------------------------------------
\* The largest number of a set of items, or base if that is larger.
Largest(some, base) ==
    CHOOSE m \in {number[i] : i \in some} \cup {base} :
        base <= m /\ \A i \in some : number[i] <= m

\* _floor_allocated_value.
Floor(some) == IF TokenMode THEN Start ELSE Largest(some, Start - 1) + 1

\* A transaction sees the committed items and those of its own it has flushed:
\* an item with related ones is flushed after them.
Visible(flushed) == {i \in Items : status[i] = "live"} \cup flushed

Scan(r) ==
    /\ r \notin scanned
    /\ scanned' = scanned \cup {r}
    /\ \E flushed \in SUBSET mine[r] : view' = [view EXCEPT ![r] = Visible(flushed)]
    /\ UNCHANGED <<status, number, explicit, last, raised, mine, seen>>

\* The counter row is locked by the transaction that has raised it.
Holds(r) == raised # 0 /\ \E i \in mine[r] : i \notin explicit
Counter == IF raised # 0 THEN raised ELSE last

\* Mutant: the conflict clause takes the floor and forgets the counter.
NextNumberFromFloor(floor) == floor

\* INSERT last_value = floor, ON CONFLICT last_value = greatest(last_value + 1, floor).
NextNumber(floor) ==
    IF Counter = 0 \/ Counter + 1 <= floor THEN floor ELSE Counter + 1

\* The upsert, and the insert of the item that takes the number.
Allocate(r, i) ==
    /\ r \in scanned
    /\ raised = 0 \/ Holds(r)
    /\ status[i] = "none"
    /\ LET n == NextNumber(Floor(view[r])) IN
        /\ n <= MaxNumber
        /\ number' = [number EXCEPT ![i] = n]
        /\ raised' = n
    /\ status' = [status EXCEPT ![i] = "open"]
    /\ mine' = [mine EXCEPT ![r] = @ \cup {i}]
    /\ scanned' = scanned \ {r}
    /\ view' = [view EXCEPT ![r] = {}]
    /\ seen' = [seen EXCEPT ![i] = view[r]]
    /\ UNCHANGED <<explicit, last>>

\* A number in the payload is taken as it is.
TakeExplicit(r, i, n) ==
    /\ r \notin scanned
    /\ status[i] = "none"
    /\ status' = [status EXCEPT ![i] = "open"]
    /\ number' = [number EXCEPT ![i] = n]
    /\ explicit' = explicit \cup {i}
    /\ mine' = [mine EXCEPT ![r] = @ \cup {i}]
    /\ UNCHANGED <<last, raised, view, scanned, seen>>

Commit(r) ==
    /\ r \notin scanned /\ mine[r] # {}
    /\ status' = [i \in Items |-> IF i \in mine[r] THEN "live" ELSE status[i]]
    /\ last' = IF Holds(r) THEN raised ELSE last
    /\ raised' = IF Holds(r) THEN 0 ELSE raised
    /\ mine' = [mine EXCEPT ![r] = {}]
    /\ UNCHANGED <<number, explicit, view, scanned, seen>>

\* An error or a lost connection: the counter row goes back with the items.
Rollback(r) ==
    /\ r \in scanned \/ mine[r] # {}
    /\ status' = [i \in Items |-> IF i \in mine[r] THEN "none" ELSE status[i]]
    /\ number' = [i \in Items |-> IF i \in mine[r] THEN 0 ELSE number[i]]
    /\ seen' = [i \in Items |-> IF i \in mine[r] THEN {} ELSE seen[i]]
    /\ explicit' = explicit \ mine[r]
    /\ raised' = IF Holds(r) THEN 0 ELSE raised
    /\ mine' = [mine EXCEPT ![r] = {}]
    /\ scanned' = scanned \ {r}
    /\ view' = [view EXCEPT ![r] = {}]
    /\ UNCHANGED last

Delete(i) ==
    /\ status[i] = "live"
    /\ status' = [status EXCEPT ![i] = "deleted"]
    /\ UNCHANGED <<number, explicit, last, raised, mine, view, scanned, seen>>

Next ==
    \/ \E r \in Requests :
        \/ Scan(r) \/ Commit(r) \/ Rollback(r)
        \/ \E i \in Items :
            \/ Allocate(r, i)
            \/ \E n \in 1..MaxNumber : TakeExplicit(r, i, n)
    \/ \E i \in Items : Delete(i)

Spec == Init /\ [][Next]_vars

-----------------------------------------------------------------------------
\* No two generated numbers are the same, whatever transactions overlap, roll
\* back or create several items, and though an item is deleted in between; and
\* a generated number is none that an item stored when it was chosen had.  (A
\* number given explicitly may repeat any other: nothing checks it.)
NumbersUnique ==
    \A i, j \in Items :
        (i # j /\ number[i] = number[j] /\ number[i] # 0 /\ i \notin explicit) =>
            /\ j \in explicit
            /\ TokenMode \/ j \notin seen[i]
=============================================================================
