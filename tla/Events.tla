-------------------------------- MODULE Events --------------------------------
(***************************************************************************)
(* Domain events and the search index that follows them                    *)
(* (events/transactional.py, event_bus.py, search_indexer.py and the AML   *)
(* operations that raise them).  A request's events wait in its session;   *)
(* after_commit publishes them and the handlers run one by one, each with  *)
(* a session of its own.                                                   *)
(*                                                                         *)
(* SQLAlchemy (2.0) calls after_commit also when a SAVEPOINT is released   *)
(* and after_soft_rollback also when one is rolled back; a promote writes  *)
(* its history inside one.  An update may promote, add or delete related   *)
(* items, so a transaction is any sequence of operations.                  *)
(*                                                                         *)
(* Content stands for properties and state; a row written by a transaction *)
(* is locked until it ends.                                                *)
(***************************************************************************)
EXTENDS Naturals, Sequences

CONSTANTS
    Items,
    Contents,       \* what an item can hold
    Requests,
    MaxPending      \* bound: events waiting in a session

VARIABLES
    store,      \* the table meta_items as committed
    work,       \* what the open transaction of a request has written
    pending,    \* session.info: events not yet published
    feed,       \* events a request is publishing, the first one being handled
    got,        \* what its handler has read of the item
    index,      \* the search index
    spoiled     \* history: items whose last change may not have been announced after its commit

vars == <<store, work, pending, feed, got, index, spoiled>>

Event == [item: Items, kind: {"sync", "remove"}]
Untouched == [i \in Items |-> "same"]

Init ==
    /\ store = [i \in Items |-> "absent"]
    /\ work = [r \in Requests |-> Untouched]
    /\ pending = [r \in Requests |-> <<>>]
    /\ feed = [r \in Requests |-> <<>>]
    /\ got = [r \in Requests |-> "nothing"]
    /\ index = [i \in Items |-> "absent"]
    /\ spoiled = {}

ItemsOf(events) == {events[n].item : n \in DOMAIN events}

\* The item as request r sees it: its own writes over what is committed.
Seen(r, i) == IF work[r][i] = "same" THEN store[i] ELSE work[r][i]

\* r writes i and no other transaction holds the row.
Writes(r, i, content) ==
    /\ feed[r] = <<>> /\ Len(pending[r]) < MaxPending
    /\ \A q \in Requests \ {r} : work[q][i] = "same"
    /\ work' = [work EXCEPT ![r][i] = content]

-----------------------------------------------------------------------------
(* The session.                                                             *)

\* enqueue_event, with no savepoint in between.
Enqueue(r, i, kind) ==
    /\ pending' = [pending EXCEPT ![r] = Append(@, [item |-> i, kind |-> kind])]
    /\ UNCHANGED <<feed, spoiled>>

\* A savepoint ends, then the event is enqueued: its release publishes what is
\* pending and its rollback drops it, neither waiting for the transaction.
SavepointThenEnqueue(r, i, released) ==
    /\ pending' = [pending EXCEPT ![r] = <<[item |-> i, kind |-> "sync"]>>]
    /\ feed' = IF released THEN [feed EXCEPT ![r] = pending[r]] ELSE feed
    /\ spoiled' = spoiled \cup ItemsOf(pending[r])

-----------------------------------------------------------------------------
(* AML operations.                                                          *)

Add(r, i, c) ==
    /\ Seen(r, i) = "absent"
    /\ Writes(r, i, c)
    /\ Enqueue(r, i, "sync")
    /\ UNCHANGED <<store, got, index>>

Update(r, i, c) ==
    /\ Seen(r, i) \in Contents
    /\ Writes(r, i, c)
    /\ Enqueue(r, i, "sync")
    /\ UNCHANGED <<store, got, index>>

\* The history of the transition is written in a savepoint, unless it is
\* disabled; a failure of that write is logged and the promote goes on.
Promote(r, i, c) ==
    /\ Seen(r, i) \in Contents
    /\ Writes(r, i, c)
    /\ \/ Enqueue(r, i, "sync")
       \/ \E released \in BOOLEAN : SavepointThenEnqueue(r, i, released)
    /\ UNCHANGED <<store, got, index>>

Delete(r, i) ==
    /\ Seen(r, i) \in Contents
    /\ Writes(r, i, "gone")
    /\ Enqueue(r, i, "remove")
    /\ UNCHANGED <<store, got, index>>

\* Items of r's events that another request is publishing as well.
Overlapping(r) ==
    ItemsOf(pending[r]) \cap UNION {ItemsOf(feed[q]) : q \in Requests \ {r}}

\* The commit, and after_commit, which publishes all that is pending.
Commit(r) ==
    /\ feed[r] = <<>>
    /\ work[r] # Untouched
    /\ store' = [i \in Items |-> Seen(r, i)]
    /\ work' = [work EXCEPT ![r] = Untouched]
    /\ feed' = [feed EXCEPT ![r] = pending[r]]
    /\ spoiled' = (spoiled \ ItemsOf(pending[r])) \cup Overlapping(r)
    /\ pending' = [pending EXCEPT ![r] = <<>>]
    /\ UNCHANGED <<got, index>>

\* An operation fails: apply_item rolls back and the events are dropped.
Rollback(r) ==
    /\ feed[r] = <<>>
    /\ work[r] # Untouched
    /\ work' = [work EXCEPT ![r] = Untouched]
    /\ pending' = [pending EXCEPT ![r] = <<>>]
    /\ UNCHANGED <<store, feed, got, index, spoiled>>

-----------------------------------------------------------------------------
(* Handlers.                                                                *)

\* The handler reads the item in a session of its own.
Read(r) ==
    /\ feed[r] # <<>> /\ Head(feed[r]).kind = "sync"
    /\ got[r] = "nothing"
    /\ got' = [got EXCEPT ![r] = store[Head(feed[r]).item]]
    /\ UNCHANGED <<store, work, pending, feed, index, spoiled>>

\* Mutant: an item that is there already is not indexed again.
IndexedOnce(old, content) == IF content \in Contents /\ old = "absent" THEN content ELSE old

\* index_item; an item that is not found is skipped.
Indexed(old, content) == IF content \in Contents THEN content ELSE old

\* The handler of a removal does not look at the table.
Handle(r) ==
    /\ feed[r] # <<>>
    /\ LET e == Head(feed[r]) IN
        /\ e.kind = "sync" => got[r] # "nothing"
        /\ index' = [index EXCEPT ![e.item] =
            IF e.kind = "remove" THEN "absent" ELSE Indexed(@, got[r])]
    /\ feed' = [feed EXCEPT ![r] = Tail(@)]
    /\ got' = [got EXCEPT ![r] = "nothing"]
    /\ UNCHANGED <<store, work, pending, spoiled>>

\* The search engine does not answer: the error is logged, the event is lost.
HandlerFails(r) ==
    /\ feed[r] # <<>>
    /\ spoiled' = spoiled \cup {Head(feed[r]).item}
    /\ feed' = [feed EXCEPT ![r] = Tail(@)]
    /\ got' = [got EXCEPT ![r] = "nothing"]
    /\ UNCHANGED <<store, work, pending, index>>

\* The server dies: what it was publishing is lost, its transaction is rolled back.
Die(r) ==
    /\ feed[r] # <<>>
    /\ spoiled' = spoiled \cup ItemsOf(feed[r])
    /\ feed' = [feed EXCEPT ![r] = <<>>]
    /\ got' = [got EXCEPT ![r] = "nothing"]
    /\ work' = [work EXCEPT ![r] = Untouched]
    /\ pending' = [pending EXCEPT ![r] = <<>>]
    /\ UNCHANGED <<store, index>>

Next ==
    \E r \in Requests :
        \/ \E i \in Items :
            \/ \E c \in Contents : Add(r, i, c) \/ Update(r, i, c) \/ Promote(r, i, c)
            \/ Delete(r, i)
        \/ Commit(r) \/ Rollback(r)
        \/ Read(r) \/ Handle(r) \/ HandlerFails(r) \/ Die(r)

Spec == Init /\ [][Next]_vars

-----------------------------------------------------------------------------
(* An item nobody is publishing is in the index as it is in the table, but  *)
(* for those an error, a crash, a savepoint or an overlap spoiled: handlers *)
(* that read after the commit make the order and number of events of one    *)
(* transaction irrelevant, and rolled back changes leave no trace.          *)
IndexFollowsStore ==
    \A i \in Items \ spoiled :
        (\A r \in Requests : i \notin ItemsOf(feed[r])) =>
            index[i] = IF store[i] \in Contents THEN store[i] ELSE "absent"

\* "publish them only after the surrounding transaction successfully commits"
\* (events/transactional.py:4-5).
PublishedAfterCommit ==
    \A r \in Requests : \A i \in ItemsOf(feed[r]) : work[r][i] = "same"
=============================================================================
