---------------------------- MODULE VersionLine ----------------------------
(***************************************************************************)
(* The version line of one item: initial version, check-out and check-in,  *)
(* release, revision, branches, merges, the revision an engineering change *)
(* order (ECO) prepares and applies, and the locks and attachments of a    *)
(* version's files.                                                        *)
(*                                                                         *)
(* Every operation is an HTTP request with a database session of its own.  *)
(* It reads committed rows, checks its guards on what it read, and changes *)
(* objects in its session; the database sees the changes at the commit,    *)
(* and sees only the columns the request changed.  So an operation here is *)
(* the step that reads and decides: it leaves its changes in req[r], and   *)
(* Commit(r) writes them, whatever has been committed in between.  Nothing *)
(* in the code locks a row it reads.                                       *)
(*                                                                         *)
(* A refused request changes nothing and has no step.  Labels, properties, *)
(* history, workstation contexts and the choice of a primary file are not  *)
(* modelled: no guard of these operations depends on them, except that a   *)
(* repeated check-out from another workstation is refused instead of       *)
(* accepted without effect.                                                *)
(***************************************************************************)
EXTENDS Naturals, FiniteSets

CONSTANTS Users,        \* who sends requests
          Nobody,       \* the holder of what nobody has checked out
          Files,        \* files that may be attached to versions
          Requests,     \* the requests that may be in flight together
          MaxVersions,  \* bound: versions of the line
          Branching     \* whether the line is branched, merged and changed by an ECO

ASSUME Bounds == MaxVersions \in Nat /\ Branching \in BOOLEAN /\ Nobody \notin Users

Versions == 1..MaxVersions
Branches == {"main", "eco"}
Cells    == Versions \X Files

VARIABLES ver,    \* ver[v]: the row of version v, NoRow before v exists
          count,  \* how many versions exist
          item,   \* current_version_id of the item, 0 for none
          eco,    \* the ECO on the item: its target version (0: none), applied or not
          req     \* req[r]: the changes request r is about to commit

vars == <<ver, count, item, eco, req>>

\* A row of meta_item_versions with its rows of meta_version_files.
Row == [branch : Branches, pred : 0..MaxVersions,
        isCurrent : BOOLEAN, isReleased : BOOLEAN, isSuperseded : BOOLEAN,
        holder : Users \cup {Nobody},
        files : SUBSET Files, lock : [Files -> Users \cup {Nobody}]]

\* A row as the code inserts it: an unreleased draft, nothing checked out.
Draft(b, p, cur, fs) ==
    [branch |-> b, pred |-> p, isCurrent |-> cur, isReleased |-> FALSE,
     isSuperseded |-> FALSE, holder |-> Nobody,
     files |-> fs, lock |-> [f \in Files |-> Nobody]]

NoRow == Draft("main", 0, FALSE, {})

Made == 1..count

(***************************************************************************)
(* The changes a session holds.  Each field names the versions, or the     *)
(* files of versions, of which one column is set; insert holds the row of  *)
(* the new version, if there is one.                                       *)
(***************************************************************************)
Changes == [user : Users \cup {Nobody}, insert : SUBSET Row,
            retire : SUBSET Versions, promote : SUBSET Versions,
            release : SUBSET Versions, supersede : SUBSET Versions,
            hold : SUBSET Versions, free : SUBSET Versions,
            lock : SUBSET Cells, unlock : SUBSET Cells,
            attach : SUBSET Cells, detach : SUBSET Cells,
            target : BOOLEAN, applied : BOOLEAN]

By(u) == [user |-> u, insert |-> {}, retire |-> {}, promote |-> {},
          release |-> {}, supersede |-> {}, hold |-> {}, free |-> {},
          lock |-> {}, unlock |-> {}, attach |-> {}, detach |-> {},
          target |-> FALSE, applied |-> FALSE]

Idle == By(Nobody)

Init ==
    /\ ver = [v \in Versions |-> NoRow]
    /\ count = 0
    /\ item = 0
    /\ eco = [target |-> 0, done |-> FALSE]
    /\ req = [r \in Requests |-> Idle]

----------------------------------------------------------------------------
\* Files of v that somebody other than u has checked out (get_blocking_file_locks).
Blocking(v, u) == {f \in ver[v].files : ver[v].lock[f] \notin {Nobody, u}}

\* The check-out of v does not stand in the way of u.
Available(v, u) == ver[v].holder \in {Nobody, u}

\* Files of v that u has checked out: what release_all_file_locks clears for a
\* request that found no lock of anybody else.
LockedBy(v, u) == {v} \X {f \in ver[v].files : ver[v].lock[f] = u}

\* Request r has read and decided, and is about to commit c.
Decide(r, c) ==
    /\ req[r] = Idle
    /\ req' = [req EXCEPT ![r] = c]
    /\ UNCHANGED <<ver, count, item, eco>>

\* The first version of the item; nothing to do when it has one.
CreateInitial(r, u) ==
    /\ count = 0
    /\ Decide(r, [By(u) EXCEPT !.insert = {Draft("main", 0, TRUE, {})}])

\* A check-out locks an unreleased version nobody holds, when no file of it is
\* locked by somebody else.
Checkout(r, u, v) ==
    /\ ~ver[v].isReleased
    /\ ver[v].holder = Nobody
    /\ Blocking(v, u) = {}
    /\ Decide(r, [By(u) EXCEPT !.hold = {v}])

\* A check-in ends u's check-out of v, brings the attachments of v in line with
\* fs (of the current version: what is attached to the item; of another one: the
\* files its properties name, and nothing is removed) and clears its file locks.
Checkin(r, u, v, fs) ==
    LET kept == IF item = v THEN ver[v].files \cap fs ELSE ver[v].files
    IN  /\ ver[v].holder = u
        /\ ~ver[v].isReleased
        /\ Blocking(v, u) = {}
        /\ Decide(r, [By(u) EXCEPT !.free = {v},
                                   !.attach = {v} \X (fs \ ver[v].files),
                                   !.detach = {v} \X (ver[v].files \ kept),
                                   !.unlock = LockedBy(v, u) \cap ({v} \X kept)])

\* Mutant: the old revision is retired as superseded when the new one is opened.
Revise_early(r, u) ==
    /\ item # 0
    /\ ver[item].isReleased
    /\ Available(item, u)
    /\ Blocking(item, u) = {}
    /\ Decide(r, [By(u) EXCEPT !.retire = {item}, !.supersede = {item},
                               !.insert = {Draft("main", item, TRUE, ver[item].files)}])

\* The next revision, or the next generation, of a released current version.
Revise(r, u) ==
    /\ item # 0
    /\ ver[item].isReleased
    /\ Available(item, u)
    /\ Blocking(item, u) = {}
    /\ Decide(r, [By(u) EXCEPT !.retire = {item},
                               !.insert = {Draft("main", item, TRUE, ver[item].files)}])

\* Mutant: the predecessor is marked without testing that there is one.
Release_noPredecessorTest(r, u) ==
    /\ item # 0
    /\ ~ver[item].isReleased
    /\ Blocking(item, u) = {}
    /\ Decide(r, [By(u) EXCEPT !.release = {item}, !.free = {item},
                               !.supersede = {ver[item].pred},
                               !.unlock = LockedBy(item, u)])

\* Mutant: the release leaves the file locks of its user.
Release_keepsFileLocks(r, u) ==
    /\ item # 0
    /\ ~ver[item].isReleased
    /\ Blocking(item, u) = {}
    /\ Decide(r, [By(u) EXCEPT
                    !.release = {item}, !.free = {item},
                    !.supersede = {p \in {ver[item].pred} \ {0} : ver[p].isReleased}])

\* The release of the current version, whoever has it checked out.  A lock column
\* that was read empty is not written.
Release(r, u) ==
    /\ item # 0
    /\ ~ver[item].isReleased
    /\ Blocking(item, u) = {}
    /\ Decide(r, [By(u) EXCEPT
                    !.release = {item},
                    !.free = {v \in {item} : ver[v].holder # Nobody},
                    !.supersede = {p \in {ver[item].pred} \ {0} :
                                      ver[p].isReleased /\ ~ver[p].isSuperseded},
                    !.unlock = LockedBy(item, u)])

\* A draft beside the line, with the files of its source.
CreateBranch(r, u, s, b) ==
    /\ Available(s, u)
    /\ Blocking(s, u) = {}
    /\ Decide(r, [By(u) EXCEPT !.insert = {Draft(b, s, FALSE, ver[s].files)}])

\* Mutant: the merged version does not inherit the target's place as the current one.
MergeBranch_notInherited(r, u, s, t) ==
    /\ Available(s, u)
    /\ Blocking(s, u) = {}
    /\ ~ver[t].isReleased
    /\ ver[t].holder = u
    /\ Blocking(t, u) = {}
    /\ Decide(r, [By(u) EXCEPT !.retire = {t},
                               !.insert = {Draft(ver[t].branch, t, FALSE, {})}])

\* A merge of s into t makes a new draft after t; it takes t's branch, its place as
\* the current version if t has it, and no files.
MergeBranch(r, u, s, t) ==
    /\ Available(s, u)
    /\ Blocking(s, u) = {}
    /\ ~ver[t].isReleased
    /\ ver[t].holder = u
    /\ Blocking(t, u) = {}
    /\ Decide(r, [By(u) EXCEPT
                    !.retire = {v \in {t} : ver[v].isCurrent},
                    !.insert = {Draft(ver[t].branch, t, ver[t].isCurrent, {})}])

\* The ECO branches its target version off the current version.
NewRevision(r, u) ==
    /\ item # 0
    /\ Available(item, u)
    /\ Blocking(item, u) = {}
    /\ Decide(r, [By(u) EXCEPT !.insert = {Draft("eco", item, FALSE, ver[item].files)},
                               !.target = TRUE])

\* Mutant: the version the ECO replaces keeps its is_current flag.
Apply_notRetired(r, u) ==
    LET t == eco.target
    IN  /\ t # 0 /\ ~eco.done
        /\ \A v \in {item, t} \ {0} : Available(v, u) /\ Blocking(v, u) = {}
        /\ ~ver[t].isReleased
        /\ Decide(r, [By(u) EXCEPT !.promote = {t}, !.applied = TRUE])

\* The ECO, approved and free of conflicts, makes its target the current version.
Apply(r, u) ==
    LET t == eco.target
    IN  /\ t # 0 /\ ~eco.done
        /\ \A v \in {item, t} \ {0} : Available(v, u) /\ Blocking(v, u) = {}
        /\ ~ver[t].isReleased
        /\ Decide(r, [By(u) EXCEPT !.retire = {item} \ {0, t}, !.promote = {t},
                                   !.applied = TRUE])

----------------------------------------------------------------------------
\* Mutant: the check-out of the version by somebody else is not looked at.
CheckoutFile_anyHolder(r, u, v, f) ==
    /\ ~ver[v].isReleased
    /\ f \in ver[v].files
    /\ ver[v].lock[f] = Nobody
    /\ Decide(r, [By(u) EXCEPT !.lock = {<<v, f>>}])

\* A file of an unreleased version is locked for u, unless somebody else holds it
\* or the version.
CheckoutFile(r, u, v, f) ==
    /\ ~ver[v].isReleased
    /\ Available(v, u)
    /\ f \in ver[v].files
    /\ ver[v].lock[f] = Nobody
    /\ Decide(r, [By(u) EXCEPT !.lock = {<<v, f>>}])

UndoCheckoutFile(r, u, v, f) ==
    /\ f \in ver[v].files
    /\ ver[v].lock[f] = u
    /\ Decide(r, [By(u) EXCEPT !.unlock = {<<v, f>>}])

\* Attachments change while the user holds the unreleased version.
AttachFile(r, u, v, f) ==
    /\ ~ver[v].isReleased
    /\ ver[v].holder = u
    /\ f \notin ver[v].files
    /\ Decide(r, [By(u) EXCEPT !.attach = {<<v, f>>}])

DetachFile(r, u, v, f) ==
    /\ ~ver[v].isReleased
    /\ ver[v].holder = u
    /\ f \in ver[v].files \ Blocking(v, u)
    /\ Decide(r, [By(u) EXCEPT !.detach = {<<v, f>>}])

----------------------------------------------------------------------------
\* The row of v when the columns that c changes are written over it.
Written(c, v) ==
    LET gone == {f \in Files : <<v, f>> \in c.detach}
    IN  [ver[v] EXCEPT
            !.isCurrent = (@ /\ v \notin c.retire) \/ v \in c.promote,
            !.isReleased = @ \/ v \in c.release,
            !.isSuperseded = @ \/ v \in c.supersede,
            !.holder = IF v \in c.hold THEN c.user
                       ELSE IF v \in c.free THEN Nobody ELSE @,
            !.files = (@ \ gone) \cup {f \in Files : <<v, f>> \in c.attach},
            !.lock = [f \in Files |->
                        IF <<v, f>> \in c.lock THEN c.user
                        ELSE IF <<v, f>> \in c.unlock \/ f \in gone THEN Nobody
                        ELSE ver[v].lock[f]]]

\* The versions when c is written.  The new row, if there is one, comes last.
After(c) ==
    [v \in Versions |->
        IF v = count + 1 /\ c.insert # {} THEN CHOOSE x \in c.insert : TRUE
        ELSE Written(c, v)]

\* uq_itemversion_open_current_per_line: at most one unreleased current version on
\* each branch.
IndexHolds(rows) ==
    \A v, w \in Versions :
        (/\ rows[v].isCurrent /\ ~rows[v].isReleased
         /\ rows[w].isCurrent /\ ~rows[w].isReleased
         /\ rows[v].branch = rows[w].branch) => v = w

\* What the database refuses: a second open draft, a file attached twice, and the
\* update of an attachment that has been deleted.
Accepted(c) ==
    /\ IndexHolds(After(c))
    /\ \A x \in c.attach : x[2] \notin ver[x[1]].files
    /\ \A x \in c.lock \cup c.unlock : x[2] \in ver[x[1]].files

\* The commit of a request.
Commit(r) ==
    LET c == req[r]
        n == count + 1
    IN  /\ c # Idle
        /\ c.insert # {} => n <= MaxVersions
        /\ Accepted(c)
        /\ ver' = After(c)
        /\ count' = IF c.insert = {} THEN count ELSE n
        /\ item' = IF c.insert # {} /\ After(c)[n].isCurrent THEN n
                   ELSE IF c.promote # {} THEN CHOOSE t \in c.promote : TRUE
                   ELSE item
        /\ eco' = [target |-> IF c.target THEN n ELSE eco.target,
                   done |-> eco.done \/ c.applied]
        /\ req' = [req EXCEPT ![r] = Idle]

\* The session is rolled back: the database refuses the commit, or the request
\* ends before it.
Rollback(r) ==
    /\ req[r] # Idle
    /\ req' = [req EXCEPT ![r] = Idle]
    /\ UNCHANGED <<ver, count, item, eco>>

LineStep(r, u) ==
    \/ CreateInitial(r, u)
    \/ \E v \in Made : Checkout(r, u, v)
    \/ \E v \in Made, fs \in SUBSET Files : Checkin(r, u, v, fs)
    \/ Revise(r, u)
    \/ Release(r, u)

BranchStep(r, u) ==
    /\ Branching
    /\ \/ \E s \in Made, b \in Branches : CreateBranch(r, u, s, b)
       \/ \E s, t \in Made : MergeBranch(r, u, s, t)
       \/ NewRevision(r, u)
       \/ Apply(r, u)

FileStep(r, u) ==
    \E v \in Made, f \in Files :
        \/ CheckoutFile(r, u, v, f)
        \/ UndoCheckoutFile(r, u, v, f)
        \/ AttachFile(r, u, v, f)
        \/ DetachFile(r, u, v, f)

Next ==
    \E r \in Requests :
        \/ \E u \in Users : LineStep(r, u) \/ BranchStep(r, u) \/ FileStep(r, u)
        \/ Commit(r)
        \/ Rollback(r)

Spec == Init /\ [][Next]_vars

----------------------------------------------------------------------------
\* The types of the variables; no version past count is current, and a version is
\* made from an earlier one.
TypeOK ==
    /\ ver \in [Versions -> Row]
    /\ count \in 0..MaxVersions
    /\ item \in 0..count
    /\ eco \in [target : 0..count, done : BOOLEAN]
    /\ req \in [Requests -> Changes]
    /\ \A v \in Versions : v > count => ~ver[v].isCurrent
    /\ \A v \in Made : ver[v].pred < v

\* The item's current_version_id names a version whose is_current is set: two
\* columns of two tables that revise, merge_branch, create_initial_version and the
\* apply of an ECO change together, each from what it had read
\* (version/service.py:82, 383-387, 437-446, eco_service.py:1804-1818).  It holds
\* however many requests overlap: VersionLine_proofs.
ItemAtCurrent == item # 0 => ver[item].isCurrent

\* A version is marked superseded no earlier than one made from it is released
\* (version/service.py:567-594), so that the line never loses its active release
\* while the next revision is still in work.
SupersededWasReplaced ==
    \A v \in Made : ver[v].isSuperseded =>
        \E w \in Made : ver[w].pred = v /\ ver[w].isReleased

\* One request at a time, exactly one version is the current one.
OneCurrent == Cardinality({v \in Made : ver[v].isCurrent}) = (IF item = 0 THEN 0 ELSE 1)

\* One request at a time, a version and its files are never checked out by two users
\* (version/service.py:134-147, file_service.py:141-147 refuse either order).
LocksAgree ==
    \A v \in Made, f \in Files :
        (ver[v].holder # Nobody /\ ver[v].lock[f] # Nobody) => ver[v].holder = ver[v].lock[f]

\* One request at a time, a released version is not checked out and neither is any of
\* its files (version/service.py:112, 557-558, 596, file_service.py:138).
ReleasedIsFree ==
    \A v \in Made : ver[v].isReleased =>
        ver[v].holder = Nobody /\ \A f \in Files : ver[v].lock[f] = Nobody

\* Two requests cannot both revise the same version: the index of models.py:121-136
\* "makes a concurrent double-revise race impossible".
OneSuccessor ==
    \A v, w \in Made : ver[v].pred = ver[w].pred /\ ver[v].pred # 0 => v = w

\* anc[v]: the versions v was made from, directly or not.
Ancestors ==
    LET anc[v \in 0..MaxVersions] ==
            IF v = 0 \/ ver[v].pred = 0 THEN {}
            ELSE {ver[v].pred} \cup (IF ver[v].pred < v THEN anc[ver[v].pred] ELSE {})
    IN  anc

\* When a version is released, every released version it comes from is superseded:
\* "older ancestors were superseded inductively when their successor released"
\* (version/service.py:574-575).
AncestorsSuperseded ==
    \A v \in Made : ver[v].isReleased =>
        \A a \in Ancestors[v] : ver[a].isReleased => ver[a].isSuperseded

=============================================================================
