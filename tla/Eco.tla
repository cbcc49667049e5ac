---------------------------------- MODULE Eco ----------------------------------
(***************************************************************************)
(* Engineering change orders: their states, stages and approvals, and the  *)
(* product version an ECO makes current (eco_service.py and its routers).  *)
(*                                                                         *)
(* A request reads the rows it decides from and commits later; nothing is  *)
(* locked in between.  On commit the ORM writes the columns the request    *)
(* has changed and no others, so two requests on one ECO can be mixed.     *)
(* The reads of a request are taken to happen at one moment.               *)
(*                                                                         *)
(* Deadlines are not modelled: an ECO that can be overdue may be.  Whether *)
(* detect_rebase_conflicts finds a conflict depends on the BOM, so an      *)
(* Apply may always be refused: refusals change nothing and are left out.  *)
(***************************************************************************)
EXTENDS Naturals, Sequences, FiniteSets

CONSTANTS
    Ecos,           \* bound: the ECOs that can be created
    Users,          \* users with the approval roles of every stage
    Admins,         \* the superusers among them
    LastStage,      \* the stages are 1..LastStage, by sequence
    Gated,          \* stages whose approval_type is not "none"
    AutoStages,     \* stages with auto_progress
    MinApprovals,   \* min_approvals of every gated stage
    Requests,       \* requests that can overlap
    MaxVersions     \* bound: versions of the product, the first one included

Stages == 1..LastStage

ASSUME StagesExist == LastStage \in Nat \ {0}
ASSUME StageKinds == Gated \subseteq Stages /\ AutoStages \subseteq Stages
ASSUME AdminsAreUsers == Admins \subseteq Users
ASSUME MinimumPositive == MinApprovals \in Nat \ {0}

VARIABLES
    eco,        \* the table meta_ecos: state, stage, whether a product is bound, target version
    votes,      \* the table meta_eco_approvals: rows of an ECO by stage and user
    blocked,    \* ECOs the activity gate blocks
    versions,   \* versions of the product, numbered in the order of creation
    product,    \* its current_version_id
    req,        \* what each open request will write
    forced,     \* history: ECOs resumed with force since they last left "approved"
    raced       \* history: ECOs changed between the read and the commit of a request

vars == <<eco, votes, blocked, versions, product, req, forced, raced>>

-----------------------------------------------------------------------------
Live == {"draft", "progress", "conflict", "approved", "done", "canceled", "suspended"}
Resumable == {"draft", "progress", "conflict", "approved"}
Statuses == {"pending", "approved", "rejected"}
Kinds == {"write", "branch", "apply", "delete"}

Row == [state: Live \cup {"none", "gone"}, stage: Stages, bound: BOOLEAN, target: Nat]
NoEco == [state |-> "none", stage |-> 1, bound |-> FALSE, target |-> 0]
NoVotes == [s \in Stages |-> [u \in Users |-> <<>>]]

\* A vote a request will store: a new row (row = 0) or a new status of a row it read.
Put == [stage: Stages, user: Users, row: Nat, status: Statuses]
Idle == [kind |-> "idle"]
Request == [kind: Kinds, eco: Ecos, at: Row, to: Row, put: SUBSET Put,
            force: BOOLEAN, stale: BOOLEAN]

Exists(e) == eco[e].state \in Live

TypeOK ==
    /\ eco \in [Ecos -> Row]
    /\ votes \in [Ecos -> [Stages -> [Users -> Seq(Statuses)]]]
    /\ blocked \subseteq Ecos
    /\ versions \in Nat \ {0}
    /\ product \in 1..versions
    /\ \A e \in Ecos : eco[e].target <= versions
    /\ req \in [Requests -> Request \cup {Idle}]
    /\ forced \subseteq Ecos
    /\ raced \subseteq Ecos

Init ==
    /\ eco = [e \in Ecos |-> NoEco]
    /\ votes = [e \in Ecos |-> NoVotes]
    /\ blocked = {}
    /\ versions = 1
    /\ product = 1
    /\ req = [r \in Requests |-> Idle]
    /\ forced = {}
    /\ raced = {}

-----------------------------------------------------------------------------
(* Approvals.                                                               *)

\* The approved rows of a stage.
ApprovedRows(v, s) ==
    UNION {{u} \X {i \in DOMAIN v[s][u] : v[s][u][i] = "approved"} : u \in Users}

Complete(v, s) ==
    s \in Gated => Cardinality(ApprovedRows(v, s)) >= MinApprovals

\* The table once the rows of put are stored.
Stored(v, put) ==
    [s \in Stages |-> [u \in Users |->
        IF \E p \in put : p.stage = s /\ p.user = u
        THEN LET p == CHOOSE p \in put : p.stage = s /\ p.user = u
             IN  IF p.row = 0 THEN Append(v[s][u], p.status)
                              ELSE [v[s][u] EXCEPT ![p.row] = p.status]
        ELSE v[s][u]]]

\* The user's row at a stage, any of them if there are several, or a new one.
RowsOf(v, s, u) == IF v[s][u] = <<>> THEN {0} ELSE DOMAIN v[s][u]

\* Pending rows for those of some users who have none at the stage.
Assigned(v, s, some) ==
    {[stage |-> s, user |-> u, row |-> 0, status |-> "pending"] :
        u \in {u \in some : v[s][u] = <<>>}}

-----------------------------------------------------------------------------
(* Requests.                                                                *)

\* Request r, having read ECO e, will write the row to and the votes put.
Ask(r, e, kind, to, put, force) ==
    /\ req[r] = Idle
    /\ req' = [req EXCEPT ![r] =
        [kind |-> kind, eco |-> e, at |-> eco[e], to |-> to, put |-> put,
         force |-> force, stale |-> FALSE]]
    /\ UNCHANGED <<eco, votes, blocked, versions, product, forced, raced>>

Created(b) == [state |-> "draft", stage |-> 1, bound |-> b, target |-> 0]

Create(r, e) ==
    /\ eco[e].state = "none"
    /\ \A q \in Requests : req[q] # Idle => req[q].eco # e
    /\ \E b \in BOOLEAN : Ask(r, e, "write", Created(b), {}, FALSE)

\* bind_product; binding and branching in one request is BindAndBranch.
BindProduct(r, e) ==
    /\ eco[e].state \in {"draft", "progress"}
    /\ ~eco[e].bound /\ eco[e].target = 0
    /\ Ask(r, e, "write", [eco[e] EXCEPT !.bound = TRUE], {}, FALSE)

\* The row after action_new_revision, but for the new target version.
Branched(row) ==
    [row EXCEPT !.bound = TRUE, !.state = IF @ = "draft" THEN "progress" ELSE @]

BindAndBranch(r, e) ==
    /\ eco[e].state \in {"draft", "progress"}
    /\ eco[e].target = 0
    /\ versions < MaxVersions
    /\ Ask(r, e, "branch", Branched(eco[e]), {}, FALSE)

NewRevision(r, e) ==
    /\ Exists(e) /\ eco[e].state # "suspended"
    /\ eco[e].bound
    /\ versions < MaxVersions
    /\ Ask(r, e, "branch", Branched(eco[e]), {}, FALSE)

\* The route deletes drafts only; the service's delete_eco is called by none.
Delete(r, e) ==
    /\ eco[e].state = "draft"
    /\ Ask(r, e, "delete", [eco[e] EXCEPT !.state = "gone"], {}, FALSE)

MoveToStage(r, e, s) ==
    /\ Exists(e) /\ eco[e].state # "suspended"
    /\ e \notin blocked
    /\ Ask(r, e, "write",
           [eco[e] EXCEPT !.stage = s, !.state = IF s \in Gated THEN "progress" ELSE @], {}, FALSE)

Suspend(r, e) ==
    /\ Exists(e) /\ eco[e].state \notin {"suspended", "done", "canceled"}
    /\ Ask(r, e, "write", [eco[e] EXCEPT !.state = "suspended"], {}, FALSE)

\* Mutant: force is not needed to resume into approved.
ReadyToResumeInto(e, state) == e \notin blocked

\* get_unsuspend_diagnostics.
ReadyToResume(e, state) ==
    /\ e \notin blocked
    /\ state = "approved" => Complete(votes[e], eco[e].stage)

Unsuspend(r, e, state, force) ==
    /\ eco[e].state = "suspended"
    /\ force \/ ReadyToResume(e, state)
    /\ Ask(r, e, "write", [eco[e] EXCEPT !.state = state], {}, force)

Cancel(r, e) ==
    /\ Exists(e)
    /\ Ask(r, e, "write", [eco[e] EXCEPT !.state = "canceled"], {}, FALSE)

\* Mutant: a suspended ECO takes votes.
VotableThoughSuspended(e) == Exists(e)

Votable(e) == Exists(e) /\ eco[e].state # "suspended"

\* Mutant: only an ECO in progress moves on.
AfterApprovalInProgress(row, v) ==
    IF ~Complete(v, row.stage) \/ row.state # "progress" THEN row
    ELSE IF row.stage < LastStage /\ row.stage \in AutoStages
         THEN [row EXCEPT !.stage = @ + 1, !.state = "progress"]
         ELSE [row EXCEPT !.state = "approved"]

\* Mutant: the last stage progresses too.
AfterApprovalPastEnd(row, v) ==
    IF ~Complete(v, row.stage) THEN row
    ELSE IF row.stage \in AutoStages
         THEN [row EXCEPT !.stage = @ + 1, !.state = "progress"]
         ELSE [row EXCEPT !.state = "approved"]

\* The row after a vote that leaves the votes v: if the stage is complete the
\* ECO goes to the next stage or is approved.
AfterApproval(row, v) ==
    IF ~Complete(v, row.stage) THEN row
    ELSE IF row.stage < LastStage /\ row.stage \in AutoStages
         THEN [row EXCEPT !.stage = @ + 1, !.state = "progress"]
         ELSE [row EXCEPT !.state = "approved"]

\* The approvers of a gated next stage are assigned in the same transaction.
Approve(r, e, u) ==
    /\ Votable(e)
    /\ \E i \in RowsOf(votes[e], eco[e].stage, u) :
        LET s == eco[e].stage
            mine == [stage |-> s, user |-> u, row |-> i, status |-> "approved"]
            to == AfterApproval(eco[e], Stored(votes[e], {mine}))
            next == IF to.stage # s /\ to.stage \in Gated
                    THEN Assigned(votes[e], to.stage, Users) ELSE {}
        IN  Ask(r, e, "write", to, {mine} \cup next, FALSE)

\* Mutant: the rejection leaves the state alone.
AfterRejectionKept(row) == row

AfterRejection(row) == [row EXCEPT !.state = "progress"]

Reject(r, e, u) ==
    /\ Votable(e)
    /\ \E i \in RowsOf(votes[e], eco[e].stage, u) :
        Ask(r, e, "write", AfterRejection(eco[e]),
            {[stage |-> eco[e].stage, user |-> u, row |-> i, status |-> "rejected"]}, FALSE)

\* The route of its own, in any state.
AutoAssign(r, e) ==
    /\ Exists(e) /\ eco[e].stage \in Gated
    /\ Ask(r, e, "write", eco[e], Assigned(votes[e], eco[e].stage, Users), FALSE)

\* One ECO of the list of overdue ones.
Escalate(r, e) ==
    /\ eco[e].state \in {"draft", "progress"} /\ eco[e].stage \in Gated
    /\ \E u \in Users : \E i \in DOMAIN votes[e][eco[e].stage][u] :
        votes[e][eco[e].stage][u][i] = "pending"
    /\ Ask(r, e, "write", eco[e], Assigned(votes[e], eco[e].stage, Admins), FALSE)

Apply(r, e) ==
    /\ eco[e].state = "approved"
    /\ eco[e].bound /\ eco[e].target # 0
    /\ e \notin blocked
    /\ Ask(r, e, "apply", [eco[e] EXCEPT !.state = "done"], {}, FALSE)

-----------------------------------------------------------------------------
(* Commit and rollback.                                                     *)

Written(now, at, to) == IF to # at THEN to ELSE now

\* Only the columns the request has changed are written.
Merged(now, at, to) ==
    [state |-> Written(now.state, at.state, to.state),
     stage |-> Written(now.stage, at.stage, to.stage),
     bound |-> Written(now.bound, at.bound, to.bound),
     target |-> Written(now.target, at.target, to.target)]

\* The product's current version after the commit of q.
Current(q) == IF q.kind = "apply" THEN q.to.target ELSE product

\* A row that has been deleted meanwhile makes the commit fail.
Commit(r) ==
    LET q == req[r] IN
    /\ q # Idle
    /\ eco[q.eco].state # "gone"
    /\ q.kind = "branch" => versions < MaxVersions
    /\ versions' = IF q.kind = "branch" THEN versions + 1 ELSE versions
    /\ LET row == Merged(eco[q.eco], q.at, q.to) IN
        /\ eco' = [eco EXCEPT ![q.eco] =
            IF q.kind = "branch" THEN [row EXCEPT !.target = versions + 1] ELSE row]
        /\ forced' = IF q.force THEN forced \cup {q.eco}
                     ELSE IF row.state \in {"approved", "suspended"} THEN forced
                     ELSE forced \ {q.eco}
    /\ votes' = [votes EXCEPT ![q.eco] =
        IF q.kind = "delete" THEN NoVotes ELSE Stored(@, q.put)]
    /\ product' = Current(q)
    /\ raced' = IF q.stale THEN raced \cup {q.eco} ELSE raced
    /\ req' = [p \in Requests |->
        IF p = r THEN Idle
        ELSE IF req[p] # Idle /\ req[p].eco = q.eco THEN [req[p] EXCEPT !.stale = TRUE]
        ELSE req[p]]
    /\ UNCHANGED blocked

\* An error after the reads, or a lost connection.
Rollback(r) ==
    /\ req[r] # Idle
    /\ req' = [req EXCEPT ![r] = Idle]
    /\ UNCHANGED <<eco, votes, blocked, versions, product, forced, raced>>

\* An activity of the ECO is opened or reopened, or the last one is closed.
TurnGate(e) ==
    /\ Exists(e)
    /\ blocked' = IF e \in blocked THEN blocked \ {e} ELSE blocked \cup {e}
    /\ UNCHANGED <<eco, votes, versions, product, req, forced, raced>>

Next ==
    \/ \E r \in Requests, e \in Ecos :
        \/ Create(r, e)
        \/ BindProduct(r, e)
        \/ BindAndBranch(r, e)
        \/ NewRevision(r, e)
        \/ Delete(r, e)
        \/ \E s \in Stages : MoveToStage(r, e, s)
        \/ Suspend(r, e)
        \/ \E state \in Resumable, force \in BOOLEAN : Unsuspend(r, e, state, force)
        \/ Cancel(r, e)
        \/ \E u \in Users : Approve(r, e, u) \/ Reject(r, e, u)
        \/ AutoAssign(r, e)
        \/ Escalate(r, e)
        \/ Apply(r, e)
    \/ \E r \in Requests : Commit(r) \/ Rollback(r)
    \/ \E e \in Ecos : TurnGate(e)

Spec == Init /\ [][Next]_vars

-----------------------------------------------------------------------------
(* Properties.  Requests on one ECO that do not overlap.                    *)

\* An approved ECO has the approvals its stage asks for, unless it was resumed
\* with force: through rejections, moves between stages, suspension and
\* resumption, and votes cast in an earlier round.  An approval overlapping a
\* rejection breaks it.
ApprovedIsComplete ==
    \A e \in Ecos :
        eco[e].state = "approved" /\ e \notin raced \cup forced
            => Complete(votes[e], eco[e].stage)

\* The vote that completes a stage moves the ECO on: no ECO is left in progress
\* at a stage whose last approval has come in.  Two approvals that overlap each
\* miss the other's row.
MovesOn(e) ==
    /\ ~Complete(votes[e], eco[e].stage)
    /\ Complete(votes'[e], eco[e].stage)
    => e \in raced' \/ eco'[e].state = "approved" \/ eco'[e].stage # eco[e].stage

CompletionProgresses == [][\A e \in Ecos : MovesOn(e)]_<<eco, votes, raced>>

\* The product's current version changes only in a step that makes an ECO done, to
\* the target of that ECO, which MinApprovals different users had approved at its
\* stage unless it was forced.
Approvers(e) ==
    {u \in Users : \E i \in DOMAIN votes[e][eco[e].stage][u] :
        votes[e][eco[e].stage][u][i] = "approved"}

Applies(e) ==
    /\ eco'[e].state = "done"
    /\ \/ e \in raced'
       \/ /\ product' = eco'[e].target
          /\ \/ e \in forced
             \/ eco[e].stage \notin Gated
             \/ Cardinality(Approvers(e)) >= MinApprovals

AppliedIsApproved == [][product' # product => \E e \in Ecos : Applies(e)]_<<product>>

\* Nothing but a resumption or a cancel changes a suspended ECO, but for the
\* pending rows of approvers assigned to it.
StaysSuspended(e) ==
    eco[e].state = "suspended" /\ e \notin raced' =>
        \/ eco'[e].state \in Resumable \cup {"canceled"}
        \/ /\ eco'[e] = eco[e]
           /\ ApprovedRows(votes'[e], eco[e].stage) = ApprovedRows(votes[e], eco[e].stage)

SuspensionHolds == [][\A e \in Ecos : StaysSuspended(e)]_<<eco, votes, raced>>
=============================================================================
