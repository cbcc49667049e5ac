------------------------------- MODULE Eco_proofs -------------------------------
(***************************************************************************)
(* Engineering change orders, for any finite set of users and any sets of  *)
(* ECOs, stages and overlapping requests.                                  *)
(***************************************************************************)
EXTENDS Eco, FiniteSetTheorems, SequenceTheorems, TLAPS

Votes == [Stages -> [Users -> Seq(Statuses)]]

\* What is true of a request q until it commits, on an ECO whose row, votes and
\* excuse (overlapping requests, a forced resumption) are given, with n versions.
\* A request that is not stale, as nobody has changed the ECO since it read it,
\* writes a new vote only for a user who has none, approves only a complete stage,
\* moves an ECO on whose stage it completes, and does to a suspended ECO only what
\* SuspensionHolds allows.
PlanOn(q, row, v, n, excused) ==
    /\ q.at.target <= n /\ q.to.target <= n
    /\ q.kind = "delete" => q.to.state = "gone" /\ q.at.state = "draft"
    /\ q.kind = "branch" => q.at.state # "suspended"
    /\ q.kind = "apply" =>
        /\ q.at.state = "approved" /\ q.to.state = "done"
        /\ q.to.target = q.at.target /\ q.to.target # 0
    /\ ~q.stale =>
        /\ q.at = row
        /\ \A p \in q.put : p.row = 0 => v[p.stage][p.user] = <<>>
        /\ (q.to.state = "approved" /\ ~q.force /\ ~excused) =>
            Complete(Stored(v, q.put), q.to.stage)
        /\ (~Complete(v, row.stage) /\ Complete(Stored(v, q.put), row.stage)) =>
            q.to.state = "approved" \/ q.to.stage # row.stage
        /\ row.state = "suspended" =>
            \/ q.to.state \in Resumable \cup {"canceled"}
            \/ /\ q.to = row
               /\ ApprovedRows(Stored(v, q.put), row.stage) = ApprovedRows(v, row.stage)

Excused(e) == e \in raced \cup forced

PlansOK ==
    \A r \in Requests : req[r] # Idle =>
        PlanOn(req[r], eco[req[r].eco], votes[req[r].eco], versions, Excused(req[r].eco))

\* Without overlapping requests a user has at most one row at a stage.
OneRow ==
    \A e \in Ecos \ raced : \A s \in Stages : \A u \in Users : Len(votes[e][s][u]) <= 1

EInv == TypeOK /\ PlansOK /\ OneRow /\ ApprovedIsComplete

-----------------------------------------------------------------------------
(* The votes of an ECO.                                                     *)

LEMMA ApprovedRowsMember ==
    ASSUME NEW v, NEW s, NEW u, NEW i
    PROVE  <<u, i>> \in ApprovedRows(v, s) <=>
                u \in Users /\ i \in DOMAIN v[s][u] /\ v[s][u][i] = "approved"
  BY DEF ApprovedRows

LEMMA ApprovedRowsPairs ==
    ASSUME NEW v, NEW s, NEW x \in ApprovedRows(v, s)
    PROVE  x = <<x[1], x[2]>>
  BY DEF ApprovedRows

\* Row by row, more approvals in w than in v make a larger set.
LEMMA ApprovedRowsGrow ==
    ASSUME NEW v, NEW w, NEW s,
           \A u \in Users : \A i \in DOMAIN v[s][u] :
                v[s][u][i] = "approved" => i \in DOMAIN w[s][u] /\ w[s][u][i] = "approved"
    PROVE  ApprovedRows(v, s) \subseteq ApprovedRows(w, s)
<1>1. SUFFICES ASSUME NEW x \in ApprovedRows(v, s) PROVE x \in ApprovedRows(w, s)
  OBVIOUS
<1>2. x = <<x[1], x[2]>>  BY ApprovedRowsPairs
<1>3. x[1] \in Users /\ x[2] \in DOMAIN v[s][x[1]] /\ v[s][x[1]][x[2]] = "approved"
  BY <1>2, ApprovedRowsMember
<1>4. <<x[1], x[2]>> \in ApprovedRows(w, s)  BY <1>3, ApprovedRowsMember
<1>5. QED  BY <1>2, <1>4

LEMMA ApprovedRowsFinite ==
    ASSUME IsFiniteSet(Users), NEW v \in Votes, NEW s \in Stages
    PROVE  IsFiniteSet(ApprovedRows(v, s)) /\ Cardinality(ApprovedRows(v, s)) \in Nat
<1> DEFINE Rows(u) == {u} \X {i \in DOMAIN v[s][u] : v[s][u][i] = "approved"}
           R == {Rows(u) : u \in Users}
           f == [u \in Users |-> Rows(u)]
<1>1. f \in Surjection(Users, R)  BY DEF Surjection
<1>2. IsFiniteSet(R)  BY <1>1, FS_Surjection
<1>3. ASSUME NEW u \in Users PROVE IsFiniteSet(Rows(u))
  <2>1. v[s][u] \in Seq(Statuses)  BY DEF Votes
  <2>2. DOMAIN v[s][u] = 1..Len(v[s][u]) /\ Len(v[s][u]) \in Nat  BY <2>1
  <2>3. IsFiniteSet(DOMAIN v[s][u])  BY <2>2, FS_Interval
  <2>4. IsFiniteSet({i \in DOMAIN v[s][u] : v[s][u][i] = "approved"})
    BY <2>3, FS_Subset
  <2>5. IsFiniteSet({u})  BY FS_Singleton
  <2>6. QED  BY <2>4, <2>5, FS_Product
<1>4. IsFiniteSet(UNION R)
  <2>1. \A T \in R : IsFiniteSet(T)  BY <1>3
  <2> HIDE DEF R
  <2>2. QED  BY <1>2, <2>1, FS_UNION
<1>5. QED  BY <1>4, FS_CardinalityType DEF ApprovedRows

LEMMA CompleteGrows ==
    ASSUME IsFiniteSet(Users), NEW v \in Votes, NEW w \in Votes, NEW s \in Stages,
           ApprovedRows(v, s) \subseteq ApprovedRows(w, s), Complete(v, s)
    PROVE  Complete(w, s)
<1>1. IsFiniteSet(ApprovedRows(w, s)) /\ Cardinality(ApprovedRows(w, s)) \in Nat
      /\ Cardinality(ApprovedRows(v, s)) \in Nat
  BY ApprovedRowsFinite
<1>2. Cardinality(ApprovedRows(v, s)) <= Cardinality(ApprovedRows(w, s))
  BY <1>1, FS_Subset
<1>3. QED  BY <1>1, <1>2, MinimumPositive DEF Complete

\* What a user's row list becomes.
LEMMA StoredAt ==
    ASSUME NEW v, NEW put, NEW s \in Stages, NEW u \in Users
    PROVE  \/ /\ Stored(v, put)[s][u] = v[s][u]
              /\ \A p \in put : p.stage # s \/ p.user # u
           \/ \E p \in put :
                /\ p.stage = s /\ p.user = u
                /\ Stored(v, put)[s][u] =
                        IF p.row = 0 THEN Append(v[s][u], p.status)
                                     ELSE [v[s][u] EXCEPT ![p.row] = p.status]
<1>1. CASE \E p \in put : p.stage = s /\ p.user = u
  <2> DEFINE q == CHOOSE p \in put : p.stage = s /\ p.user = u
  <2>1. q \in put /\ q.stage = s /\ q.user = u  BY <1>1
  <2>2. Stored(v, put)[s][u] = IF q.row = 0 THEN Append(v[s][u], q.status)
                               ELSE [v[s][u] EXCEPT ![q.row] = q.status]
    BY <1>1 DEF Stored
  <2> HIDE DEF q
  <2>3. QED  BY <2>1, <2>2
<1>2. CASE ~\E p \in put : p.stage = s /\ p.user = u
  BY <1>2 DEF Stored
<1>3. QED  BY <1>1, <1>2

\* A row is added at the end or one row is rewritten.
Rewritten(q, t, p) ==
    /\ p.row # 0 => Len(t) = Len(q)
    /\ p.row = 0 => Len(t) = Len(q) + 1
    /\ DOMAIN q \subseteq DOMAIN t
    /\ \A i \in DOMAIN t : t[i] = p.status \/ (i \in DOMAIN q /\ t[i] = q[i])
    /\ \A i \in DOMAIN q : t[i] = IF i = p.row THEN p.status ELSE q[i]

LEMMA RowStored ==
    ASSUME NEW q \in Seq(Statuses), NEW p \in Put,
           NEW t, t = IF p.row = 0 THEN Append(q, p.status) ELSE [q EXCEPT ![p.row] = p.status]
    PROVE  t \in Seq(Statuses) /\ Rewritten(q, t, p)
<1> USE DEF Rewritten
<1>1. p.status \in Statuses /\ p.row \in Nat  BY DEF Put
<1>2. Len(q) \in Nat /\ DOMAIN q = 1..Len(q)  OBVIOUS
<1>3. CASE p.row = 0
  <2>1. t = Append(q, p.status)  BY <1>3
  <2>2. t \in Seq(Statuses) /\ Len(t) = Len(q) + 1 /\ DOMAIN t = 1..(Len(q) + 1)
        /\ \A i \in 1..Len(q) : t[i] = q[i]
        /\ t[Len(q) + 1] = p.status
    BY <1>1, <2>1
  <2> HIDE DEF Put
  <2>3. QED  BY <1>2, <1>3, <2>2
<1>4. CASE p.row # 0 /\ p.row \in 1..Len(q)
  <2>1. t = [q EXCEPT ![p.row] = p.status]  BY <1>4
  <2>2. t \in Seq(Statuses) /\ Len(t) = Len(q)
        /\ \A j \in 1..Len(q) : t[j] = IF j = p.row THEN p.status ELSE q[j]
    BY <1>1, <1>4, <2>1, ExceptSeq
  <2>3. DOMAIN t = 1..Len(q)  BY <2>2
  <2>4. QED  BY <1>2, <1>4, <2>2, <2>3
<1>5. CASE p.row # 0 /\ p.row \notin 1..Len(q)
  <2>1. t = q  BY <1>2, <1>5
  <2>2. QED  BY <1>2, <1>5, <2>1
<1>6. QED  BY <1>3, <1>4, <1>5

LEMMA RowAfter ==
    ASSUME NEW v \in Votes, NEW put \in SUBSET Put, NEW s \in Stages, NEW u \in Users
    PROVE  /\ v[s][u] \in Seq(Statuses) /\ Stored(v, put)[s][u] \in Seq(Statuses)
           /\ \/ Stored(v, put)[s][u] = v[s][u]
              \/ \E p \in put : /\ p.stage = s /\ p.user = u
                                /\ Rewritten(v[s][u], Stored(v, put)[s][u], p)
<1> DEFINE q == v[s][u]
           t == Stored(v, put)[s][u]
<1>1. q \in Seq(Statuses)  BY DEF Votes
<1>2. CASE t = q  BY <1>1, <1>2
<1>3. CASE t # q
  <2>1. PICK p \in put :
            /\ p.stage = s /\ p.user = u
            /\ t = IF p.row = 0 THEN Append(q, p.status) ELSE [q EXCEPT ![p.row] = p.status]
    BY <1>3, StoredAt
  <2>2. p \in Put  OBVIOUS
  <2> HIDE DEF q, t
  <2>3. t \in Seq(Statuses) /\ Rewritten(q, t, p)  BY <1>1, <2>1, <2>2, RowStored
  <2>4. QED  BY <1>1, <2>1, <2>3 DEF q, t
<1>4. QED  BY <1>2, <1>3

LEMMA StoredIsVotes ==
    ASSUME NEW v \in Votes, NEW put \in SUBSET Put
    PROVE  Stored(v, put) \in Votes
<1>1. ASSUME NEW s \in Stages, NEW u \in Users PROVE Stored(v, put)[s][u] \in Seq(Statuses)
  BY RowAfter
<1>2. Stored(v, put) = [s \in Stages |-> [u \in Users |-> Stored(v, put)[s][u]]]
  BY DEF Stored
<1>3. QED  BY <1>1, <1>2 DEF Votes

LEMMA StoredNothing ==
    ASSUME NEW v \in Votes
    PROVE  Stored(v, {}) = v
  BY DEF Stored, Votes

\* Votes that are not approvals approve nothing.
LEMMA StoredOthers ==
    ASSUME NEW v \in Votes, NEW put \in SUBSET Put, NEW s \in Stages,
           \A p \in put : p.status # "approved"
    PROVE  ApprovedRows(Stored(v, put), s) \subseteq ApprovedRows(v, s)
<1>1. ASSUME NEW u \in Users, NEW i \in DOMAIN Stored(v, put)[s][u],
             Stored(v, put)[s][u][i] = "approved"
      PROVE  i \in DOMAIN v[s][u] /\ v[s][u][i] = "approved"
  BY <1>1, RowAfter DEF Rewritten
<1>2. QED  BY <1>1, ApprovedRowsGrow

\* New pending rows change no approval.
LEMMA StoredPending ==
    ASSUME NEW v \in Votes, NEW put \in SUBSET Put, NEW s \in Stages,
           \A p \in put : p.row = 0 /\ p.status = "pending"
    PROVE  ApprovedRows(Stored(v, put), s) = ApprovedRows(v, s)
<1>1. ASSUME NEW u \in Users, NEW i \in DOMAIN v[s][u], v[s][u][i] = "approved"
      PROVE  i \in DOMAIN Stored(v, put)[s][u] /\ Stored(v, put)[s][u][i] = "approved"
  <2>1. v[s][u] \in Seq(Statuses)  BY DEF Votes
  <2>2. i # 0  BY <2>1
  <2>3. QED  BY <1>1, <2>2, RowAfter DEF Rewritten
<1>2. ApprovedRows(v, s) \subseteq ApprovedRows(Stored(v, put), s)
  BY <1>1, ApprovedRowsGrow
<1>3. ApprovedRows(Stored(v, put), s) \subseteq ApprovedRows(v, s)
  BY StoredOthers
<1>4. QED  BY <1>2, <1>3

\* An approval takes no approval away.
LEMMA StoredApproval ==
    ASSUME NEW v \in Votes, NEW p \in Put, NEW s \in Stages, p.status = "approved"
    PROVE  ApprovedRows(v, s) \subseteq ApprovedRows(Stored(v, {p}), s)
<1>1. {p} \in SUBSET Put  OBVIOUS
<1>2. ASSUME NEW u \in Users, NEW i \in DOMAIN v[s][u], v[s][u][i] = "approved"
      PROVE  i \in DOMAIN Stored(v, {p})[s][u] /\ Stored(v, {p})[s][u][i] = "approved"
  BY <1>1, <1>2, RowAfter DEF Rewritten
<1>3. QED  BY <1>2, ApprovedRowsGrow

\* One row per user stays one row per user when rows are added only where there
\* are none.
LEMMA StoredOneRow ==
    ASSUME NEW v \in Votes, NEW put \in SUBSET Put, NEW s \in Stages, NEW u \in Users,
           Len(v[s][u]) <= 1,
           \A p \in put : p.row = 0 => v[p.stage][p.user] = <<>>
    PROVE  Len(Stored(v, put)[s][u]) <= 1
<1> DEFINE q == v[s][u]
           t == Stored(v, put)[s][u]
<1>1. \/ t = q
      \/ \E p \in put : /\ p.stage = s /\ p.user = u
                        /\ p.row # 0 => Len(t) = Len(q)
                        /\ p.row = 0 => Len(t) = Len(q) + 1
  BY RowAfter DEF Rewritten
<1>2. ASSUME NEW p \in put, p.stage = s, p.user = u, p.row = 0 PROVE Len(q) = 0
  <2>1. q = <<>>  BY <1>2
  <2>2. QED  BY <2>1
<1>3. QED  BY <1>1, <1>2

-----------------------------------------------------------------------------
(* Requests that decide.                                                    *)

LEMMA EcoInit == Init => EInv
<1>1. SUFFICES ASSUME Init PROVE EInv  OBVIOUS
<1>2. NoVotes \in Votes /\ \A s \in Stages : \A u \in Users : Len(NoVotes[s][u]) = 0
  BY DEF NoVotes, Votes, Statuses
<1>3. NoEco \in Row  BY StagesExist DEF NoEco, Row, Stages
<1>4. TypeOK
  BY <1>1, <1>2, <1>3 DEF Init, TypeOK, Votes, Idle, NoEco
<1>5. PlansOK /\ ApprovedIsComplete  BY <1>1 DEF Init, PlansOK, ApprovedIsComplete, NoEco, Idle
<1>6. OneRow  BY <1>1, <1>2 DEF Init, OneRow
<1>7. QED  BY <1>4, <1>5, <1>6 DEF EInv

Asked(e, kind, to, put, force) ==
    [kind |-> kind, eco |-> e, at |-> eco[e], to |-> to, put |-> put,
     force |-> force, stale |-> FALSE]

\* A request that decides changes nothing but what it will write.
LEMMA AskKeeps ==
    ASSUME EInv, NEW r \in Requests, NEW e \in Ecos, NEW kind \in Kinds, NEW to \in Row,
           NEW put \in SUBSET Put, NEW force \in BOOLEAN, Ask(r, e, kind, to, put, force),
           PlanOn(Asked(e, kind, to, put, force), eco[e], votes[e], versions, Excused(e))
    PROVE  EInv'
<1> DEFINE q == Asked(e, kind, to, put, force)
<1>1. eco[e] \in Row  BY DEF EInv, TypeOK
<1>2. q \in Request /\ q.eco = e  BY <1>1 DEF Asked, Request
<1>3. req' = [req EXCEPT ![r] = q]
      /\ UNCHANGED <<eco, votes, blocked, versions, product, forced, raced>>
  BY DEF Ask, Asked
<1>4. TypeOK'  BY <1>2, <1>3 DEF EInv, TypeOK
<1>5. PlansOK'
  <2>1. SUFFICES ASSUME NEW p \in Requests, req'[p] # Idle
                 PROVE  PlanOn(req'[p], eco[req'[p].eco], votes[req'[p].eco], versions,
                               Excused(req'[p].eco))
    BY <1>3 DEF PlansOK, Excused
  <2>2. req'[p] = IF p = r THEN q ELSE req[p]  BY <1>3 DEF EInv, TypeOK
  <2>3. CASE p = r  BY <1>2, <2>2, <2>3
  <2>4. CASE p # r  BY <2>1, <2>2, <2>4 DEF EInv, PlansOK
  <2>5. QED  BY <2>3, <2>4
<1>6. (OneRow /\ ApprovedIsComplete)'  BY <1>3 DEF EInv, OneRow, ApprovedIsComplete
<1>7. QED  BY <1>4, <1>5, <1>6 DEF EInv

\* A decision that stores no vote.
LEMMA QuietKeeps ==
    ASSUME EInv, NEW r \in Requests, NEW e \in Ecos, NEW kind \in Kinds, NEW to \in Row,
           NEW force \in BOOLEAN, Ask(r, e, kind, to, {}, force),
           to.target <= versions,
           kind = "delete" => to.state = "gone" /\ eco[e].state = "draft",
           kind = "branch" => eco[e].state # "suspended",
           kind = "apply" => /\ eco[e].state = "approved" /\ to.state = "done"
                             /\ to.target = eco[e].target /\ to.target # 0,
           (to.state = "approved" /\ ~force /\ ~Excused(e)) => Complete(votes[e], to.stage),
           eco[e].state = "suspended" => to.state \in Resumable \cup {"canceled"}
    PROVE  EInv'
<1>1. votes[e] \in Votes /\ eco[e].target <= versions  BY DEF EInv, TypeOK, Votes
<1>2. Stored(votes[e], {}) = votes[e]  BY <1>1, StoredNothing
<1>3. PlanOn(Asked(e, kind, to, {}, force), eco[e], votes[e], versions, Excused(e))
  BY <1>1, <1>2 DEF PlanOn, Asked
<1>4. QED  BY <1>3, AskKeeps

\* The operations that store no vote.
LEMMA QuietActions ==
    ASSUME EInv, NEW r \in Requests, NEW e \in Ecos,
           \/ Create(r, e) \/ BindProduct(r, e) \/ BindAndBranch(r, e) \/ NewRevision(r, e)
           \/ Delete(r, e) \/ (\E s \in Stages : MoveToStage(r, e, s))
           \/ Suspend(r, e) \/ Cancel(r, e) \/ Apply(r, e)
           \/ \E state \in Resumable, force \in BOOLEAN : Unsuspend(r, e, state, force)
    PROVE  EInv'
<1> DEFINE row == eco[e]
<1>1. /\ row \in Row /\ row.target <= versions /\ versions \in Nat
      /\ row.state = "approved" /\ ~Excused(e) => Complete(votes[e], row.stage)
  BY DEF EInv, TypeOK, ApprovedIsComplete, Excused
<1>2. CASE Create(r, e)
  <2>1. PICK b \in BOOLEAN : Ask(r, e, "write", Created(b), {}, FALSE)
    BY <1>2 DEF Create
  <2>2. row.state = "none"  BY <1>2 DEF Create
  <2>3. 1 \in Stages  BY StagesExist DEF Stages
  <2>4. Created(b) \in Row /\ Created(b).target = 0 /\ Created(b).state = "draft"
    BY <2>3 DEF Created, Row, Live
  <2>5. 0 <= versions /\ "write" \in Kinds  BY <1>1 DEF Kinds
  <2>6. QED  BY <2>1, <2>2, <2>4, <2>5, QuietKeeps
<1>3. CASE BindProduct(r, e)
  <2> DEFINE to == [row EXCEPT !.bound = TRUE]
  <2>1. Ask(r, e, "write", to, {}, FALSE) /\ row.state \in {"draft", "progress"}
    BY <1>3 DEF BindProduct
  <2>2. to \in Row /\ to.target = row.target /\ to.state = row.state
    BY <1>1 DEF Row
  <2> HIDE DEF to
  <2>3. QED  BY <1>1, <2>1, <2>2, QuietKeeps DEF Kinds
<1>4. CASE BindAndBranch(r, e) \/ NewRevision(r, e)
  <2> DEFINE to == Branched(row)
  <2>1. Ask(r, e, "branch", to, {}, FALSE) /\ row.state # "suspended"
    BY <1>4 DEF BindAndBranch, NewRevision
  <2>2. to \in Row /\ to.target = row.target /\ to.stage = row.stage
        /\ (to.state = "approved" => row.state = "approved")
    BY <1>1 DEF Branched, Row, Live
  <2> HIDE DEF to
  <2>3. QED  BY <1>1, <2>1, <2>2, QuietKeeps DEF Kinds
<1>5. CASE Delete(r, e)
  <2> DEFINE to == [row EXCEPT !.state = "gone"]
  <2>1. Ask(r, e, "delete", to, {}, FALSE) /\ row.state = "draft"
    BY <1>5 DEF Delete
  <2>2. to \in Row /\ to.target = row.target /\ to.state = "gone"
    BY <1>1 DEF Row
  <2> HIDE DEF to
  <2>3. QED  BY <1>1, <2>1, <2>2, QuietKeeps DEF Kinds
<1>6. CASE \E s \in Stages : MoveToStage(r, e, s)
  <2>1. PICK s \in Stages : MoveToStage(r, e, s)  BY <1>6
  <2> DEFINE to == [row EXCEPT !.stage = s, !.state = IF s \in Gated THEN "progress" ELSE @]
  <2>2. Ask(r, e, "write", to, {}, FALSE) /\ row.state # "suspended"
    BY <2>1 DEF MoveToStage
  <2>3. to \in Row /\ to.target = row.target /\ to.stage = s
        /\ (to.state = "approved" => s \notin Gated)
    BY <1>1 DEF Row, Live
  <2> HIDE DEF to
  <2>4. QED  BY <1>1, <2>2, <2>3, QuietKeeps DEF Kinds, Complete
<1>7. CASE Suspend(r, e)
  <2> DEFINE to == [row EXCEPT !.state = "suspended"]
  <2>1. Ask(r, e, "write", to, {}, FALSE) /\ row.state # "suspended"
    BY <1>7 DEF Suspend
  <2>2. to \in Row /\ to.target = row.target /\ to.state = "suspended"
    BY <1>1 DEF Row, Live
  <2> HIDE DEF to
  <2>3. QED  BY <1>1, <2>1, <2>2, QuietKeeps DEF Kinds
<1>8. CASE Cancel(r, e)
  <2> DEFINE to == [row EXCEPT !.state = "canceled"]
  <2>1. Ask(r, e, "write", to, {}, FALSE)  BY <1>8 DEF Cancel
  <2>2. to \in Row /\ to.target = row.target /\ to.state = "canceled"
    BY <1>1 DEF Row, Live
  <2> HIDE DEF to
  <2>3. QED  BY <1>1, <2>1, <2>2, QuietKeeps DEF Kinds
<1>9. CASE Apply(r, e)
  <2> DEFINE to == [row EXCEPT !.state = "done"]
  <2>1. Ask(r, e, "apply", to, {}, FALSE) /\ row.state = "approved" /\ row.target # 0
    BY <1>9 DEF Apply
  <2>2. to \in Row /\ to.target = row.target /\ to.state = "done"
    BY <1>1 DEF Row, Live
  <2> HIDE DEF to
  <2>3. QED  BY <1>1, <2>1, <2>2, QuietKeeps DEF Kinds
<1>10. CASE \E state \in Resumable, force \in BOOLEAN : Unsuspend(r, e, state, force)
  <2>1. PICK state \in Resumable, force \in BOOLEAN : Unsuspend(r, e, state, force)
    BY <1>10
  <2> DEFINE to == [row EXCEPT !.state = state]
  <2>2. Ask(r, e, "write", to, {}, force) /\ (force \/ ReadyToResume(e, state))
    BY <2>1 DEF Unsuspend
  <2>3. to \in Row /\ to.target = row.target /\ to.state = state /\ to.stage = row.stage
    BY <1>1 DEF Row, Live, Resumable
  <2>4. (state = "approved" /\ ~force) => Complete(votes[e], row.stage)
    BY <2>2 DEF ReadyToResume
  <2> HIDE DEF to
  <2>5. QED  BY <1>1, <2>2, <2>3, <2>4, QuietKeeps DEF Kinds
<1>11. QED
  BY <1>2, <1>3, <1>4, <1>5, <1>6, <1>7, <1>8, <1>9, <1>10

-----------------------------------------------------------------------------
(* Requests that store votes.                                               *)

LEMMA AssignedRows ==
    ASSUME NEW v, NEW s \in Stages, NEW some \in SUBSET Users
    PROVE  /\ Assigned(v, s, some) \in SUBSET Put
           /\ \A p \in Assigned(v, s, some) :
                p.row = 0 /\ p.status = "pending" /\ v[p.stage][p.user] = <<>>
  BY DEF Assigned, Put, Statuses

\* Approvers are assigned: no approval comes or goes.
LEMMA AssignKeeps ==
    ASSUME EInv, NEW r \in Requests, NEW e \in Ecos, NEW some \in SUBSET Users,
           Ask(r, e, "write", eco[e], Assigned(votes[e], eco[e].stage, some), FALSE)
    PROVE  EInv'
<1> DEFINE row == eco[e]
           v == votes[e]
           put == Assigned(v, row.stage, some)
<1>1. row \in Row /\ row.stage \in Stages /\ v \in Votes /\ row.target <= versions
  BY DEF EInv, TypeOK, Votes, Row
<1>2. row.state = "approved" /\ ~Excused(e) => Complete(v, row.stage)
  BY DEF EInv, ApprovedIsComplete, Excused
<1>3. /\ put \in SUBSET Put
      /\ \A p \in put : p.row = 0 /\ p.status = "pending" /\ v[p.stage][p.user] = <<>>
  BY <1>1, AssignedRows
<1> HIDE DEF put
<1>4. ApprovedRows(Stored(v, put), row.stage) = ApprovedRows(v, row.stage)
  BY <1>1, <1>3, StoredPending
<1>5. Complete(Stored(v, put), row.stage) <=> Complete(v, row.stage)
  BY <1>4 DEF Complete
<1>6. PlanOn(Asked(e, "write", row, put, FALSE), row, v, versions, Excused(e))
  BY <1>1, <1>2, <1>3, <1>4, <1>5 DEF PlanOn, Asked
<1>7. Ask(r, e, "write", row, put, FALSE)  BY DEF put
<1>8. QED  BY <1>1, <1>3, <1>6, <1>7, AskKeeps DEF Kinds

LEMMA VoteRow ==
    ASSUME EInv, NEW e \in Ecos, NEW u \in Users, NEW i \in RowsOf(votes[e], eco[e].stage, u),
           NEW status \in Statuses
    PROVE  /\ [stage |-> eco[e].stage, user |-> u, row |-> i, status |-> status] \in Put
           /\ i = 0 => votes[e][eco[e].stage][u] = <<>>
<1>1. eco[e].stage \in Stages  BY DEF EInv, TypeOK, Row
<1>2. votes[e][eco[e].stage][u] \in Seq(Statuses)  BY <1>1 DEF EInv, TypeOK
<1>3. DOMAIN votes[e][eco[e].stage][u] = 1..Len(votes[e][eco[e].stage][u])
      /\ Len(votes[e][eco[e].stage][u]) \in Nat
  BY <1>2
<1>4. QED  BY <1>1, <1>3 DEF RowsOf, Put

\* What an approval does to the row: nothing, the next stage, or approved.
LEMMA AfterApprovalRow ==
    ASSUME NEW row \in Row, NEW w
    PROVE  /\ AfterApproval(row, w) \in Row
           /\ AfterApproval(row, w).target = row.target
           /\ \/ AfterApproval(row, w) = row /\ ~Complete(w, row.stage)
              \/ /\ AfterApproval(row, w).stage = row.stage + 1
                 /\ AfterApproval(row, w).state = "progress"
              \/ /\ AfterApproval(row, w).stage = row.stage
                 /\ AfterApproval(row, w).state = "approved"
                 /\ Complete(w, row.stage)
<1> DEFINE next == [row EXCEPT !.stage = @ + 1, !.state = "progress"]
           done == [row EXCEPT !.state = "approved"]
<1>1. CASE ~Complete(w, row.stage)
  BY <1>1 DEF AfterApproval
<1>2. CASE Complete(w, row.stage) /\ row.stage < LastStage /\ row.stage \in AutoStages
  <2>1. AfterApproval(row, w) = next  BY <1>2 DEF AfterApproval
  <2>2. row.stage \in Stages  BY DEF Row
  <2>3. row.stage + 1 \in Stages  BY <1>2, <2>2, StagesExist DEF Stages
  <2>4. next.stage = row.stage + 1 /\ next.state = "progress" /\ next.target = row.target
    BY DEF Row
  <2>5. next \in Row  BY <2>3 DEF Row, Live
  <2> HIDE DEF next
  <2>6. QED  BY <2>1, <2>4, <2>5
<1>3. CASE Complete(w, row.stage) /\ ~(row.stage < LastStage /\ row.stage \in AutoStages)
  <2>1. AfterApproval(row, w) = done  BY <1>3 DEF AfterApproval
  <2>2. done \in Row /\ done.state = "approved" /\ done.stage = row.stage /\ done.target = row.target
    BY DEF Row, Live
  <2> HIDE DEF done
  <2>3. QED  BY <1>3, <2>1, <2>2
<1>4. QED  BY <1>1, <1>2, <1>3

LEMMA ApproveKeeps ==
    ASSUME IsFiniteSet(Users), EInv, NEW r \in Requests, NEW e \in Ecos, NEW u \in Users,
           Approve(r, e, u)
    PROVE  EInv'
<1> DEFINE row == eco[e]
           v == votes[e]
           s == row.stage
<1>1. row \in Row /\ s \in Stages /\ v \in Votes /\ row.target <= versions
  BY DEF EInv, TypeOK, Votes, Row
<1>2. row.state = "approved" /\ ~Excused(e) => Complete(v, s)
  BY DEF EInv, ApprovedIsComplete, Excused
<1>3. PICK i \in RowsOf(v, s, u) :
        LET mine == [stage |-> s, user |-> u, row |-> i, status |-> "approved"]
            to == AfterApproval(row, Stored(v, {mine}))
            next == IF to.stage # s /\ to.stage \in Gated
                    THEN Assigned(v, to.stage, Users) ELSE {}
        IN  Ask(r, e, "write", to, {mine} \cup next, FALSE)
  BY DEF Approve
<1> DEFINE mine == [stage |-> s, user |-> u, row |-> i, status |-> "approved"]
           w == Stored(v, {mine})
           to == AfterApproval(row, w)
           next == IF to.stage # s /\ to.stage \in Gated THEN Assigned(v, to.stage, Users) ELSE {}
<1>4. mine \in Put /\ mine.status = "approved" /\ (mine.row = 0 => v[mine.stage][mine.user] = <<>>)
  BY VoteRow DEF Statuses
<1>5. Ask(r, e, "write", to, {mine} \cup next, FALSE)  BY <1>3
<1>6. w \in Votes /\ ApprovedRows(v, s) \subseteq ApprovedRows(w, s)
  <2> HIDE DEF mine
  <2>1. {mine} \in SUBSET Put  BY <1>4
  <2>2. QED  BY <1>1, <1>4, <2>1, StoredIsVotes, StoredApproval
<1>7. Complete(v, s) => Complete(w, s)  BY <1>1, <1>6, CompleteGrows
<1> HIDE DEF mine, w
<1>8. /\ to \in Row /\ to.target = row.target
      /\ \/ to = row /\ ~Complete(w, s)
         \/ to.stage = s + 1 /\ to.state = "progress"
         \/ to.stage = s /\ to.state = "approved" /\ Complete(w, s)
  BY <1>1, AfterApprovalRow
<1>9. to.stage \in Stages /\ s \in Nat  BY <1>1, <1>8, StagesExist DEF Row, Stages
<1>10. row.state # "suspended"  BY DEF Approve, Votable
<1> HIDE DEF to
<1>11. next \in SUBSET Put /\ (\A p \in next : p.row = 0 => v[p.stage][p.user] = <<>>)
       /\ (to.stage = s => next = {})
  BY <1>9, AssignedRows
<1> HIDE DEF next
<1>12. /\ {mine} \cup next \in SUBSET Put
       /\ \A p \in {mine} \cup next : p.row = 0 => v[p.stage][p.user] = <<>>
  BY <1>4, <1>11
<1>13. to.stage = s => Stored(v, {mine} \cup next) = w
  BY <1>11 DEF w
<1>14. (to.state = "approved" /\ ~Excused(e)) => Complete(Stored(v, {mine} \cup next), to.stage)
  BY <1>2, <1>7, <1>8, <1>13
<1>15. Complete(Stored(v, {mine} \cup next), s) => to.state = "approved" \/ to.stage # s
  BY <1>8, <1>9, <1>13
<1>16. PlanOn(Asked(e, "write", to, {mine} \cup next, FALSE), row, v, versions, Excused(e))
  BY <1>1, <1>8, <1>10, <1>12, <1>14, <1>15 DEF PlanOn, Asked
<1>17. QED  BY <1>5, <1>8, <1>12, <1>16, AskKeeps DEF Kinds

LEMMA RejectKeeps ==
    ASSUME IsFiniteSet(Users), EInv, NEW r \in Requests, NEW e \in Ecos, NEW u \in Users,
           Reject(r, e, u)
    PROVE  EInv'
<1> DEFINE row == eco[e]
           v == votes[e]
           s == row.stage
           to == AfterRejection(row)
<1>1. row \in Row /\ s \in Stages /\ v \in Votes /\ row.target <= versions
  BY DEF EInv, TypeOK, Votes, Row
<1>2. PICK i \in RowsOf(v, s, u) :
        Ask(r, e, "write", to,
            {[stage |-> s, user |-> u, row |-> i, status |-> "rejected"]}, FALSE)
  BY DEF Reject
<1> DEFINE mine == [stage |-> s, user |-> u, row |-> i, status |-> "rejected"]
<1>3. mine \in Put /\ mine.status = "rejected" /\ (mine.row = 0 => v[mine.stage][mine.user] = <<>>)
  BY VoteRow DEF Statuses
<1>4. Ask(r, e, "write", to, {mine}, FALSE)  BY <1>2
<1> HIDE DEF mine
<1>5. {mine} \in SUBSET Put /\ \A p \in {mine} : p.status # "approved"  BY <1>3
<1>6. Stored(v, {mine}) \in Votes
      /\ ApprovedRows(Stored(v, {mine}), s) \subseteq ApprovedRows(v, s)
  BY <1>1, <1>5, StoredIsVotes, StoredOthers
<1>7. Complete(Stored(v, {mine}), s) => Complete(v, s)  BY <1>1, <1>6, CompleteGrows
<1>8. to \in Row /\ to.target = row.target /\ to.state = "progress"
  BY <1>1 DEF AfterRejection, Row, Live
<1>9. row.state # "suspended"  BY DEF Reject, Votable
<1> HIDE DEF to
<1>10. PlanOn(Asked(e, "write", to, {mine}, FALSE), row, v, versions, Excused(e))
  BY <1>1, <1>3, <1>7, <1>8, <1>9 DEF PlanOn, Asked
<1>11. QED  BY <1>4, <1>5, <1>8, <1>10, AskKeeps DEF Kinds

LEMMA VotingActions ==
    ASSUME IsFiniteSet(Users), EInv, NEW r \in Requests, NEW e \in Ecos,
           \/ \E u \in Users : Approve(r, e, u) \/ Reject(r, e, u)
           \/ AutoAssign(r, e) \/ Escalate(r, e)
    PROVE  EInv'
<1>1. CASE \E u \in Users : Approve(r, e, u) \/ Reject(r, e, u)
  BY <1>1, ApproveKeeps, RejectKeeps
<1>2. CASE AutoAssign(r, e)
  BY <1>2, AssignKeeps DEF AutoAssign
<1>3. CASE Escalate(r, e)
  BY <1>3, AssignKeeps, AdminsAreUsers DEF Escalate
<1>4. QED  BY <1>1, <1>2, <1>3

-----------------------------------------------------------------------------
(* Commits.                                                                 *)

\* The columns written are columns of a row; nobody having changed the row since it
\* was read, they are those the request asked for.
LEMMA MergedRow ==
    ASSUME NEW now \in Row, NEW at \in Row, NEW to \in Row
    PROVE  /\ Merged(now, at, to) \in Row
           /\ Merged(now, at, to).target \in {now.target, to.target}
           /\ at = now => Merged(now, at, to) = to
<1>1. /\ Merged(now, at, to) \in Row
      /\ Merged(now, at, to).target \in {now.target, to.target}
  BY DEF Merged, Written, Row
<1>2. ASSUME at = now PROVE Merged(now, at, to) = to
  <2>1. /\ Written(now.state, at.state, to.state) = to.state
        /\ Written(now.stage, at.stage, to.stage) = to.stage
        /\ Written(now.bound, at.bound, to.bound) = to.bound
        /\ Written(now.target, at.target, to.target) = to.target
    BY <1>2 DEF Written
  <2>2. Merged(now, at, to) =
            [state |-> to.state, stage |-> to.stage, bound |-> to.bound, target |-> to.target]
    BY <2>1 DEF Merged
  <2>3. QED  BY <2>2 DEF Row
<1>3. QED  BY <1>1, <1>2

\* What the commit of q does.
Committed(q) ==
    LET e == q.eco IN
    /\ q # Idle
    /\ versions' \in Nat /\ versions <= versions'
    /\ eco'[e] \in Row /\ eco'[e].target <= versions'
    /\ votes'[e] = IF q.kind = "delete" THEN NoVotes ELSE Stored(votes[e], q.put)
    /\ ~q.stale => /\ eco'[e].state = q.to.state
                   /\ eco'[e].stage = q.to.stage
                   /\ q.kind # "branch" => eco'[e] = q.to
    /\ e \in raced' <=> e \in raced \/ q.stale
    /\ q.force => e \in forced'
    /\ eco'[e].state = "approved" /\ e \in forced => e \in forced'
    /\ \A f \in Ecos \ {e} :
        /\ eco'[f] = eco[f] /\ votes'[f] = votes[f]
        /\ f \in raced' <=> f \in raced
        /\ f \in forced' <=> f \in forced

LEMMA RequestRead ==
    ASSUME EInv, NEW r \in Requests, req[r] # Idle
    PROVE  /\ req[r] \in Request
           /\ req[r].eco \in Ecos /\ req[r].at \in Row /\ req[r].to \in Row
           /\ req[r].put \in SUBSET Put /\ req[r].kind \in Kinds
           /\ req[r].stale \in BOOLEAN /\ req[r].force \in BOOLEAN
           /\ eco[req[r].eco] \in Row /\ votes[req[r].eco] \in Votes
           /\ eco[req[r].eco].target <= versions
           /\ PlanOn(req[r], eco[req[r].eco], votes[req[r].eco], versions, Excused(req[r].eco))
<1>1. req[r] \in Request  BY DEF EInv, TypeOK
<1>2. /\ req[r].eco \in Ecos /\ req[r].at \in Row /\ req[r].to \in Row
      /\ req[r].put \in SUBSET Put /\ req[r].kind \in Kinds
      /\ req[r].stale \in BOOLEAN /\ req[r].force \in BOOLEAN
  BY <1>1 DEF Request
<1>3. eco[req[r].eco] \in Row /\ votes[req[r].eco] \in Votes
      /\ eco[req[r].eco].target <= versions
  BY <1>2 DEF EInv, TypeOK, Votes
<1>4. QED  BY <1>1, <1>2, <1>3 DEF EInv, PlansOK

LEMMA CommitDoes ==
    ASSUME EInv, NEW r \in Requests, Commit(r)
    PROVE  Committed(req[r])
<1> DEFINE q == req[r]
           e == q.eco
           row == Merged(eco[e], q.at, q.to)
<1>1. q # Idle  BY DEF Commit
<1>2. /\ e \in Ecos /\ q.at \in Row /\ q.to \in Row /\ eco[e] \in Row /\ votes[e] \in Votes
      /\ PlanOn(q, eco[e], votes[e], versions, Excused(e))
      /\ eco[e].target <= versions
  BY <1>1, RequestRead
<1>3. versions \in Nat /\ eco \in [Ecos -> Row] /\ votes \in [Ecos -> Votes]
      /\ raced \subseteq Ecos /\ forced \subseteq Ecos
  BY DEF EInv, TypeOK, Votes
<1>4. row \in Row /\ row.target \in {eco[e].target, q.to.target} /\ (q.at = eco[e] => row = q.to)
  BY <1>2, MergedRow
<1>5. row.target <= versions  BY <1>2, <1>3, <1>4 DEF PlanOn
<1>6. /\ versions' = IF q.kind = "branch" THEN versions + 1 ELSE versions
      /\ eco' = [eco EXCEPT ![e] =
            IF q.kind = "branch" THEN [row EXCEPT !.target = versions + 1] ELSE row]
      /\ votes' = [votes EXCEPT ![e] =
            IF q.kind = "delete" THEN NoVotes ELSE Stored(@, q.put)]
      /\ raced' = IF q.stale THEN raced \cup {e} ELSE raced
      /\ forced' = IF q.force THEN forced \cup {e}
                   ELSE IF row.state \in {"approved", "suspended"} THEN forced
                   ELSE forced \ {e}
  BY DEF Commit
<1>7. ~q.stale => row = q.to  BY <1>2, <1>4 DEF PlanOn
<1> HIDE DEF row
<1>8. versions' \in Nat /\ versions <= versions'  BY <1>3, <1>6
<1>9. /\ eco'[e] \in Row /\ eco'[e].target <= versions'
      /\ eco'[e].state = row.state /\ eco'[e].stage = row.stage
      /\ q.kind # "branch" => eco'[e] = row
  <2>1. CASE q.kind = "branch"
    <3> DEFINE new == [row EXCEPT !.target = versions + 1]
    <3>1. eco'[e] = new  BY <1>2, <1>3, <1>6, <2>1
    <3>2. new.state = row.state /\ new.stage = row.stage /\ new.target = versions + 1
      BY <1>4 DEF Row
    <3>3. new \in Row  BY <1>3, <1>4 DEF Row
    <3> HIDE DEF new
    <3>4. QED  BY <1>3, <1>6, <2>1, <3>1, <3>2, <3>3
  <2>2. CASE q.kind # "branch"
    BY <1>2, <1>3, <1>4, <1>5, <1>6, <2>2
  <2>3. QED  BY <2>1, <2>2
<1>10. votes'[e] = IF q.kind = "delete" THEN NoVotes ELSE Stored(votes[e], q.put)
  BY <1>2, <1>3, <1>6
<1>11. \A f \in Ecos \ {e} : eco'[f] = eco[f] /\ votes'[f] = votes[f]
  BY <1>2, <1>3, <1>6
<1>12. \A f \in Ecos \ {e} : (f \in raced' <=> f \in raced) /\ (f \in forced' <=> f \in forced)
  BY <1>6
<1>13. /\ e \in raced' <=> e \in raced \/ q.stale
       /\ q.force => e \in forced'
       /\ row.state = "approved" /\ e \in forced => e \in forced'
  BY <1>2, <1>6
<1> HIDE DEF e, q
<1>14. Committed(q)
  BY <1>1, <1>7, <1>8, <1>9, <1>10, <1>11, <1>12, <1>13 DEF Committed, e
<1>15. QED  BY <1>14 DEF q

\* The plan of a request outlives versions created meanwhile, and another's commit
\* on its ECO if it becomes stale.
LEMMA PlanLater ==
    ASSUME NEW q \in Request, NEW row, NEW v, NEW n \in Nat, NEW m \in Nat, n <= m, NEW x,
           NEW nrow, NEW nv, NEW nx, PlanOn(q, row, v, n, x)
    PROVE  /\ PlanOn(q, row, v, m, x)
           /\ PlanOn([q EXCEPT !.stale = TRUE], nrow, nv, m, nx)
<1>1. q.at.target \in Nat /\ q.to.target \in Nat  BY DEF Request, Row
<1>2. q.at.target <= m /\ q.to.target <= m  BY <1>1 DEF PlanOn
<1>3. PlanOn(q, row, v, m, x)  BY <1>2 DEF PlanOn
<1> DEFINE p == [q EXCEPT !.stale = TRUE]
<1>4. p.at = q.at /\ p.to = q.to /\ p.kind = q.kind /\ p.stale = TRUE
  BY DEF Request
<1> HIDE DEF p
<1>5. PlanOn(p, nrow, nv, m, nx)  BY <1>2, <1>4 DEF PlanOn
<1>6. QED  BY <1>3, <1>5 DEF p

LEMMA CommitKeeps ==
    ASSUME EInv, NEW r \in Requests, Commit(r)
    PROVE  EInv'
<1> DEFINE q == req[r]
           e == q.eco
<1>1. Committed(q)  BY CommitDoes
<1>2. q # Idle  BY DEF Commit
<1>3. /\ q \in Request /\ e \in Ecos /\ q.put \in SUBSET Put /\ q.stale \in BOOLEAN
      /\ q.to \in Row
      /\ votes[e] \in Votes
      /\ PlanOn(q, eco[e], votes[e], versions, Excused(e))
  BY <1>2, RequestRead
<1>4. /\ product' = Current(q) /\ UNCHANGED blocked
      /\ req' = [p \in Requests |->
            IF p = r THEN Idle
            ELSE IF req[p] # Idle /\ req[p].eco = e THEN [req[p] EXCEPT !.stale = TRUE]
            ELSE req[p]]
  BY DEF Commit
<1>4a. /\ eco \in [Ecos -> Row] /\ votes \in [Ecos -> Votes] /\ versions \in Nat \ {0}
      /\ raced \subseteq Ecos /\ forced \subseteq Ecos
  BY DEF EInv, TypeOK, Votes
<1>4b. /\ eco' = [eco EXCEPT ![e] = eco'[e]]
      /\ votes' = [votes EXCEPT ![e] = votes'[e]]
  BY <1>3, <1>4a DEF Commit
<1>4c. /\ versions' \in Nat \ {0} /\ versions \in Nat
      /\ raced' \subseteq Ecos /\ forced' \subseteq Ecos
  BY <1>3, <1>4a DEF Commit
<1>5. NoVotes \in Votes /\ \A s \in Stages : \A u \in Users : Len(NoVotes[s][u]) = 0
  BY DEF NoVotes, Votes
<1>6. votes'[e] \in Votes  BY <1>1, <1>3, <1>5, StoredIsVotes DEF Committed
<1>7. product' \in 1..versions'
  <2>1. CASE q.kind = "apply"
    <3>1. q.to.target \in Nat /\ q.to.target # 0 /\ q.to.target <= versions
      BY <1>3, <2>1 DEF PlanOn, Row
    <3>2. versions <= versions'  BY <1>1 DEF Committed
    <3>3. product' = q.to.target  BY <1>4, <2>1 DEF Current
    <3> HIDE DEF q
    <3>4. QED  BY <1>4c, <3>1, <3>2, <3>3
  <2>2. CASE q.kind # "apply"
    <3>1. product' = product  BY <1>4, <2>2 DEF Current
    <3>2. product \in 1..versions  BY DEF EInv, TypeOK
    <3>3. versions <= versions'  BY <1>1 DEF Committed
    <3> HIDE DEF q
    <3>4. QED  BY <1>4c, <3>1, <3>2, <3>3
  <2>3. QED  BY <2>1, <2>2
<1>8. TypeOK'
  <2>1. eco \in [Ecos -> Row] /\ votes \in [Ecos -> Votes] /\ blocked \subseteq Ecos
        /\ req \in [Requests -> Request \cup {Idle}] /\ \A f \in Ecos : eco[f].target <= versions
    BY DEF EInv, TypeOK, Votes
  <2>2. eco' \in [Ecos -> Row]  BY <1>1, <1>3, <1>4b, <2>1 DEF Committed
  <2>3. votes' \in [Ecos -> Votes]  BY <1>6, <1>4b, <2>1
  <2>4. ASSUME NEW f \in Ecos PROVE eco'[f].target <= versions'
    <3>1. CASE f = e  BY <1>1, <3>1 DEF Committed
    <3>2. CASE f # e
      <4>1. eco'[f] = eco[f] /\ versions <= versions'  BY <1>1, <3>2 DEF Committed
      <4>2. eco[f].target \in Nat /\ eco[f].target <= versions  BY <2>1 DEF Row
      <4>3. QED  BY <1>4c, <4>1, <4>2
    <3>3. QED  BY <3>1, <3>2
  <2>5. ASSUME NEW p \in Requests PROVE req'[p] \in Request \cup {Idle}
    <3>1. req[p] \in Request => [req[p] EXCEPT !.stale = TRUE] \in Request  BY DEF Request
    <3>2. QED  BY <1>4, <2>1, <3>1
  <2>6. req' \in [Requests -> Request \cup {Idle}]  BY <1>4, <2>5
  <2> HIDE DEF e, q
  <2>7. QED  BY <1>4, <1>4c, <1>7, <2>1, <2>2, <2>3, <2>4, <2>6 DEF TypeOK, Votes
<1>9. PlansOK'
  <2>1. SUFFICES ASSUME NEW p \in Requests, req'[p] # Idle
                 PROVE  PlanOn(req'[p], eco'[req'[p].eco], votes'[req'[p].eco], versions',
                               req'[p].eco \in raced' \cup forced')
    BY DEF PlansOK, Excused
  <2>2. p # r /\ req[p] # Idle  BY <1>4, <2>1
  <2> DEFINE f == req[p].eco
  <2>3. /\ req[p] \in Request /\ f \in Ecos
        /\ PlanOn(req[p], eco[f], votes[f], versions, Excused(f))
    BY <2>2, RequestRead
  <2>4. versions \in Nat /\ versions' \in Nat /\ versions <= versions'
    BY <1>1, <1>4c DEF Committed
  <2>5. CASE f = e
    <3>1. req'[p] = [req[p] EXCEPT !.stale = TRUE]  BY <1>4, <2>2, <2>5
    <3>2. PlanOn(req'[p], eco'[req'[p].eco], votes'[req'[p].eco], versions',
                 req'[p].eco \in raced' \cup forced')
      BY <2>3, <2>4, <3>1, PlanLater
    <3>3. QED  BY <3>2
  <2>6. CASE f # e
    <3>1. req'[p] = req[p]  BY <1>4, <2>2, <2>6
    <3>2. eco'[f] = eco[f] /\ votes'[f] = votes[f]
          /\ (f \in raced' <=> f \in raced) /\ (f \in forced' <=> f \in forced)
      BY <1>1, <2>3, <2>6 DEF Committed
    <3>3. (f \in raced' \cup forced') = (f \in raced \cup forced)  BY <3>2
    <3>4. PlanOn(req[p], eco[f], votes[f], versions', f \in raced \cup forced)
      BY <2>3, <2>4, PlanLater DEF Excused
    <3>5. QED  BY <3>1, <3>2, <3>3, <3>4
  <2>7. QED  BY <2>5, <2>6
<1>10. OneRow'
  <2>1. SUFFICES ASSUME NEW f \in Ecos, f \notin raced', NEW s \in Stages, NEW u \in Users
                 PROVE  Len(votes'[f][s][u]) <= 1
    BY DEF OneRow
  <2>2. CASE f = e
    <3>1. ~q.stale /\ e \notin raced  BY <1>1, <2>1, <2>2 DEF Committed
    <3>2. Len(votes[e][s][u]) <= 1  BY <1>3, <3>1 DEF EInv, OneRow
    <3>3. \A p \in q.put : p.row = 0 => votes[e][p.stage][p.user] = <<>>
      BY <1>3, <3>1 DEF PlanOn
    <3>4. Len(Stored(votes[e], q.put)[s][u]) <= 1  BY <1>3, <3>2, <3>3, StoredOneRow
    <3>5. QED  BY <1>1, <1>5, <2>2, <3>4 DEF Committed
  <2>3. CASE f # e
    <3>1. votes'[f] = votes[f] /\ f \notin raced  BY <1>1, <2>1, <2>3 DEF Committed
    <3>2. QED  BY <3>1 DEF EInv, OneRow
  <2>4. QED  BY <2>2, <2>3
<1>11. ApprovedIsComplete'
  <2>1. SUFFICES ASSUME NEW f \in Ecos, eco'[f].state = "approved", f \notin raced' \cup forced'
                 PROVE  Complete(votes'[f], eco'[f].stage)
    BY DEF ApprovedIsComplete, Complete, ApprovedRows
  <2>2. CASE f = e
    <3>1. ~q.stale /\ ~q.force /\ ~Excused(e)  BY <1>1, <2>1, <2>2 DEF Committed, Excused
    <3>2. q.to.state = "approved" /\ eco'[e].stage = q.to.stage
      BY <1>1, <2>1, <2>2, <3>1 DEF Committed
    <3>3. q.kind # "delete" /\ Complete(Stored(votes[e], q.put), q.to.stage)
      BY <1>3, <3>1, <3>2 DEF PlanOn
    <3>4. votes'[e] = Stored(votes[e], q.put)  BY <1>1, <3>3 DEF Committed
    <3>5. QED  BY <2>2, <3>2, <3>3, <3>4
  <2>3. CASE f # e
    <3>1. /\ eco'[f] = eco[f] /\ votes'[f] = votes[f]
          /\ f \notin raced \cup forced
      BY <1>1, <2>1, <2>3 DEF Committed
    <3>2. Complete(votes[f], eco[f].stage)  BY <2>1, <3>1 DEF EInv, ApprovedIsComplete
    <3>3. QED  BY <3>1, <3>2
  <2>4. QED  BY <2>2, <2>3
<1>12. QED  BY <1>8, <1>9, <1>10, <1>11 DEF EInv

LEMMA RollbackKeeps ==
    ASSUME EInv, NEW r \in Requests, Rollback(r)
    PROVE  EInv'
<1>1. /\ req' = [req EXCEPT ![r] = Idle]
      /\ UNCHANGED <<eco, votes, blocked, versions, product, forced, raced>>
  BY DEF Rollback
<1>2. TypeOK'  BY <1>1 DEF EInv, TypeOK
<1>3. PlansOK'  BY <1>1 DEF EInv, TypeOK, PlansOK, Excused
<1>4. (OneRow /\ ApprovedIsComplete)'  BY <1>1 DEF EInv, OneRow, ApprovedIsComplete
<1>5. QED  BY <1>2, <1>3, <1>4 DEF EInv

LEMMA TurnGateKeeps ==
    ASSUME EInv, NEW e \in Ecos, TurnGate(e)
    PROVE  EInv'
<1>1. /\ blocked' \subseteq Ecos
      /\ UNCHANGED <<eco, votes, versions, product, req, forced, raced>>
  BY DEF TurnGate, EInv, TypeOK
<1>2. TypeOK'  BY <1>1 DEF EInv, TypeOK
<1>3. (PlansOK /\ OneRow /\ ApprovedIsComplete)'
  BY <1>1 DEF EInv, PlansOK, Excused, OneRow, ApprovedIsComplete
<1>4. QED  BY <1>2, <1>3 DEF EInv

LEMMA EcoNext ==
    ASSUME IsFiniteSet(Users), EInv, [Next]_vars
    PROVE  EInv'
<1>1. CASE UNCHANGED vars
  BY <1>1 DEF vars, EInv, TypeOK, PlansOK, Excused, OneRow, ApprovedIsComplete
<1>2. CASE \E r \in Requests, e \in Ecos :
        \/ Create(r, e) \/ BindProduct(r, e) \/ BindAndBranch(r, e) \/ NewRevision(r, e)
        \/ Delete(r, e) \/ (\E s \in Stages : MoveToStage(r, e, s))
        \/ Suspend(r, e) \/ Cancel(r, e) \/ Apply(r, e)
        \/ \E state \in Resumable, force \in BOOLEAN : Unsuspend(r, e, state, force)
  BY <1>2, QuietActions
<1>3. CASE \E r \in Requests, e \in Ecos :
        \/ \E u \in Users : Approve(r, e, u) \/ Reject(r, e, u)
        \/ AutoAssign(r, e) \/ Escalate(r, e)
  BY <1>3, VotingActions
<1>4. CASE \E r \in Requests : Commit(r) \/ Rollback(r)
  BY <1>4, CommitKeeps, RollbackKeeps
<1>5. CASE \E e \in Ecos : TurnGate(e)
  BY <1>5, TurnGateKeeps
<1>6. QED  BY <1>1, <1>2, <1>3, <1>4, <1>5 DEF Next

\* The invariant of every behaviour.
LEMMA EcoInvariant ==
    ASSUME IsFiniteSet(Users)
    PROVE  Spec => []EInv
<1>1. Init => EInv  BY EcoInit
<1>2. EInv /\ [Next]_vars => EInv'  BY EcoNext
<1>3. QED  BY <1>1, <1>2, PTL DEF Spec

\* Type correctness: each request holds rows and votes of the tables, every target is
\* a version of the product.
THEOREM EcoTypes ==
    ASSUME IsFiniteSet(Users)
    PROVE  Spec => []TypeOK
<1>1. EInv => TypeOK  BY DEF EInv
<1>2. QED  BY <1>1, EcoInvariant, PTL

\* Whatever order approvals, rejections, moves, suspensions, resumptions and deletions
\* come in (eco_service.py, action handlers), an approved ECO has the approvals of its
\* stage, unless it was resumed with force or requests on it overlapped.
THEOREM EcoApprovedIsComplete ==
    ASSUME IsFiniteSet(Users)
    PROVE  Spec => []ApprovedIsComplete
<1>1. EInv => ApprovedIsComplete  BY DEF EInv
<1>2. QED  BY <1>1, EcoInvariant, PTL

-----------------------------------------------------------------------------
(* Steps.                                                                   *)

\* The tables change only when a request commits.
LEMMA OnlyCommitsWrite ==
    ASSUME [Next]_vars
    PROVE  \/ \E r \in Requests : Commit(r)
           \/ UNCHANGED <<eco, votes, versions, product, raced, forced>>
<1> DEFINE Quiet == UNCHANGED <<eco, votes, versions, product, raced, forced>>
<1>1. ASSUME NEW r, NEW e, NEW kind, NEW to, NEW put, NEW force, Ask(r, e, kind, to, put, force)
      PROVE  Quiet
  BY <1>1 DEF Ask
<1>2. ASSUME NEW r \in Requests, NEW e \in Ecos,
             \/ Create(r, e) \/ BindProduct(r, e) \/ BindAndBranch(r, e) \/ NewRevision(r, e)
             \/ Delete(r, e) \/ (\E s \in Stages : MoveToStage(r, e, s))
      PROVE  Quiet
  BY <1>1, <1>2 DEF Create, BindProduct, BindAndBranch, NewRevision, Delete, MoveToStage
<1>3. ASSUME NEW r \in Requests, NEW e \in Ecos,
             \/ Suspend(r, e) \/ Cancel(r, e) \/ Apply(r, e)
             \/ \E state \in Resumable, force \in BOOLEAN : Unsuspend(r, e, state, force)
      PROVE  Quiet
  BY <1>1, <1>3 DEF Suspend, Cancel, Apply, Unsuspend
<1>4. ASSUME NEW r \in Requests, NEW e \in Ecos, NEW u \in Users, Approve(r, e, u)
      PROVE  Quiet
  <2>1. PICK to, put : Ask(r, e, "write", to, put, FALSE)  BY <1>4 DEF Approve
  <2>2. QED  BY <1>1, <2>1
<1>5. ASSUME NEW r \in Requests, NEW e \in Ecos, NEW u \in Users, Reject(r, e, u)
      PROVE  Quiet
  <2>1. PICK to, put : Ask(r, e, "write", to, put, FALSE)  BY <1>5 DEF Reject
  <2>2. QED  BY <1>1, <2>1
<1>6. ASSUME NEW r \in Requests, NEW e \in Ecos, AutoAssign(r, e) \/ Escalate(r, e)
      PROVE  Quiet
  BY <1>1, <1>6 DEF AutoAssign, Escalate
<1>7. ASSUME (\E r \in Requests : Rollback(r)) \/ (\E e \in Ecos : TurnGate(e)) \/ UNCHANGED vars
      PROVE  Quiet
  BY <1>7 DEF Rollback, TurnGate, vars
<1> HIDE DEF Quiet
<1>8. Quiet \/ \E r \in Requests : Commit(r)
  BY <1>2, <1>3, <1>4, <1>5, <1>6, <1>7 DEF Next
<1>9. QED  BY <1>8 DEF Quiet

\* A fresh commit, that of a request which nobody overlapped.
LEMMA FreshCommit ==
    ASSUME EInv, NEW r \in Requests, Commit(r), NEW e \in Ecos, e \notin raced'
    PROVE  \/ eco'[e] = eco[e] /\ votes'[e] = votes[e]
           \/ /\ e = req[r].eco /\ req[r] # Idle /\ ~req[r].stale /\ e \notin raced
              /\ Committed(req[r])
              /\ PlanOn(req[r], eco[e], votes[e], versions, Excused(e))
<1>1. Committed(req[r])  BY CommitDoes
<1>2. CASE e # req[r].eco  BY <1>1, <1>2 DEF Committed
<1>3. CASE e = req[r].eco
  <2>1. req[r] # Idle  BY DEF Commit
  <2>2. ~req[r].stale /\ e \notin raced  BY <1>1, <1>3 DEF Committed
  <2>3. QED  BY <1>1, <1>3, <2>1, <2>2, RequestRead
<1>4. QED  BY <1>2, <1>3

LEMMA NoVotesIncomplete ==
    ASSUME NEW s \in Stages, Complete(NoVotes, s)
    PROVE  s \notin Gated
<1>1. ApprovedRows(NoVotes, s) = {}  BY DEF ApprovedRows, NoVotes
<1>2. Cardinality(ApprovedRows(NoVotes, s)) = 0  BY <1>1, FS_EmptySet
<1>3. QED  BY <1>2, MinimumPositive DEF Complete

LEMMA StepMovesOn ==
    ASSUME EInv, [Next]_vars, NEW e \in Ecos
    PROVE  MovesOn(e)
<1>1. SUFFICES ASSUME ~Complete(votes[e], eco[e].stage), Complete(votes'[e], eco[e].stage),
                      e \notin raced'
               PROVE  eco'[e].state = "approved" \/ eco'[e].stage # eco[e].stage
  BY DEF MovesOn
<1>2. CASE UNCHANGED <<eco, votes, versions, product, raced, forced>>
  BY <1>1, <1>2
<1>3. CASE \E r \in Requests : Commit(r)
  <2>1. PICK r \in Requests : Commit(r)  BY <1>3
  <2> DEFINE q == req[r]
  <2>2. /\ e = q.eco /\ q # Idle /\ ~q.stale
        /\ Committed(q)
        /\ PlanOn(q, eco[e], votes[e], versions, Excused(e))
    BY <1>1, <2>1, FreshCommit
  <2>3. eco[e].stage \in Stages  BY DEF EInv, TypeOK, Row
  <2>4. q.kind # "delete"
    <3>1. SUFFICES ASSUME q.kind = "delete" PROVE FALSE  OBVIOUS
    <3>2. votes'[e] = NoVotes  BY <2>2, <3>1 DEF Committed
    <3>3. eco[e].stage \notin Gated  BY <1>1, <2>3, <3>2, NoVotesIncomplete
    <3>4. QED  BY <1>1, <3>3 DEF Complete
  <2>5. votes'[e] = Stored(votes[e], q.put)  BY <2>2, <2>4 DEF Committed
  <2>6. q.to.state = "approved" \/ q.to.stage # eco[e].stage
    BY <1>1, <2>2, <2>5 DEF PlanOn
  <2>7. QED  BY <2>2, <2>6 DEF Committed
<1>4. QED  BY <1>2, <1>3, OnlyCommitsWrite

\* The vote that completes a stage moves the ECO on, whatever votes were cast before,
\* in this round or an earlier one, if requests do not overlap.
THEOREM EcoCompletionProgresses ==
    ASSUME IsFiniteSet(Users)
    PROVE  Spec => CompletionProgresses
<1>1. EInv /\ [Next]_vars => [\A e \in Ecos : MovesOn(e)]_<<eco, votes, raced>>
  BY StepMovesOn
<1>2. QED  BY <1>1, EcoInvariant, PTL DEF Spec, CompletionProgresses

LEMMA StepSuspension ==
    ASSUME EInv, [Next]_vars, NEW e \in Ecos
    PROVE  StaysSuspended(e)
<1>1. SUFFICES ASSUME eco[e].state = "suspended", e \notin raced'
               PROVE  \/ eco'[e].state \in Resumable \cup {"canceled"}
                      \/ /\ eco'[e] = eco[e]
                         /\ ApprovedRows(votes'[e], eco[e].stage) = ApprovedRows(votes[e], eco[e].stage)
  BY DEF StaysSuspended
<1>2. CASE UNCHANGED <<eco, votes, versions, product, raced, forced>>
  BY <1>2
<1>3. CASE \E r \in Requests : Commit(r)
  <2>1. PICK r \in Requests : Commit(r)  BY <1>3
  <2> DEFINE q == req[r]
  <2>2. CASE eco'[e] = eco[e] /\ votes'[e] = votes[e]
    BY <2>2
  <2>3. CASE /\ e = q.eco /\ q # Idle /\ ~q.stale
             /\ Committed(q)
             /\ PlanOn(q, eco[e], votes[e], versions, Excused(e))
    <3>1. q.kind # "branch"  BY <1>1, <2>3 DEF PlanOn
    <3>2. eco'[e] = q.to  BY <2>3, <3>1 DEF Committed
    <3>3. CASE q.to.state \in Resumable \cup {"canceled"}
      BY <3>2, <3>3
    <3>4. CASE /\ q.to = eco[e]
               /\ ApprovedRows(Stored(votes[e], q.put), eco[e].stage) =
                        ApprovedRows(votes[e], eco[e].stage)
      <4>1. q.kind # "delete"  BY <1>1, <2>3, <3>4 DEF PlanOn
      <4>2. votes'[e] = Stored(votes[e], q.put)  BY <2>3, <4>1 DEF Committed
      <4>3. QED  BY <3>2, <3>4, <4>2
    <3>5. QED  BY <1>1, <2>3, <3>3, <3>4 DEF PlanOn
  <2>4. QED  BY <1>1, <2>1, <2>2, <2>3, FreshCommit
<1>4. QED  BY <1>2, <1>3, OnlyCommitsWrite

\* While an ECO is suspended only a resumption or a cancel changes it, and
\* no approval of its stage comes or goes, if requests do not overlap.
THEOREM EcoSuspensionHolds ==
    ASSUME IsFiniteSet(Users)
    PROVE  Spec => SuspensionHolds
<1>1. EInv /\ [Next]_vars => [\A e \in Ecos : StaysSuspended(e)]_<<eco, votes, raced>>
  BY StepSuspension
<1>2. QED  BY <1>1, EcoInvariant, PTL DEF Spec, SuspensionHolds

-----------------------------------------------------------------------------
(* The product's version.                                                   *)

\* With one row per user, approved rows are approvers.
LEMMA ApproversCounted ==
    ASSUME IsFiniteSet(Users), EInv, NEW e \in Ecos, e \notin raced
    PROVE  /\ Cardinality(Approvers(e)) \in Nat
           /\ Cardinality(ApprovedRows(votes[e], eco[e].stage)) <= Cardinality(Approvers(e))
<1> DEFINE s == eco[e].stage
           A == Approvers(e)
           R == ApprovedRows(votes[e], s)
           f == [x \in R |-> x[1]]
<1>1. s \in Stages  BY DEF EInv, TypeOK, Row
<1>2. IsFiniteSet(A) /\ Cardinality(A) \in Nat
  BY FS_Subset, FS_CardinalityType DEF Approvers
<1>3. ASSUME NEW x \in R
      PROVE  /\ x = <<x[1], x[2]>> /\ x[1] \in A /\ x[2] = 1
  <2>1. x = <<x[1], x[2]>>  BY ApprovedRowsPairs
  <2>2. /\ x[1] \in Users /\ x[2] \in DOMAIN votes[e][s][x[1]]
        /\ votes[e][s][x[1]][x[2]] = "approved"
    BY <2>1, ApprovedRowsMember
  <2>3. votes[e][s][x[1]] \in Seq(Statuses) /\ Len(votes[e][s][x[1]]) <= 1
    BY <1>1, <2>2 DEF EInv, TypeOK, OneRow
  <2> DEFINE row == votes[e][s][x[1]]
  <2>4. DOMAIN row = 1..Len(row) /\ Len(row) \in Nat
    <3>1. row \in Seq(Statuses)  BY <2>3
    <3> HIDE DEF row
    <3>2. QED  BY <3>1
  <2>5. x[2] = 1  BY <2>2, <2>3, <2>4
  <2>6. QED  BY <2>1, <2>2, <2>5 DEF Approvers
<1>4. f \in Injection(R, A)
  <2> HIDE DEF R, A
  <2>1. f \in [R -> A]  BY <1>3
  <2>2. ASSUME NEW x \in R, NEW y \in R, f[x] = f[y] PROVE x = y
    BY <1>3, <2>2
  <2>3. QED  BY <2>1, <2>2 DEF Injection, IsInjective
<1>5. IsFiniteSet(R) /\ Cardinality(R) <= Cardinality(A)
  BY <1>2, <1>4, FS_Injection
<1>6. QED  BY <1>2, <1>5

LEMMA StepApplies ==
    ASSUME IsFiniteSet(Users), EInv, [Next]_vars, product' # product
    PROVE  \E e \in Ecos : Applies(e)
<1>1. PICK r \in Requests : Commit(r)  BY OnlyCommitsWrite
<1> DEFINE q == req[r]
           e == q.eco
<1>2. Committed(q) /\ q # Idle  BY <1>1, CommitDoes DEF Commit
<1>3. /\ e \in Ecos /\ q.at \in Row /\ q.to \in Row /\ eco[e] \in Row
      /\ PlanOn(q, eco[e], votes[e], versions, Excused(e))
  BY <1>2, RequestRead
<1>4. q.kind = "apply" /\ product' = q.to.target
  BY <1>1 DEF Commit, Current
<1>5. q.at.state = "approved" /\ q.to.state = "done"  BY <1>3, <1>4 DEF PlanOn
<1>6. eco'[e].state = "done"
  <2>1. eco' = [eco EXCEPT ![e] = Merged(eco[e], q.at, q.to)]
    BY <1>1, <1>4 DEF Commit
  <2>2. eco'[e] = Merged(eco[e], q.at, q.to)  BY <1>3, <2>1 DEF EInv, TypeOK
  <2>3. QED  BY <1>5, <2>2 DEF Merged, Written
<1>7. CASE e \in raced'
  BY <1>3, <1>6, <1>7 DEF Applies
<1>8. CASE e \notin raced'
  <2>1. ~q.stale /\ e \notin raced  BY <1>2, <1>8 DEF Committed
  <2>2. product' = eco'[e].target  BY <1>2, <1>4, <2>1 DEF Committed
  <2>3. eco[e].state = "approved"  BY <1>3, <1>5, <2>1 DEF PlanOn
  <2>4. e \in forced \/ Complete(votes[e], eco[e].stage)
    BY <1>3, <2>1, <2>3 DEF EInv, ApprovedIsComplete
  <2>5. CASE e \in forced \/ eco[e].stage \notin Gated
    BY <1>3, <1>6, <2>2, <2>5 DEF Applies
  <2>6. CASE e \notin forced /\ eco[e].stage \in Gated
    <3>1. Cardinality(ApprovedRows(votes[e], eco[e].stage)) >= MinApprovals
      BY <2>4, <2>6 DEF Complete
    <3>2. /\ Cardinality(Approvers(e)) \in Nat
          /\ Cardinality(ApprovedRows(votes[e], eco[e].stage)) <= Cardinality(Approvers(e))
      BY <1>3, <2>1, ApproversCounted
    <3>3. eco[e].stage \in Stages /\ votes[e] \in Votes  BY <1>3 DEF EInv, TypeOK, Row, Votes
    <3>4. Cardinality(ApprovedRows(votes[e], eco[e].stage)) \in Nat
      BY <3>3, ApprovedRowsFinite
    <3>5. Cardinality(Approvers(e)) >= MinApprovals
      BY <3>1, <3>2, <3>4, MinimumPositive
    <3>6. QED  BY <1>3, <1>6, <2>2, <3>5 DEF Applies
  <2>7. QED  BY <2>5, <2>6
<1>9. QED  BY <1>7, <1>8

\* The product's current version changes only when an ECO becomes done, to its target,
\* and at least MinApprovals different users had approved it (action_apply), unless it
\* was forced or requests on it overlapped.
THEOREM EcoAppliedIsApproved ==
    ASSUME IsFiniteSet(Users)
    PROVE  Spec => AppliedIsApproved
<1>1. EInv /\ [Next]_vars =>
        [product' # product => \E e \in Ecos : Applies(e)]_<<product>>
  BY StepApplies
<1>2. QED  BY <1>1, EcoInvariant, PTL DEF Spec, AppliedIsApproved
=============================================================================
