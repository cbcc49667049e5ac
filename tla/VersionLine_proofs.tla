------------------------- MODULE VersionLine_proofs -------------------------
(***************************************************************************)
(* Proofs about VersionLine, for every number of users, files, versions    *)
(* and overlapping requests.                                               *)
(***************************************************************************)
EXTENDS VersionLine, FiniteSetTheorems, TLAPS

\* What remains true of the changes c a request is about to commit, whatever
\* other requests commit first: they are to versions that exist, they retire a
\* current version only together with putting another in its place, and they
\* supersede a version only together with releasing one made from it.
PlanOK(c) ==
    /\ c.retire \subseteq Made /\ c.promote \subseteq Made
    /\ c.release \subseteq Made /\ c.supersede \subseteq Made
    /\ \A x \in c.insert : x.pred <= count /\ ~x.isSuperseded
    /\ c.retire # {} =>
         c.promote # {} \/ (c.insert # {} /\ \A x \in c.insert : x.isCurrent)
    /\ \A p \in c.supersede : \E w \in c.release : ver[w].pred = p
    /\ c.target => c.insert # {}

IInv == /\ TypeOK
        /\ \A r \in Requests : PlanOK(req[r])
        /\ ItemAtCurrent
        /\ SupersededWasReplaced

LEMMA DraftIsRow ==
    ASSUME NEW b \in Branches, NEW p \in 0..MaxVersions, NEW cur \in BOOLEAN,
           NEW fs \in SUBSET Files
    PROVE  /\ Draft(b, p, cur, fs) \in Row
           /\ Draft(b, p, cur, fs).pred = p
           /\ Draft(b, p, cur, fs).isCurrent = cur
           /\ ~Draft(b, p, cur, fs).isSuperseded
  BY DEF Draft, Row

LEMMA InitInv == Init => IInv
<1>. SUFFICES ASSUME Init PROVE IInv
  OBVIOUS
<1>. USE Bounds
<1>1. NoRow \in Row /\ ~NoRow.isCurrent
  BY DraftIsRow, 0 \in 0..MaxVersions DEF NoRow, Branches
<1>2. Idle \in Changes /\ PlanOK(Idle)
  BY DEF Idle, By, Changes, PlanOK
<1>3. TypeOK
  BY <1>1, <1>2 DEF Init, TypeOK, Versions, Made
<1>. QED BY <1>2, <1>3 DEF Init, IInv, ItemAtCurrent, SupersededWasReplaced, Made

-----------------------------------------------------------------------------
(* A request that decides.                                                  *)

LEMMA DecideKeeps ==
    ASSUME IInv, NEW r \in Requests, NEW c \in Changes, PlanOK(c), Decide(r, c)
    PROVE  IInv'
<1>1. /\ req' \in [Requests -> Changes]
      /\ \A q \in Requests : PlanOK(req'[q])
  BY DEF IInv, TypeOK, Decide
<1>2. TypeOK'
  BY <1>1 DEF IInv, TypeOK, Decide, Made
<1>3. \A q \in Requests : PlanOK(req[q])'
  BY <1>1 DEF Decide, PlanOK, Made
<1>. QED BY <1>2, <1>3 DEF IInv, Decide, ItemAtCurrent, SupersededWasReplaced, Made

\* An operation that creates no version, moves no flag and releases nothing.
LEMMA QuietKeeps ==
    ASSUME IInv, NEW r \in Requests, NEW c \in Changes,
           c.retire = {}, c.promote = {}, c.release = {}, c.supersede = {},
           c.insert = {}, ~c.target, Decide(r, c)
    PROVE  IInv'
<1>1. PlanOK(c)
  BY DEF PlanOK
<1>. QED BY <1>1, DecideKeeps

\* An operation that only creates a version, in place of the old one if there is one.
LEMMA NewVersionKeeps ==
    ASSUME IInv, NEW r \in Requests, NEW c \in Changes, NEW x \in Row,
           c.insert = {x}, x.pred <= count, ~x.isSuperseded,
           c.retire \subseteq Made, c.retire # {} => x.isCurrent,
           c.promote = {}, c.release = {}, c.supersede = {}, Decide(r, c)
    PROVE  IInv'
<1>1. PlanOK(c)
  BY DEF PlanOK
<1>. QED BY <1>1, DecideKeeps

LEMMA LineStepKeeps ==
    ASSUME IInv, NEW r \in Requests, NEW u \in Users, LineStep(r, u)
    PROVE  IInv'
<1>. USE Bounds
<1>m. Made \subseteq Versions
  BY DEF Made, Versions, IInv, TypeOK
<1>f. \A v \in Made : /\ ver[v] \in Row /\ ver[v].files \subseteq Files
                      /\ ver[v].pred < v
  BY <1>m DEF IInv, TypeOK, Row
<1>i. item # 0 => item \in Made
  BY DEF IInv, TypeOK, Made
<1>n. count \in Nat /\ Made \subseteq 0..MaxVersions
  BY DEF Made, IInv, TypeOK
<1>l. \A v \in Made : LockedBy(v, u) \subseteq Cells
  BY <1>m, <1>f DEF LockedBy, Cells
<1>1. CASE CreateInitial(r, u)
  <2>. DEFINE x == Draft("main", 0, TRUE, {})
              c == [By(u) EXCEPT !.insert = {x}]
  <2>1. x \in Row /\ x.pred = 0 /\ x.isCurrent /\ ~x.isSuperseded
    BY DraftIsRow, 0 \in 0..MaxVersions DEF Branches
  <2>2. Decide(r, c)
    BY <1>1 DEF CreateInitial
  <2>. HIDE DEF x
  <2>3. /\ c \in Changes /\ c.insert = {x} /\ c.retire = {}
        /\ c.promote = {} /\ c.release = {} /\ c.supersede = {}
    BY <2>1 DEF By, Changes
  <2>. HIDE DEF c
  <2>. QED BY <2>1, <2>2, <2>3, <1>n, NewVersionKeeps
<1>2. ASSUME NEW v \in Made, Checkout(r, u, v) PROVE IInv'
  <2>. DEFINE c == [By(u) EXCEPT !.hold = {v}]
  <2>1. Decide(r, c)
    BY <1>2 DEF Checkout
  <2>2. /\ c \in Changes /\ c.insert = {} /\ c.retire = {} /\ c.promote = {}
        /\ c.release = {} /\ c.supersede = {} /\ ~c.target
    BY <1>m DEF By, Changes
  <2>. HIDE DEF c
  <2>. QED BY <2>1, <2>2, QuietKeeps
<1>3. ASSUME NEW v \in Made, NEW fs \in SUBSET Files, Checkin(r, u, v, fs) PROVE IInv'
  <2>. DEFINE kept == IF item = v THEN ver[v].files \cap fs ELSE ver[v].files
              at == {v} \X (fs \ ver[v].files)
              de == {v} \X (ver[v].files \ kept)
              ul == LockedBy(v, u) \cap ({v} \X kept)
              c == [By(u) EXCEPT !.free = {v}, !.attach = at, !.detach = de, !.unlock = ul]
  <2>1. Decide(r, c)
    BY <1>3 DEF Checkin
  <2>2. at \in SUBSET Cells /\ de \in SUBSET Cells /\ ul \in SUBSET Cells
    BY <1>m, <1>f, <1>l DEF Cells
  <2>. HIDE DEF at, de, ul
  <2>3. /\ c \in Changes /\ c.insert = {} /\ c.retire = {} /\ c.promote = {}
        /\ c.release = {} /\ c.supersede = {} /\ ~c.target
    BY <1>m, <2>2 DEF By, Changes
  <2>. HIDE DEF c
  <2>. QED BY <2>1, <2>3, QuietKeeps
<1>4. CASE Revise(r, u)
  <2>. DEFINE x == Draft("main", item, TRUE, ver[item].files)
              c == [By(u) EXCEPT !.retire = {item}, !.insert = {x}]
  <2>1. item \in Made
    BY <1>4, <1>i DEF Revise
  <2>2. x \in Row /\ x.pred = item /\ x.isCurrent /\ ~x.isSuperseded
    BY <2>1, <1>f, <1>n, DraftIsRow DEF Branches
  <2>3. Decide(r, c)
    BY <1>4 DEF Revise
  <2>4. item <= count
    BY <2>1 DEF Made
  <2>. HIDE DEF x
  <2>5. /\ c \in Changes /\ c.insert = {x} /\ c.retire = {item}
        /\ c.promote = {} /\ c.release = {} /\ c.supersede = {}
    BY <2>1, <2>2, <1>m DEF By, Changes
  <2>. HIDE DEF c
  <2>. QED BY <2>1, <2>2, <2>3, <2>4, <2>5, NewVersionKeeps
<1>5. CASE Release(r, u)
  <2>. DEFINE sup == {p \in {ver[item].pred} \ {0} : ver[p].isReleased /\ ~ver[p].isSuperseded}
              fr == {v \in {item} : ver[v].holder # Nobody}
              ul == LockedBy(item, u)
              c == [By(u) EXCEPT !.release = {item}, !.free = fr, !.supersede = sup,
                                 !.unlock = ul]
  <2>1. item \in Made
    BY <1>5, <1>i DEF Release
  <2>2. sup \subseteq Made /\ \A p \in sup : ver[item].pred = p
    <3>1. ver[item].pred < item /\ ver[item].pred \in Nat
      BY <2>1, <1>f DEF Row
    <3>. QED BY <3>1, <2>1, <1>n DEF Made
  <2>3. Decide(r, c)
    BY <1>5 DEF Release
  <2>4. fr \subseteq Versions /\ sup \subseteq Versions /\ ul \subseteq Cells
    BY <2>1, <2>2, <1>l, <1>m
  <2>. HIDE DEF sup, fr, ul
  <2>5. c \in Changes
    BY <2>1, <2>4, <1>m DEF By, Changes
  <2>6. PlanOK(c)
    BY <2>1, <2>2 DEF By, PlanOK
  <2>. QED BY <2>3, <2>5, <2>6, DecideKeeps
<1>. QED BY <1>1, <1>2, <1>3, <1>4, <1>5 DEF LineStep

LEMMA BranchStepKeeps ==
    ASSUME IInv, NEW r \in Requests, NEW u \in Users, BranchStep(r, u)
    PROVE  IInv'
<1>. USE Bounds
<1>m. Made \subseteq Versions
  BY DEF Made, Versions, IInv, TypeOK
<1>f. \A v \in Made : ver[v] \in Row /\ ver[v].files \subseteq Files
  BY <1>m DEF IInv, TypeOK, Row
<1>i. item # 0 => item \in Made
  BY DEF IInv, TypeOK, Made
<1>n. \A v \in Made : v \in 0..MaxVersions /\ v <= count
  BY DEF Made, IInv, TypeOK
<1>1. ASSUME NEW s \in Made, NEW b \in Branches, CreateBranch(r, u, s, b) PROVE IInv'
  <2>. DEFINE x == Draft(b, s, FALSE, ver[s].files)
              c == [By(u) EXCEPT !.insert = {x}]
  <2>1. x \in Row /\ x.pred = s /\ ~x.isSuperseded
    <3>1. s \in 0..MaxVersions /\ ver[s].files \in SUBSET Files
      BY <1>f, <1>n
    <3>. QED BY <3>1, DraftIsRow
  <2>2. Decide(r, c)
    BY <1>1 DEF CreateBranch
  <2>. HIDE DEF x
  <2>3. /\ c \in Changes /\ c.insert = {x} /\ c.retire = {}
        /\ c.promote = {} /\ c.release = {} /\ c.supersede = {}
    BY <2>1 DEF By, Changes
  <2>. HIDE DEF c
  <2>. QED BY <2>1, <2>2, <2>3, <1>n, NewVersionKeeps
<1>2. ASSUME NEW s \in Made, NEW t \in Made, MergeBranch(r, u, s, t) PROVE IInv'
  <2>. DEFINE x == Draft(ver[t].branch, t, ver[t].isCurrent, {})
              old == {v \in {t} : ver[v].isCurrent}
              c == [By(u) EXCEPT !.retire = old, !.insert = {x}]
  <2>1. x \in Row /\ x.pred = t /\ x.isCurrent = ver[t].isCurrent /\ ~x.isSuperseded
    <3>1. ver[t].branch \in Branches /\ ver[t].isCurrent \in BOOLEAN
      BY <1>f DEF Row
    <3>. QED BY <3>1, <1>n, DraftIsRow
  <2>2. Decide(r, c)
    BY <1>2 DEF MergeBranch
  <2>3. old \subseteq Made /\ (old # {} => x.isCurrent)
    BY <2>1
  <2>. HIDE DEF x, old
  <2>4. /\ c \in Changes /\ c.insert = {x} /\ c.retire = old
        /\ c.promote = {} /\ c.release = {} /\ c.supersede = {}
    BY <2>1, <2>3, <1>m DEF By, Changes
  <2>. HIDE DEF c
  <2>. QED BY <2>1, <2>2, <2>3, <2>4, <1>n, NewVersionKeeps
<1>3. CASE NewRevision(r, u)
  <2>. DEFINE x == Draft("eco", item, FALSE, ver[item].files)
              c == [By(u) EXCEPT !.insert = {x}, !.target = TRUE]
  <2>1. item \in Made
    BY <1>3, <1>i DEF NewRevision
  <2>2. x \in Row /\ x.pred = item /\ ~x.isSuperseded
    BY <2>1, <1>f, <1>n, DraftIsRow DEF Branches
  <2>3. Decide(r, c)
    BY <1>3 DEF NewRevision
  <2>. HIDE DEF x
  <2>4. /\ c \in Changes /\ c.insert = {x} /\ c.retire = {}
        /\ c.promote = {} /\ c.release = {} /\ c.supersede = {}
    BY <2>2 DEF By, Changes
  <2>. HIDE DEF c
  <2>. QED BY <2>1, <2>2, <2>3, <2>4, <1>n, NewVersionKeeps
<1>4. CASE Apply(r, u)
  <2>. DEFINE t == eco.target
              old == {item} \ {0, t}
              c == [By(u) EXCEPT !.retire = old, !.promote = {t}, !.applied = TRUE]
  <2>1. t \in Made
    BY <1>4 DEF Apply, IInv, TypeOK, Made
  <2>2. Decide(r, c)
    BY <1>4 DEF Apply
  <2>3. old \subseteq Made
    BY <1>i
  <2>. HIDE DEF t, old
  <2>4. c \in Changes
    BY <2>1, <2>3, <1>m DEF By, Changes
  <2>5. PlanOK(c)
    BY <2>1, <2>3 DEF By, PlanOK
  <2>. QED BY <2>2, <2>4, <2>5, DecideKeeps
<1>. QED BY <1>1, <1>2, <1>3, <1>4 DEF BranchStep

LEMMA FileStepKeeps ==
    ASSUME IInv, NEW r \in Requests, NEW u \in Users, FileStep(r, u)
    PROVE  IInv'
<1>. PICK v \in Made, f \in Files :
        \/ CheckoutFile(r, u, v, f)
        \/ UndoCheckoutFile(r, u, v, f)
        \/ AttachFile(r, u, v, f)
        \/ DetachFile(r, u, v, f)
  BY DEF FileStep
<1>. DEFINE cell == {<<v, f>>}
<1>m. cell \subseteq Cells
  BY Bounds DEF Made, Versions, Cells, IInv, TypeOK
<1>q. ASSUME NEW l \in SUBSET Cells, NEW c \in {[By(u) EXCEPT !.lock = l],
             [By(u) EXCEPT !.unlock = l], [By(u) EXCEPT !.attach = l],
             [By(u) EXCEPT !.detach = l]}
      PROVE  /\ c \in Changes /\ c.insert = {} /\ c.retire = {} /\ c.promote = {}
             /\ c.release = {} /\ c.supersede = {} /\ ~c.target
  BY DEF By, Changes
<1>1. CASE CheckoutFile(r, u, v, f)
  <2>. DEFINE c == [By(u) EXCEPT !.lock = cell]
  <2>1. Decide(r, c)
    BY <1>1 DEF CheckoutFile
  <2>. HIDE DEF c, cell
  <2>. QED BY <2>1, <1>m, <1>q, QuietKeeps DEF c
<1>2. CASE UndoCheckoutFile(r, u, v, f)
  <2>. DEFINE c == [By(u) EXCEPT !.unlock = cell]
  <2>1. Decide(r, c)
    BY <1>2 DEF UndoCheckoutFile
  <2>. HIDE DEF c, cell
  <2>. QED BY <2>1, <1>m, <1>q, QuietKeeps DEF c
<1>3. CASE AttachFile(r, u, v, f)
  <2>. DEFINE c == [By(u) EXCEPT !.attach = cell]
  <2>1. Decide(r, c)
    BY <1>3 DEF AttachFile
  <2>. HIDE DEF c, cell
  <2>. QED BY <2>1, <1>m, <1>q, QuietKeeps DEF c
<1>4. CASE DetachFile(r, u, v, f)
  <2>. DEFINE c == [By(u) EXCEPT !.detach = cell]
  <2>1. Decide(r, c)
    BY <1>4 DEF DetachFile
  <2>. HIDE DEF c, cell
  <2>. QED BY <2>1, <1>m, <1>q, QuietKeeps DEF c
<1>. QED BY <1>1, <1>2, <1>3, <1>4

-----------------------------------------------------------------------------
(* The commit.                                                              *)

\* What a commit leaves alone and what it moves, column by column.
LEMMA WrittenRow ==
    ASSUME NEW c \in Changes, NEW v \in Versions, ver[v] \in Row
    PROVE  /\ Written(c, v) \in Row
           /\ Written(c, v).pred = ver[v].pred
           /\ Written(c, v).isCurrent =
                 ((ver[v].isCurrent /\ v \notin c.retire) \/ v \in c.promote)
           /\ Written(c, v).isReleased = (ver[v].isReleased \/ v \in c.release)
           /\ Written(c, v).isSuperseded = (ver[v].isSuperseded \/ v \in c.supersede)
<1>. DEFINE gone == {f \in Files : <<v, f>> \in c.detach}
            cur == (ver[v].isCurrent /\ v \notin c.retire) \/ v \in c.promote
            rel == ver[v].isReleased \/ v \in c.release
            sup == ver[v].isSuperseded \/ v \in c.supersede
            hol == IF v \in c.hold THEN c.user
                   ELSE IF v \in c.free THEN Nobody ELSE ver[v].holder
            fil == (ver[v].files \ gone) \cup {f \in Files : <<v, f>> \in c.attach}
            loc == [f \in Files |->
                        IF <<v, f>> \in c.lock THEN c.user
                        ELSE IF <<v, f>> \in c.unlock \/ f \in gone THEN Nobody
                        ELSE ver[v].lock[f]]
            w == [ver[v] EXCEPT !.isCurrent = cur, !.isReleased = rel,
                                !.isSuperseded = sup, !.holder = hol,
                                !.files = fil, !.lock = loc]
<1>1. Written(c, v) = w
  BY DEF Written
<1>2. cur \in BOOLEAN /\ rel \in BOOLEAN /\ sup \in BOOLEAN
  BY DEF Row
<1>3. hol \in Users \cup {Nobody} /\ fil \subseteq Files
  BY DEF Row, Changes
<1>4. loc \in [Files -> Users \cup {Nobody}]
  BY DEF Row, Changes
<1>5. /\ w \in Row /\ w.pred = ver[v].pred /\ w.isCurrent = cur
      /\ w.isReleased = rel /\ w.isSuperseded = sup
  <2>. HIDE DEF cur, rel, sup, hol, fil, loc
  <2>. QED BY <1>2, <1>3, <1>4 DEF Row
<1>. QED BY <1>1, <1>5

LEMMA CommitKeeps ==
    ASSUME IInv, NEW r \in Requests, Commit(r)
    PROVE  IInv'
<1>. USE Bounds
<1>. DEFINE c == req[r]
            n == count + 1
            new == CHOOSE x \in c.insert : TRUE
<1>1. c \in Changes /\ PlanOK(c) /\ count \in Nat /\ count <= MaxVersions
  BY DEF IInv, TypeOK
<1>2. Idle \in Changes /\ PlanOK(Idle)'
  BY DEF Idle, By, Changes, PlanOK
<1>3. c.insert # {} => /\ new \in c.insert /\ new \in Row /\ n \in Versions
                       /\ new.pred <= count /\ ~new.isSuperseded
  <2>1. c.insert # {} => new \in c.insert
    OBVIOUS
  <2>2. c.insert # {} => n \in Versions
    BY <1>1 DEF Commit, Versions
  <2>. QED BY <2>1, <2>2, <1>1 DEF PlanOK, Changes
<1>4. /\ ver' = [v \in Versions |-> IF v = n /\ c.insert # {} THEN new ELSE Written(c, v)]
      /\ count' = (IF c.insert = {} THEN count ELSE n)
      /\ item' = (IF c.insert # {} /\ ver'[n].isCurrent THEN n
                   ELSE IF c.promote # {} THEN CHOOSE t \in c.promote : TRUE
                   ELSE item)
      /\ eco' = [target |-> IF c.target THEN n ELSE eco.target,
                 done |-> eco.done \/ c.applied]
      /\ req' = [req EXCEPT ![r] = Idle]
  BY DEF Commit, After
<1>5. \A v \in Versions : Written(c, v) \in Row
  BY <1>1, WrittenRow DEF IInv, TypeOK
<1>6. /\ Made \subseteq Made' /\ Made' \subseteq Versions /\ count' \in 0..MaxVersions
      /\ \A v \in Made : ver'[v] = Written(c, v) /\ ver'[v].pred = ver[v].pred
      /\ c.insert # {} => ver'[n] = new /\ n \in Made'
      /\ \A v \in Made' : v \in Made \/ (v = n /\ c.insert # {})
  <2>1. /\ Made \subseteq Made' /\ Made' \subseteq Versions /\ count' \in 0..MaxVersions
        /\ \A v \in Made : v # n /\ v \in Versions
        /\ c.insert # {} => n \in Made'
        /\ \A v \in Made' : v \in Made \/ (v = n /\ c.insert # {})
    BY <1>1, <1>3, <1>4 DEF Made, Versions
  <2>2. \A v \in Made : ver'[v] = Written(c, v)
    BY <1>4, <2>1
  <2>3. \A v \in Made : Written(c, v).pred = ver[v].pred
    BY <1>1, <2>1, WrittenRow DEF IInv, TypeOK
  <2>4. c.insert # {} => ver'[n] = new
    BY <1>3, <1>4
  <2>. QED BY <2>1, <2>2, <2>3, <2>4
<1>7. TypeOK'
  <2>1. ver' \in [Versions -> Row]
    BY <1>3, <1>4, <1>5
  <2>2. item' \in 0..count'
    <3>1. c.promote # {} => (CHOOSE t \in c.promote : TRUE) \in 1..count
      BY <1>1 DEF PlanOK, Made
    <3>. QED BY <3>1, <1>1, <1>4 DEF IInv, TypeOK
  <2>3. eco' \in [target : 0..count', done : BOOLEAN]
    <3>1. c.applied \in BOOLEAN /\ c.target \in BOOLEAN
      BY <1>1 DEF Changes
    <3>2. eco.target \in 0..count /\ eco.done \in BOOLEAN
      BY DEF IInv, TypeOK
    <3>3. c.target => count' = n
      BY <1>1, <1>4 DEF PlanOK
    <3>4. (IF c.target THEN n ELSE eco.target) \in 0..count'
      BY <1>1, <1>4, <3>1, <3>2, <3>3
    <3>. QED BY <1>4, <3>1, <3>2, <3>4
  <2>4. req' \in [Requests -> Changes]
    BY <1>2, <1>4 DEF IInv, TypeOK
  <2>5. ASSUME NEW v \in Versions, v > count' PROVE ~ver'[v].isCurrent
    <3>1. v > count /\ ~(v = n /\ c.insert # {}) /\ v \notin Made
      BY <1>1, <1>4, <2>5 DEF Made, Versions
    <3>2. ver'[v] = Written(c, v) /\ ~ver[v].isCurrent
      BY <1>4, <3>1 DEF IInv, TypeOK
    <3>3. v \notin c.promote
      BY <1>1, <3>1 DEF PlanOK
    <3>. QED BY <1>1, <3>2, <3>3, WrittenRow DEF IInv, TypeOK
  <2>6. ASSUME NEW v \in Made' PROVE ver'[v].pred < v
    <3>1. CASE v \in Made
      BY <1>6, <3>1 DEF IInv, TypeOK
    <3>2. CASE v = n /\ c.insert # {}
      <4>1. new.pred \in 0..MaxVersions
        BY <1>3, <3>2 DEF Row
      <4>2. new.pred < n
        BY <1>1, <1>3, <3>2, <4>1
      <4>3. ver'[v] = new /\ v = n
        BY <1>6, <3>2
      <4>. QED BY <4>2, <4>3
    <3>. QED BY <1>6, <3>1, <3>2
  <2>. QED BY <1>6, <2>1, <2>2, <2>3, <2>4, <2>5, <2>6 DEF TypeOK
<1>8. \A q \in Requests : PlanOK(req[q])'
  <2>. SUFFICES ASSUME NEW q \in Requests PROVE PlanOK(req[q])'
    OBVIOUS
  <2>1. CASE q = r
    <3>1. req'[q] = Idle
      BY <1>4, <2>1 DEF IInv, TypeOK
    <3>. QED BY <3>1, <1>2 DEF PlanOK
  <2>2. CASE q # r
    <3>. DEFINE d == req[q]
    <3>1. req'[q] = d /\ PlanOK(d) /\ d \in Changes
      BY <1>4, <2>2 DEF IInv, TypeOK
    <3>2. \A x \in d.insert : x.pred <= count'
      <4>1. \A x \in d.insert : x.pred \in Nat
        BY <3>1 DEF Changes, Row
      <4>. QED BY <1>1, <1>4, <3>1, <4>1 DEF PlanOK
    <3>3. \A p \in d.supersede : \E w \in d.release : ver'[w].pred = p
      BY <1>6, <3>1 DEF PlanOK
    <3>. HIDE DEF d
    <3>. QED BY <1>6, <3>1, <3>2, <3>3 DEF PlanOK
  <2>. QED BY <2>1, <2>2
<1>9. ItemAtCurrent'
  <2>1. CASE c.insert # {} /\ ver'[n].isCurrent
    BY <2>1, <1>4 DEF ItemAtCurrent
  <2>2. CASE ~(c.insert # {} /\ ver'[n].isCurrent) /\ c.promote # {}
    <3>. DEFINE t == CHOOSE t \in c.promote : TRUE
    <3>1. t \in c.promote /\ item' = t
      BY <2>2, <1>4
    <3>2. t \in Made /\ t \in Versions
      BY <3>1, <1>1, <1>6 DEF PlanOK
    <3>3. ver'[t].isCurrent
      BY <1>1, <1>6, <3>1, <3>2, WrittenRow DEF IInv, TypeOK
    <3>. QED BY <3>1, <3>3 DEF ItemAtCurrent
  <2>3. CASE ~(c.insert # {} /\ ver'[n].isCurrent) /\ c.promote = {}
    <3>1. item' = item /\ c.retire = {}
      BY <2>3, <1>1, <1>3, <1>4, <1>6 DEF PlanOK
    <3>2. item # 0 => item \in Made /\ item \in Versions /\ ver[item].isCurrent
      BY <1>6 DEF IInv, TypeOK, ItemAtCurrent, Made
    <3>3. item # 0 => ver'[item].isCurrent
      BY <1>1, <1>6, <3>1, <3>2, WrittenRow DEF IInv, TypeOK
    <3>. QED BY <3>1, <3>3 DEF ItemAtCurrent
  <2>. QED BY <2>1, <2>2, <2>3
<1>10. SupersededWasReplaced'
  <2>. SUFFICES ASSUME NEW v \in Made', ver'[v].isSuperseded
                PROVE  \E w \in Made' : ver'[w].pred = v /\ ver'[w].isReleased
    BY DEF SupersededWasReplaced
  <2>w. \A w \in Made : (ver[w].isReleased \/ w \in c.release) => ver'[w].isReleased
    <3>1. \A w \in Made : w \in Versions /\ ver'[w] = Written(c, w) /\ ver[w] \in Row
      BY <1>6 DEF IInv, TypeOK
    <3>2. \A w \in Made : Written(c, w).isReleased = (ver[w].isReleased \/ w \in c.release)
      BY <1>1, <3>1, WrittenRow
    <3>. QED BY <3>1, <3>2
  <2>1. v \in Made
    BY <1>3, <1>6
  <2>2. ver[v].isSuperseded \/ v \in c.supersede
    <3>1. v \in Versions /\ ver'[v] = Written(c, v) /\ ver[v] \in Row
      BY <1>6, <2>1 DEF IInv, TypeOK
    <3>2. Written(c, v).isSuperseded = (ver[v].isSuperseded \/ v \in c.supersede)
      BY <1>1, <3>1, WrittenRow
    <3>. QED BY <3>1, <3>2
  <2>3. CASE ver[v].isSuperseded
    BY <1>6, <2>1, <2>3, <2>w DEF IInv, SupersededWasReplaced
  <2>4. CASE v \in c.supersede
    BY <1>1, <1>6, <2>4, <2>w DEF PlanOK
  <2>. QED BY <2>2, <2>3, <2>4
<1>. QED BY <1>7, <1>8, <1>9, <1>10 DEF IInv

LEMMA RollbackKeeps ==
    ASSUME IInv, NEW r \in Requests, Rollback(r)
    PROVE  IInv'
<1>1. Idle \in Changes /\ PlanOK(Idle)
  BY DEF Idle, By, Changes, PlanOK
<1>2. /\ req' \in [Requests -> Changes]
      /\ \A q \in Requests : PlanOK(req'[q])
  BY <1>1 DEF IInv, TypeOK, Rollback
<1>3. TypeOK'
  BY <1>2 DEF IInv, TypeOK, Rollback, Made
<1>4. \A q \in Requests : PlanOK(req[q])'
  BY <1>2 DEF Rollback, PlanOK, Made
<1>. QED BY <1>3, <1>4 DEF IInv, Rollback, ItemAtCurrent, SupersededWasReplaced, Made

LEMMA StepKeeps == IInv /\ [Next]_vars => IInv'
<1>. SUFFICES ASSUME IInv, [Next]_vars PROVE IInv'
  OBVIOUS
<1>1. CASE Next
  <2>. PICK r \in Requests :
          \/ \E u \in Users : LineStep(r, u) \/ BranchStep(r, u) \/ FileStep(r, u)
          \/ Commit(r)
          \/ Rollback(r)
    BY <1>1 DEF Next
  <2>. QED BY LineStepKeeps, BranchStepKeeps, FileStepKeeps, CommitKeeps, RollbackKeeps
<1>2. CASE UNCHANGED vars
  BY <1>2 DEF vars, IInv, TypeOK, PlanOK, ItemAtCurrent, SupersededWasReplaced, Made
<1>. QED BY <1>1, <1>2

LEMMA Invariance == Spec => []IInv
  BY InitInv, StepKeeps, PTL DEF Spec

-----------------------------------------------------------------------------
\* The rows, the item and what requests are about to write keep their types,
\* however many requests overlap.
THEOREM TypeCorrect == Spec => []TypeOK
  BY Invariance, PTL DEF IInv

\* The item points at a version flagged current, although revisions, merges and an
\* ECO's apply move the pointer and the flags from what they read before others
\* committed (version/service.py:383-387, 437-446, eco_service.py:1804-1818).
THEOREM PointerAndFlagAgree == Spec => []ItemAtCurrent
  BY Invariance, PTL DEF IInv

\* No release is marked superseded before one made from it has been released
\* (version/service.py:567-594), however requests overlap.
THEOREM ReplacedBeforeRetired == Spec => []SupersededWasReplaced
  BY Invariance, PTL DEF IInv

-----------------------------------------------------------------------------
(* One request at a time: nothing is committed between what a request read  *)
(* and what it writes.                                                      *)

\* The changes c of a request still fit the rows it read: a version becomes the
\* current one only where the item's current version gives way to it ...
FreshFlags(c) ==
    /\ \A x \in c.insert : x.isCurrent => item = 0 \/ item \in c.retire
    /\ c.insert # {} => c.promote = {}
    /\ c.promote # {} =>
         \E t \in c.promote : c.promote = {t} /\ (item \in {0, t} \/ item \in c.retire)

\* ... a check-out, of a version or of a file, meets nobody else's and no release,
\* and a release clears every check-out of its version.
FreshLocks(c) ==
    /\ \A x \in c.insert : /\ ~x.isReleased /\ x.holder = Nobody
                           /\ \A f \in Files : x.lock[f] = Nobody
    /\ \A v \in c.hold : ~ver[v].isReleased /\ ver[v].holder = Nobody /\ Blocking(v, c.user) = {}
    /\ \A x \in c.lock : ~ver[x[1]].isReleased /\ Available(x[1], c.user)
    /\ \A v \in c.release : /\ v \in c.free \/ ver[v].holder = Nobody
                            /\ \A f \in ver[v].files : ver[v].lock[f] # Nobody => <<v, f>> \in c.unlock
    /\ c.hold # {} => c.lock = {} /\ c.release = {}
    /\ c.lock # {} => c.detach = {} /\ c.release = {}

\* Only the version the item points at is flagged current.
OnlyItemCurrent == \A v \in Made : ver[v].isCurrent => v = item

\* A locked file is an attached one: the guards look at attached files only.
LockedIsAttached == \A v \in Made, f \in Files : ver[v].lock[f] # Nobody => f \in ver[v].files

SerialInv ==
    /\ IInv
    /\ OnlyItemCurrent /\ LockedIsAttached /\ LocksAgree /\ ReleasedIsFree
    /\ \A r \in Requests : FreshFlags(req[r]) /\ FreshLocks(req[r])

LEMMA IdleIsFresh == FreshFlags(Idle) /\ FreshLocks(Idle)
  BY DEF FreshFlags, FreshLocks, Idle, By

LEMMA SerialInit == Init => SerialInv
  BY InitInv, IdleIsFresh
     DEF SerialInv, Init, Made, OnlyItemCurrent, LockedIsAttached, LocksAgree, ReleasedIsFree

LEMMA DecideSerial ==
    ASSUME SerialInv, NEW r \in Requests, NEW c, FreshFlags(c), FreshLocks(c),
           Decide(r, c), IInv'
    PROVE  SerialInv'
<1>1. \A q \in Requests : FreshFlags(req'[q]) /\ FreshLocks(req'[q])
  BY DEF SerialInv, Decide, IInv, TypeOK
<1>2. \A q \in Requests : (FreshFlags(req[q]) /\ FreshLocks(req[q]))'
  BY <1>1 DEF Decide, FreshFlags, FreshLocks, Blocking, Available
<1>. QED BY <1>2 DEF SerialInv, Decide, OnlyItemCurrent, LockedIsAttached, LocksAgree,
                     ReleasedIsFree, Made

LEMMA LineStepSerial ==
    ASSUME SerialInv, NEW r \in Requests, NEW u \in Users, LineStep(r, u)
    PROVE  SerialInv'
<1>. USE Bounds DEF Draft
<1>0. IInv'
  BY LineStepKeeps DEF SerialInv
<1>i. item # 0 => item \in Made
  BY DEF SerialInv, IInv, TypeOK, Made
<1>1. CASE CreateInitial(r, u)
  <2>. DEFINE x == Draft("main", 0, TRUE, {})
              c == [By(u) EXCEPT !.insert = {x}]
  <2>1. Decide(r, c) /\ item = 0
    BY <1>1 DEF CreateInitial, SerialInv, IInv, TypeOK
  <2>2. FreshFlags(c) /\ FreshLocks(c)
    BY <2>1 DEF By, FreshFlags, FreshLocks
  <2>. HIDE DEF c
  <2>. QED BY <1>0, <2>1, <2>2, DecideSerial
<1>2. ASSUME NEW v \in Made, Checkout(r, u, v) PROVE SerialInv'
  <2>. DEFINE c == [By(u) EXCEPT !.hold = {v}]
  <2>1. Decide(r, c)
    BY <1>2 DEF Checkout
  <2>2. FreshFlags(c) /\ FreshLocks(c)
    BY <1>2 DEF By, FreshFlags, FreshLocks, Checkout
  <2>. HIDE DEF c
  <2>. QED BY <1>0, <2>1, <2>2, DecideSerial
<1>3. ASSUME NEW v \in Made, NEW fs \in SUBSET Files, Checkin(r, u, v, fs) PROVE SerialInv'
  <2>. DEFINE kept == IF item = v THEN ver[v].files \cap fs ELSE ver[v].files
              at == {v} \X (fs \ ver[v].files)
              de == {v} \X (ver[v].files \ kept)
              ul == LockedBy(v, u) \cap ({v} \X kept)
              c == [By(u) EXCEPT !.free = {v}, !.attach = at, !.detach = de, !.unlock = ul]
  <2>1. Decide(r, c)
    BY <1>3 DEF Checkin
  <2>. HIDE DEF at, de, ul
  <2>2. FreshFlags(c) /\ FreshLocks(c)
    BY DEF By, FreshFlags, FreshLocks
  <2>. HIDE DEF c
  <2>. QED BY <1>0, <2>1, <2>2, DecideSerial
<1>4. CASE Revise(r, u)
  <2>. DEFINE x == Draft("main", item, TRUE, ver[item].files)
              c == [By(u) EXCEPT !.retire = {item}, !.insert = {x}]
  <2>1. Decide(r, c)
    BY <1>4 DEF Revise
  <2>2. FreshFlags(c) /\ FreshLocks(c)
    BY DEF By, FreshFlags, FreshLocks
  <2>. HIDE DEF c
  <2>. QED BY <1>0, <2>1, <2>2, DecideSerial
<1>5. CASE Release(r, u)
  <2>. DEFINE sup == {p \in {ver[item].pred} \ {0} : ver[p].isReleased /\ ~ver[p].isSuperseded}
              fr == {v \in {item} : ver[v].holder # Nobody}
              ul == LockedBy(item, u)
              c == [By(u) EXCEPT !.release = {item}, !.free = fr, !.supersede = sup,
                                 !.unlock = ul]
  <2>1. Decide(r, c)
    BY <1>5 DEF Release
  <2>2. item \in fr \/ ver[item].holder = Nobody
    OBVIOUS
  <2>3. \A f \in ver[item].files : ver[item].lock[f] # Nobody => <<item, f>> \in ul
    BY <1>5 DEF Release, Blocking, LockedBy
  <2>. HIDE DEF sup, fr, ul
  <2>4. FreshFlags(c) /\ FreshLocks(c)
    BY <2>2, <2>3 DEF By, FreshFlags, FreshLocks
  <2>. HIDE DEF c
  <2>. QED BY <1>0, <2>1, <2>4, DecideSerial
<1>. QED BY <1>1, <1>2, <1>3, <1>4, <1>5 DEF LineStep

LEMMA BranchStepSerial ==
    ASSUME SerialInv, NEW r \in Requests, NEW u \in Users, BranchStep(r, u)
    PROVE  SerialInv'
<1>. USE Bounds DEF Draft
<1>0. IInv'
  BY BranchStepKeeps DEF SerialInv
<1>1. ASSUME NEW s \in Made, NEW b \in Branches, CreateBranch(r, u, s, b) PROVE SerialInv'
  <2>. DEFINE c == [By(u) EXCEPT !.insert = {Draft(b, s, FALSE, ver[s].files)}]
  <2>1. Decide(r, c)
    BY <1>1 DEF CreateBranch
  <2>2. FreshFlags(c) /\ FreshLocks(c)
    BY DEF By, FreshFlags, FreshLocks
  <2>. HIDE DEF c
  <2>. QED BY <1>0, <2>1, <2>2, DecideSerial
<1>2. ASSUME NEW s \in Made, NEW t \in Made, MergeBranch(r, u, s, t) PROVE SerialInv'
  <2>. DEFINE old == {v \in {t} : ver[v].isCurrent}
              c == [By(u) EXCEPT !.retire = old,
                                 !.insert = {Draft(ver[t].branch, t, ver[t].isCurrent, {})}]
  <2>1. Decide(r, c)
    BY <1>2 DEF MergeBranch
  <2>2. ver[t].isCurrent => item \in old
    BY DEF SerialInv, OnlyItemCurrent
  <2>. HIDE DEF old
  <2>3. FreshFlags(c) /\ FreshLocks(c)
    BY <2>2 DEF By, FreshFlags, FreshLocks
  <2>. HIDE DEF c
  <2>. QED BY <1>0, <2>1, <2>3, DecideSerial
<1>3. CASE NewRevision(r, u)
  <2>. DEFINE c == [By(u) EXCEPT !.insert = {Draft("eco", item, FALSE, ver[item].files)},
                                 !.target = TRUE]
  <2>1. Decide(r, c)
    BY <1>3 DEF NewRevision
  <2>2. FreshFlags(c) /\ FreshLocks(c)
    BY DEF By, FreshFlags, FreshLocks
  <2>. HIDE DEF c
  <2>. QED BY <1>0, <2>1, <2>2, DecideSerial
<1>4. CASE Apply(r, u)
  <2>. DEFINE t == eco.target
              old == {item} \ {0, t}
              c == [By(u) EXCEPT !.retire = old, !.promote = {t}, !.applied = TRUE]
  <2>1. Decide(r, c)
    BY <1>4 DEF Apply
  <2>2. item \in {0, t} \/ item \in old
    OBVIOUS
  <2>. HIDE DEF t, old
  <2>3. FreshFlags(c) /\ FreshLocks(c)
    BY <2>2 DEF By, FreshFlags, FreshLocks
  <2>. HIDE DEF c
  <2>. QED BY <1>0, <2>1, <2>3, DecideSerial
<1>. QED BY <1>1, <1>2, <1>3, <1>4 DEF BranchStep

LEMMA FileStepSerial ==
    ASSUME SerialInv, NEW r \in Requests, NEW u \in Users, FileStep(r, u)
    PROVE  SerialInv'
<1>0. IInv'
  BY FileStepKeeps DEF SerialInv
<1>. PICK v \in Made, f \in Files :
        \/ CheckoutFile(r, u, v, f)
        \/ UndoCheckoutFile(r, u, v, f)
        \/ AttachFile(r, u, v, f)
        \/ DetachFile(r, u, v, f)
  BY DEF FileStep
<1>. DEFINE cell == {<<v, f>>}
<1>1. CASE CheckoutFile(r, u, v, f)
  <2>. DEFINE c == [By(u) EXCEPT !.lock = cell]
  <2>1. Decide(r, c)
    BY <1>1 DEF CheckoutFile
  <2>2. FreshFlags(c) /\ FreshLocks(c)
    BY <1>1 DEF By, FreshFlags, FreshLocks, CheckoutFile
  <2>. HIDE DEF c
  <2>. QED BY <1>0, <2>1, <2>2, DecideSerial
<1>q. ASSUME NEW c \in {[By(u) EXCEPT !.unlock = cell], [By(u) EXCEPT !.attach = cell],
                        [By(u) EXCEPT !.detach = cell]}
      PROVE  FreshFlags(c) /\ FreshLocks(c)
  <2>. HIDE DEF cell
  <2>. QED BY DEF By, FreshFlags, FreshLocks
<1>2. CASE UndoCheckoutFile(r, u, v, f)
  <2>1. Decide(r, [By(u) EXCEPT !.unlock = cell])
    BY <1>2 DEF UndoCheckoutFile
  <2>. QED BY <1>0, <1>q, <2>1, DecideSerial
<1>3. CASE AttachFile(r, u, v, f)
  <2>1. Decide(r, [By(u) EXCEPT !.attach = cell])
    BY <1>3 DEF AttachFile
  <2>. QED BY <1>0, <1>q, <2>1, DecideSerial
<1>4. CASE DetachFile(r, u, v, f)
  <2>1. Decide(r, [By(u) EXCEPT !.detach = cell])
    BY <1>4 DEF DetachFile
  <2>. QED BY <1>0, <1>q, <2>1, DecideSerial
<1>. QED BY <1>1, <1>2, <1>3, <1>4

\* The columns of a written row that the locks are about.
LEMMA WrittenLocks ==
    ASSUME NEW c \in Changes, NEW v \in Versions, ver[v] \in Row
    PROVE  /\ Written(c, v).holder = (IF v \in c.hold THEN c.user
                                      ELSE IF v \in c.free THEN Nobody ELSE ver[v].holder)
           /\ \A f \in Files :
                 /\ (f \in ver[v].files /\ <<v, f>> \notin c.detach) => f \in Written(c, v).files
                 /\ Written(c, v).lock[f] =
                      (IF <<v, f>> \in c.lock THEN c.user
                       ELSE IF <<v, f>> \in c.unlock \/ <<v, f>> \in c.detach THEN Nobody
                       ELSE ver[v].lock[f])
  BY DEF Written, Row

LEMMA CommitSerial ==
    ASSUME SerialInv, \A q, s \in Requests : q = s, NEW r \in Requests, Commit(r)
    PROVE  SerialInv'
<1>. USE Bounds
<1>. DEFINE c == req[r]
            n == count + 1
            new == CHOOSE x \in c.insert : TRUE
<1>0. IInv'
  BY CommitKeeps DEF SerialInv
<1>1. /\ c \in Changes /\ PlanOK(c) /\ FreshFlags(c) /\ FreshLocks(c)
      /\ count \in Nat /\ count <= MaxVersions /\ item \in 0..count
  BY DEF SerialInv, IInv, TypeOK
<1>2. c.insert # {} => new \in c.insert /\ n \in Versions /\ n # item
  BY <1>1 DEF Commit, Versions
<1>3. /\ ver' = [v \in Versions |-> IF v = n /\ c.insert # {} THEN new ELSE Written(c, v)]
      /\ count' = (IF c.insert = {} THEN count ELSE n)
      /\ item' = (IF c.insert # {} /\ ver'[n].isCurrent THEN n
                   ELSE IF c.promote # {} THEN CHOOSE t \in c.promote : TRUE
                   ELSE item)
      /\ req' = [req EXCEPT ![r] = Idle]
  BY DEF Commit, After
<1>4. /\ \A v \in Made : v \in Versions /\ v # n /\ ver'[v] = Written(c, v) /\ ver[v] \in Row
      /\ \A v \in Made' : v \in Made \/ (v = n /\ c.insert # {} /\ ver'[v] = new)
  <2>1. \A v \in Made : v \in Versions /\ v # n
    BY <1>1 DEF Made, Versions
  <2>2. \A v \in Made' : v \in Made \/ (v = n /\ c.insert # {})
    BY <1>1, <1>3 DEF Made
  <2>3. \A v \in Made : ver'[v] = Written(c, v) /\ ver[v] \in Row
    BY <1>3, <2>1 DEF SerialInv, IInv, TypeOK
  <2>4. c.insert # {} => ver'[n] = new
    BY <1>2, <1>3
  <2>. QED BY <2>1, <2>2, <2>3, <2>4
<1>5. \A q \in Requests : (FreshFlags(req[q]) /\ FreshLocks(req[q]))'
  <2>1. \A q \in Requests : req'[q] = Idle
    BY <1>3 DEF SerialInv, IInv, TypeOK
  <2>2. (FreshFlags(Idle) /\ FreshLocks(Idle))'
    BY DEF FreshFlags, FreshLocks, Idle, By
  <2>. QED BY <2>1, <2>2 DEF FreshFlags, FreshLocks
<1>6. OnlyItemCurrent'
  <2>. SUFFICES ASSUME NEW v \in Made', ver'[v].isCurrent PROVE v = item'
    BY DEF OnlyItemCurrent
  <2>1. CASE v \in Made
    <3>1. (ver[v].isCurrent /\ v \notin c.retire) \/ v \in c.promote
      <4>1. v \in Versions /\ ver'[v] = Written(c, v) /\ ver[v] \in Row
        BY <1>4, <2>1
      <4>2. Written(c, v).isCurrent = ((ver[v].isCurrent /\ v \notin c.retire) \/ v \in c.promote)
        BY <1>1, <4>1, WrittenRow
      <4>. QED BY <4>1, <4>2
    <3>2. ver[v].isCurrent => v = item /\ item # 0
      BY <2>1 DEF SerialInv, OnlyItemCurrent, Made
    <3>3. CASE c.insert # {} /\ new.isCurrent
      <4>1. c.promote = {} /\ (item = 0 \/ item \in c.retire)
        BY <1>1, <1>2, <3>3 DEF FreshFlags
      <4>. QED BY <3>1, <3>2, <4>1
    <3>4. CASE c.promote # {} /\ ~(c.insert # {} /\ new.isCurrent)
      <4>1. PICK t \in c.promote : c.promote = {t} /\ (item \in {0, t} \/ item \in c.retire)
        BY <1>1, <3>4 DEF FreshFlags
      <4>2. item' = t
        BY <1>2, <1>3, <3>4, <4>1
      <4>. QED BY <3>1, <3>2, <4>1, <4>2
    <3>5. CASE c.promote = {} /\ ~(c.insert # {} /\ new.isCurrent)
      <4>1. item' = item
        BY <1>2, <1>3, <3>5
      <4>. QED BY <3>1, <3>2, <3>5, <4>1
    <3>. QED BY <3>3, <3>4, <3>5
  <2>2. CASE v = n /\ c.insert # {} /\ ver'[v] = new
    BY <1>3, <2>2
  <2>. QED BY <1>4, <2>1, <2>2
<1>7. ASSUME NEW v \in Made', NEW f \in Files, v \notin Made
      PROVE  ~ver'[v].isReleased /\ ver'[v].holder = Nobody /\ ver'[v].lock[f] = Nobody
  BY <1>1, <1>2, <1>4, <1>7 DEF FreshLocks
<1>8. ASSUME NEW v \in Made, NEW f \in Files
      PROVE  /\ ver'[v].isReleased = (ver[v].isReleased \/ v \in c.release)
             /\ ver'[v].holder = (IF v \in c.hold THEN c.user
                                  ELSE IF v \in c.free THEN Nobody ELSE ver[v].holder)
             /\ (f \in ver[v].files /\ <<v, f>> \notin c.detach) => f \in ver'[v].files
             /\ ver'[v].lock[f] =
                  (IF <<v, f>> \in c.lock THEN c.user
                   ELSE IF <<v, f>> \in c.unlock \/ <<v, f>> \in c.detach THEN Nobody
                   ELSE ver[v].lock[f])
  <2>1. v \in Versions /\ ver'[v] = Written(c, v) /\ ver[v] \in Row
    BY <1>4
  <2>2. Written(c, v).isReleased = (ver[v].isReleased \/ v \in c.release)
    BY <1>1, <2>1, WrittenRow
  <2>. QED BY <1>1, <2>1, <2>2, WrittenLocks
<1>9. ASSUME NEW v \in Made, NEW f \in Files, <<v, f>> \in c.lock
      PROVE  /\ ~ver[v].isReleased /\ ver[v].holder \in {Nobody, c.user}
             /\ f \in ver[v].files /\ c.detach = {} /\ c.release = {} /\ c.hold = {}
  <2>1. ~ver[v].isReleased /\ Available(v, c.user) /\ c.detach = {} /\ c.release = {} /\ c.hold = {}
    BY <1>1, <1>9 DEF FreshLocks
  <2>2. f \in ver[v].files
    BY <1>9 DEF Commit, Accepted
  <2>. QED BY <2>1, <2>2 DEF Available
<1>10. LockedIsAttached'
  <2>. SUFFICES ASSUME NEW v \in Made', NEW f \in Files, ver'[v].lock[f] # Nobody
                PROVE  f \in ver'[v].files
    BY DEF LockedIsAttached
  <2>1. v \in Made
    BY <1>7
  <2>2. ver[v].lock[f] # Nobody => f \in ver[v].files
    BY <2>1 DEF SerialInv, LockedIsAttached
  <2>. QED BY <1>8, <1>9, <2>1, <2>2
<1>11. ASSUME NEW v \in Made, NEW f \in Files, v \in c.hold
       PROVE  /\ ~ver[v].isReleased /\ c.lock = {} /\ c.release = {}
              /\ ver[v].lock[f] \in {Nobody, c.user}
  BY <1>1, <1>11 DEF FreshLocks, Blocking, SerialInv, LockedIsAttached
<1>12. LocksAgree'
  <2>. SUFFICES ASSUME NEW v \in Made', NEW f \in Files,
                       ver'[v].holder # Nobody, ver'[v].lock[f] # Nobody
                PROVE  ver'[v].holder = ver'[v].lock[f]
    BY DEF LocksAgree
  <2>1. v \in Made
    BY <1>7
  <2>2. (ver[v].holder # Nobody /\ ver[v].lock[f] # Nobody) => ver[v].holder = ver[v].lock[f]
    BY <2>1 DEF SerialInv, LocksAgree
  <2>3. CASE <<v, f>> \in c.lock
    <3>1. v \notin c.hold /\ ver'[v].lock[f] = c.user
      BY <1>8, <1>9, <2>1, <2>3
    <3>2. ver'[v].holder = ver[v].holder
      BY <1>8, <2>1, <3>1
    <3>. QED BY <1>9, <2>1, <2>3, <3>1, <3>2
  <2>4. CASE <<v, f>> \notin c.lock
    <3>1. ver'[v].lock[f] = ver[v].lock[f]
      BY <1>8, <2>1, <2>4
    <3>2. CASE v \in c.hold
      <4>1. ver'[v].holder = c.user
        BY <1>8, <2>1, <3>2
      <4>. QED BY <1>11, <2>1, <3>1, <3>2, <4>1
    <3>3. CASE v \notin c.hold
      <4>1. ver'[v].holder = ver[v].holder
        BY <1>8, <2>1, <3>3
      <4>. QED BY <2>2, <3>1, <4>1
    <3>. QED BY <3>2, <3>3
  <2>. QED BY <2>3, <2>4
<1>13. ASSUME NEW v \in Made', ver'[v].isReleased
       PROVE  ver'[v].holder = Nobody /\ \A f \in Files : ver'[v].lock[f] = Nobody
  <2>1. v \in Made
    BY <1>1, <1>2, <1>4, <1>13 DEF FreshLocks
  <2>w. /\ ver'[v].isReleased = (ver[v].isReleased \/ v \in c.release)
        /\ ver'[v].holder = (IF v \in c.hold THEN c.user
                             ELSE IF v \in c.free THEN Nobody ELSE ver[v].holder)
    <3>1. v \in Versions /\ ver'[v] = Written(c, v) /\ ver[v] \in Row
      BY <1>4, <2>1
    <3>2. Written(c, v).isReleased = (ver[v].isReleased \/ v \in c.release)
      BY <1>1, <3>1, WrittenRow
    <3>. QED BY <1>1, <3>1, <3>2, WrittenLocks
  <2>2. v \notin c.hold
    BY <1>1, <1>13, <2>1, <2>w DEF FreshLocks
  <2>3. CASE v \in c.release
    <3>1. ver'[v].holder = Nobody
      BY <1>1, <2>2, <2>3, <2>w DEF FreshLocks
    <3>2. ASSUME NEW f \in Files PROVE ver'[v].lock[f] = Nobody
      <4>1. f \in ver[v].files /\ ver[v].lock[f] # Nobody => <<v, f>> \in c.unlock
        BY <1>1, <2>3 DEF FreshLocks
      <4>2. ver[v].lock[f] # Nobody => f \in ver[v].files
        BY <2>1 DEF SerialInv, LockedIsAttached
      <4>3. <<v, f>> \notin c.lock
        BY <1>1, <2>3 DEF FreshLocks
      <4>. QED BY <1>8, <2>1, <4>1, <4>2, <4>3
    <3>. QED BY <3>1, <3>2
  <2>4. CASE v \notin c.release
    <3>1. ver[v].isReleased
      BY <1>13, <2>4, <2>w
    <3>2. ver[v].holder = Nobody /\ \A f \in Files : ver[v].lock[f] = Nobody
      BY <2>1, <3>1 DEF SerialInv, ReleasedIsFree
    <3>3. \A f \in Files : <<v, f>> \notin c.lock
      BY <1>1, <3>1 DEF FreshLocks
    <3>. QED BY <1>8, <2>1, <2>2, <2>w, <3>2, <3>3
  <2>. QED BY <2>3, <2>4
<1>14. ReleasedIsFree'
  BY <1>13 DEF ReleasedIsFree
<1>. QED BY <1>0, <1>5, <1>6, <1>10, <1>12, <1>14 DEF SerialInv

LEMMA RollbackSerial ==
    ASSUME SerialInv, NEW r \in Requests, Rollback(r)
    PROVE  SerialInv'
<1>1. IInv'
  BY RollbackKeeps DEF SerialInv
<1>2. \A q \in Requests : FreshFlags(req'[q]) /\ FreshLocks(req'[q])
  BY IdleIsFresh DEF SerialInv, IInv, TypeOK, Rollback
<1>3. \A q \in Requests : (FreshFlags(req[q]) /\ FreshLocks(req[q]))'
  BY <1>2 DEF Rollback, FreshFlags, FreshLocks, Blocking, Available
<1>. QED BY <1>1, <1>3 DEF SerialInv, Rollback, OnlyItemCurrent, LockedIsAttached, LocksAgree,
                            ReleasedIsFree, Made

LEMMA SerialStep ==
    ASSUME SerialInv, \A q, s \in Requests : q = s, [Next]_vars
    PROVE  SerialInv'
<1>1. CASE Next
  <2>. PICK r \in Requests :
          \/ \E u \in Users : LineStep(r, u) \/ BranchStep(r, u) \/ FileStep(r, u)
          \/ Commit(r)
          \/ Rollback(r)
    BY <1>1 DEF Next
  <2>. QED BY LineStepSerial, BranchStepSerial, FileStepSerial, CommitSerial, RollbackSerial
<1>2. CASE UNCHANGED vars
  <2>1. IInv'
    BY <1>2, StepKeeps DEF SerialInv
  <2>. QED BY <1>2, <2>1 DEF vars, SerialInv, OnlyItemCurrent, LockedIsAttached, LocksAgree,
             ReleasedIsFree, FreshFlags, FreshLocks, Blocking, Available, Made
<1>. QED BY <1>1, <1>2

LEMMA SerialCount == SerialInv => OneCurrent
<1>. SUFFICES ASSUME SerialInv PROVE OneCurrent
  OBVIOUS
<1>. DEFINE cur == {v \in Made : ver[v].isCurrent}
<1>1. CASE item = 0
  <2>1. cur = {}
    BY <1>1 DEF SerialInv, OnlyItemCurrent, Made
  <2>. QED BY <1>1, <2>1, FS_EmptySet DEF OneCurrent
<1>2. CASE item # 0
  <2>1. cur = {item}
    BY <1>2 DEF SerialInv, IInv, TypeOK, ItemAtCurrent, OnlyItemCurrent, Made
  <2>. QED BY <1>2, <2>1, FS_Singleton DEF OneCurrent
<1>. QED BY <1>1, <1>2

LEMMA SerialInvariance ==
    ASSUME \A q, s \in Requests : q = s
    PROVE  Spec => []SerialInv
<1>1. SerialInv /\ [Next]_vars => SerialInv'
  BY SerialStep
<1>. QED BY <1>1, SerialInit, PTL DEF Spec

\* When requests do not overlap, the item has one current version and the line no
\* other: a revision, a merge or an applied ECO takes the flag from the version that
\* had it (version/service.py:383-387, 437-446, eco_service.py:1804-1818).
THEOREM CurrentIsUnique ==
    ASSUME \A q, s \in Requests : q = s
    PROVE  Spec => []OneCurrent
  BY SerialInvariance, SerialCount, PTL

\* When requests do not overlap, whoever has a version checked out is the only one
\* who has a file of it checked out (version/service.py:134-147,
\* file_service.py:141-147).
THEOREM CheckoutsAgree ==
    ASSUME \A q, s \in Requests : q = s
    PROVE  Spec => []LocksAgree
  BY SerialInvariance, PTL DEF SerialInv

\* When requests do not overlap, a release leaves nothing of its version checked out
\* and nobody checks out a released version or a file of it (version/service.py:112,
\* 557-558, 596, file_service.py:138).
THEOREM ReleaseFrees ==
    ASSUME \A q, s \in Requests : q = s
    PROVE  Spec => []ReleasedIsFree
  BY SerialInvariance, PTL DEF SerialInv
=============================================================================
