---------------------------- MODULE Numbering_proofs ----------------------------
(***************************************************************************)
(* Generated numbers are unique, for any sets of items and requests.       *)
(***************************************************************************)
EXTENDS Numbering, WellFoundedInduction, TLAPS

Stored == {"live", "deleted"}

NTypeOK ==
    /\ status \in [Items -> Stored \cup {"none", "open"}]
    /\ number \in [Items -> 0..MaxNumber]
    /\ explicit \subseteq Items
    /\ last \in Nat
    /\ raised \in Nat
    /\ mine \in [Requests -> SUBSET Items]
    /\ view \in [Requests -> SUBSET Items]
    /\ scanned \subseteq Requests
    /\ seen \in [Items -> SUBSET Items]

\* The open items are those of one transaction each.
OpenIsMine ==
    /\ \A r \in Requests : \A i \in mine[r] : status[i] = "open"
    /\ \A i \in Items : status[i] = "open" => \E r \in Requests : i \in mine[r]
    /\ \A r, q \in Requests : r # q => mine[r] \cap mine[q] = {}

NoneIsBlank ==
    \A i \in Items : status[i] = "none" =>
        number[i] = 0 /\ i \notin explicit /\ seen[i] = {}

\* The counter is above every generated number: the committed one above those of
\* stored items, the raised one above those of the transaction that has raised it.
CounterAbove ==
    /\ raised # 0 => last <= raised
    /\ \A i \in Items \ explicit :
        /\ status[i] \in Stored => number[i] <= last
        /\ status[i] = "open" => raised # 0 /\ number[i] <= raised

\* The lock: one transaction at a time has generated numbers it has not committed.
OneHolder ==
    \A r, q \in Requests : r # q => mine[r] \subseteq explicit \/ mine[q] \subseteq explicit

\* What a scan has seen stays, or goes with the transaction that has scanned.
ViewStays ==
    \A r \in Requests : \A j \in view[r] : status[j] \in Stored \/ j \in mine[r]
SeenStays ==
    \A i \in Items : \A j \in seen[i] :
        status[j] \in Stored \/ \E r \in Requests : i \in mine[r] /\ j \in mine[r]

SeenBelow ==
    ~TokenMode => \A i \in Items \ explicit : \A j \in seen[i] : number[j] < number[i]

Distinct ==
    \A i, j \in Items \ explicit : i # j /\ number[i] = number[j] => number[i] = 0

NInv ==
    /\ NTypeOK /\ OpenIsMine /\ NoneIsBlank /\ CounterAbove /\ OneHolder
    /\ ViewStays /\ SeenStays /\ SeenBelow /\ Distinct

-----------------------------------------------------------------------------
(* The floor.                                                               *)

LEMMA LeastNatural ==
    ASSUME NEW T, T \subseteq Nat, T # {}
    PROVE  \E x \in T : \A y \in T : x <= y
<1>1. PICK x \in T : \A y \in T : <<y, x>> \notin OpToRel(<, Nat)
  BY NatLessThanWellFounded, WFMin
<1>2. \A y \in T : ~(y < x)  BY <1>1 DEF OpToRel
<1>3. QED  BY <1>2

\* A set of numbers with a bound has a largest one: its least bound.
LEMMA LargestExists ==
    ASSUME NTypeOK, MaxNumber \in Nat, NEW some \in SUBSET Items, NEW base \in Nat
    PROVE  /\ Largest(some, base) \in Nat
           /\ \A i \in some : number[i] <= Largest(some, base)
           /\ base <= Largest(some, base)
<1> DEFINE V == {number[i] : i \in some} \cup {base}
           T == {m \in Nat : \A v \in V : v <= m}
<1>1. V \subseteq Nat /\ base \in V  BY DEF NTypeOK
<1>2. MaxNumber + base \in T  BY DEF NTypeOK
<1>3. PICK x \in T : \A y \in T : x <= y
  <2>1. T \subseteq Nat /\ T # {}  BY <1>2
  <2> HIDE DEF T
  <2>2. QED  BY <2>1, LeastNatural
<1>4. x \in V
  <2>1. SUFFICES ASSUME x \notin V PROVE FALSE  OBVIOUS
  <2>2. \A v \in V : v < x
    <3>1. TAKE v \in V
    <3>2. v \in Nat /\ v <= x /\ v # x /\ x \in Nat  BY <1>1, <2>1
    <3> HIDE DEF V, T
    <3>3. QED  BY <3>2
  <2>3. base < x /\ x \in Nat  BY <1>1, <2>2, <1>3
  <2>4. x - 1 \in T  BY <1>1, <2>2, <2>3
  <2>5. QED  BY <1>3, <2>3, <2>4
<1>5. base <= x /\ \A i \in some : number[i] <= x  BY <1>1, <1>3
<1>6. \E m \in V : base <= m /\ \A i \in some : number[i] <= m  BY <1>4, <1>5
<1>7. Largest(some, base) \in V /\ base <= Largest(some, base)
      /\ \A i \in some : number[i] <= Largest(some, base)
  BY <1>6 DEF Largest
<1>8. QED  BY <1>1, <1>7

LEMMA FloorAbove ==
    ASSUME NTypeOK, MaxNumber \in Nat, Start \in Nat \ {0}, NEW some \in SUBSET Items
    PROVE  /\ Floor(some) \in Nat \ {0}
           /\ ~TokenMode => \A i \in some : number[i] < Floor(some)
<1>1. Start - 1 \in Nat  OBVIOUS
<1>2. CASE TokenMode  BY <1>2 DEF Floor
<1>3. CASE ~TokenMode
  <2>1. Largest(some, Start - 1) \in Nat
        /\ \A i \in some : number[i] <= Largest(some, Start - 1)
    BY <1>1, LargestExists
  <2>2. \A i \in some : number[i] \in Nat  BY DEF NTypeOK
  <2>3. QED  BY <1>3, <2>1, <2>2 DEF Floor
<1>4. QED  BY <1>2, <1>3

-----------------------------------------------------------------------------
(* The steps.                                                               *)

LEMMA NumberingInit ==
    ASSUME MaxNumber \in Nat, Init
    PROVE  NInv
  BY DEF Init, NInv, NTypeOK, OpenIsMine, NoneIsBlank, CounterAbove, OneHolder, ViewStays,
         SeenStays, SeenBelow, Distinct, Stored

LEMMA ScanStep ==
    ASSUME NInv, NEW r \in Requests, Scan(r)
    PROVE  NInv'
<1> USE DEF NInv
<1>1. PICK flushed \in SUBSET mine[r] : view' = [view EXCEPT ![r] = Visible(flushed)]
  BY DEF Scan
<1>2. \A j \in Visible(flushed) : j \in Items /\ (status[j] = "live" \/ j \in mine[r])
  BY DEF Visible, NTypeOK
<1>3. NTypeOK'  BY <1>1, <1>2 DEF Scan, NTypeOK
<1>4. ViewStays'  BY <1>1, <1>2 DEF Scan, ViewStays, NTypeOK, Stored
<1>5. QED
  BY <1>3, <1>4 DEF Scan, OpenIsMine, NoneIsBlank, CounterAbove, OneHolder, SeenStays,
                    SeenBelow, Distinct

\* The new number is above the counter, and so above every generated one, and not
\* below the floor, and so above those of the scan.
LEMMA AllocateStep ==
    ASSUME MaxNumber \in Nat, Start \in Nat \ {0}, NInv,
           NEW r \in Requests, NEW i \in Items, Allocate(r, i)
    PROVE  NInv'
<1> USE DEF NInv
<1> DEFINE n == NextNumber(Floor(view[r]))
<1>1. view[r] \in SUBSET Items  BY DEF NTypeOK
<1>2. Floor(view[r]) \in Nat \ {0}
      /\ (~TokenMode => \A j \in view[r] : number[j] < Floor(view[r]))
  BY <1>1, FloorAbove
<1>3. n \in 1..MaxNumber /\ Floor(view[r]) <= n
      /\ (Counter # 0 => Counter < n)
  BY <1>2 DEF Allocate, NextNumber, Counter, NTypeOK
<1>4. /\ status' = [status EXCEPT ![i] = "open"]
      /\ number' = [number EXCEPT ![i] = n]
      /\ raised' = n
      /\ mine' = [mine EXCEPT ![r] = @ \cup {i}]
      /\ view' = [view EXCEPT ![r] = {}]
      /\ seen' = [seen EXCEPT ![i] = view[r]]
      /\ explicit' = explicit /\ last' = last
      /\ status[i] = "none" /\ scanned' = scanned \ {r}
      /\ raised = 0 \/ Holds(r)
  BY DEF Allocate
<1> HIDE DEF n
<1>5. i \notin explicit  BY <1>4 DEF NoneIsBlank
<1>6. \A q \in Requests : i \notin mine[q]  BY <1>4 DEF OpenIsMine
<1>7. \A q \in Requests : i \notin view[q]
  BY <1>4, <1>6 DEF ViewStays, Stored
<1>8. \A j \in Items : i \notin seen[j]
  BY <1>4, <1>6 DEF SeenStays, Stored
<1>9. \A k \in Items \ explicit : k # i => number[k] < n
  <2>1. TAKE k \in Items \ explicit
  <2>2. HAVE k # i
  <2>3. number[k] \in Nat /\ last \in Nat /\ raised \in Nat  BY DEF NTypeOK
  <2>4. CASE status[k] \in Stored
    <3>1. number[k] <= last  BY <2>4 DEF CounterAbove
    <3>2. last <= Counter  BY <2>3 DEF CounterAbove, Counter
    <3>3. Counter \in Nat  BY <2>3 DEF Counter
    <3>4. QED  BY <1>3, <2>3, <3>1, <3>2, <3>3
  <2>5. CASE status[k] = "open"
    <3>1. raised # 0 /\ number[k] <= raised  BY <2>5 DEF CounterAbove
    <3>2. QED  BY <1>3, <2>3, <3>1 DEF Counter
  <2>6. CASE status[k] = "none"
    BY <1>3, <2>6 DEF NoneIsBlank
  <2>7. QED  BY <2>4, <2>5, <2>6 DEF NTypeOK
<1>10. NTypeOK'  BY <1>1, <1>3, <1>4 DEF NTypeOK
<1>11. OpenIsMine'
  <2>1. \A q \in Requests : mine'[q] = IF q = r THEN mine[r] \cup {i} ELSE mine[q]
    BY <1>4 DEF NTypeOK
  <2>2. \A k \in Items : status'[k] = IF k = i THEN "open" ELSE status[k]
    BY <1>4 DEF NTypeOK
  <2>3. \A q \in Requests : mine[q] \subseteq Items  BY DEF NTypeOK
  <2>4. \A q \in Requests : \A k \in mine'[q] : status'[k] = "open"
    BY <2>1, <2>2, <2>3 DEF OpenIsMine
  <2>5. \A k \in Items : status'[k] = "open" => \E q \in Requests : k \in mine'[q]
    BY <2>1, <2>2 DEF OpenIsMine
  <2>6. \A p, q \in Requests : p # q => mine'[p] \cap mine'[q] = {}
    BY <1>6, <2>1 DEF OpenIsMine
  <2>7. QED  BY <2>4, <2>5, <2>6 DEF OpenIsMine
<1>12. NoneIsBlank'  BY <1>4 DEF NoneIsBlank, NTypeOK
<1>13. CounterAbove'
  <2>1. last <= n  BY <1>3 DEF CounterAbove, Counter, NTypeOK
  <2>2. \A k \in Items \ explicit : status[k] = "open" => number[k] <= n
    BY <1>3, <1>4, <1>9 DEF NTypeOK
  <2>3. n # 0 /\ n \in Nat  BY <1>3
  <2>4. \A k \in Items \ explicit : k # i =>
            status'[k] = status[k] /\ number'[k] = number[k]
    BY <1>4 DEF NTypeOK
  <2>5. status'[i] = "open" /\ number'[i] = n  BY <1>4 DEF NTypeOK
  <2>6. QED  BY <1>4, <2>1, <2>2, <2>3, <2>4, <2>5 DEF CounterAbove, Stored
<1>14. OneHolder'
  <2>1. \A q \in Requests : q # r => mine[q] \subseteq explicit
    <3>1. CASE raised = 0
      BY <3>1 DEF CounterAbove, OpenIsMine, NTypeOK
    <3>2. CASE Holds(r)
      BY <3>2 DEF Holds, OneHolder
    <3>3. QED  BY <1>4, <3>1, <3>2
  <2>2. QED  BY <1>4, <2>1 DEF OneHolder, NTypeOK
<1>15. ViewStays'
  BY <1>4, <1>7 DEF ViewStays, NTypeOK, Stored
<1>16. SeenStays'
  <2>1. \A q \in Requests : mine[q] \subseteq mine'[q]  BY <1>4 DEF NTypeOK
  <2>2. i \in mine'[r]  BY <1>4 DEF NTypeOK
  <2>3. \A k \in Items : k # i => status'[k] = status[k] /\ seen'[k] = seen[k]
    BY <1>4 DEF NTypeOK
  <2>4. \A j \in view[r] : j \in Items /\ j # i  BY <1>1, <1>7
  <2>5. \A j \in seen'[i] : status'[j] \in Stored \/ (i \in mine'[r] /\ j \in mine'[r])
    <3>1. seen'[i] = view[r]  BY <1>4 DEF NTypeOK
    <3>2. QED  BY <2>1, <2>2, <2>3, <2>4, <3>1 DEF ViewStays
  <2>6. \A k \in Items : k # i => \A j \in seen'[k] :
            status'[j] \in Stored \/ \E q \in Requests : k \in mine'[q] /\ j \in mine'[q]
    <3>1. \A k \in Items : \A j \in seen[k] : j \in Items /\ j # i  BY <1>8 DEF NTypeOK
    <3>2. QED  BY <2>1, <2>3, <3>1 DEF SeenStays
  <2>7. QED  BY <2>5, <2>6 DEF SeenStays
<1>17. SeenBelow'
  <2>1. SUFFICES ASSUME ~TokenMode, NEW k \in Items \ explicit, NEW j \in seen'[k]
                 PROVE  number'[j] < number'[k]
    BY <1>4 DEF SeenBelow
  <2>2. CASE k = i
    <3>1. j \in view[r]  BY <1>4, <2>2 DEF NTypeOK
    <3>2. j \in Items /\ j # i  BY <1>1, <1>7, <3>1
    <3>3. number'[j] = number[j] /\ number'[i] = n /\ number[j] \in Nat
      BY <1>4, <3>2 DEF NTypeOK
    <3>4. number[j] < Floor(view[r])  BY <1>2, <2>1, <3>1
    <3>5. QED  BY <1>2, <1>3, <2>2, <3>3, <3>4
  <2>3. CASE k # i
    <3>1. j \in seen[k] /\ j \in Items /\ j # i  BY <1>4, <1>8, <2>3 DEF NTypeOK
    <3>2. number'[j] = number[j] /\ number'[k] = number[k]
      BY <1>4, <2>3, <3>1 DEF NTypeOK
    <3>3. QED  BY <2>1, <3>1, <3>2 DEF SeenBelow
  <2>4. QED  BY <2>2, <2>3
<1>18. Distinct'
  <2>1. \A k \in Items \ explicit : number'[k] = IF k = i THEN n ELSE number[k]
    BY <1>4 DEF NTypeOK
  <2>2. \A k \in Items : number[k] \in Nat  BY DEF NTypeOK
  <2>3. QED  BY <1>3, <1>4, <1>9, <2>1, <2>2 DEF Distinct
<1>19. QED
  BY <1>10, <1>11, <1>12, <1>13, <1>14, <1>15, <1>16, <1>17, <1>18

LEMMA ExplicitStep ==
    ASSUME MaxNumber \in Nat, NInv, NEW r \in Requests, NEW i \in Items,
           NEW n \in 1..MaxNumber, TakeExplicit(r, i, n)
    PROVE  NInv'
<1> USE DEF NInv
<1>1. /\ status' = [status EXCEPT ![i] = "open"]
      /\ number' = [number EXCEPT ![i] = n]
      /\ explicit' = explicit \cup {i}
      /\ mine' = [mine EXCEPT ![r] = @ \cup {i}]
      /\ UNCHANGED <<last, raised, view, scanned, seen>>
      /\ status[i] = "none"
  BY DEF TakeExplicit
<1>2. \A q \in Requests : i \notin mine[q]  BY <1>1 DEF OpenIsMine
<1>3. \A j \in Items : i \notin seen[j]  BY <1>1, <1>2 DEF SeenStays, Stored
<1>4. \A q \in Requests : mine[q] \subseteq mine'[q] /\ mine[q] \subseteq Items
                          /\ mine'[q] = IF q = r THEN mine[r] \cup {i} ELSE mine[q]
  BY <1>1 DEF NTypeOK
<1>5. \A k \in Items : k # i => status'[k] = status[k] /\ number'[k] = number[k]
  BY <1>1 DEF NTypeOK
<1>6. NTypeOK'  BY <1>1 DEF NTypeOK
<1>7. OpenIsMine'
  <2>1. \A q \in Requests : \A k \in mine'[q] : status'[k] = "open"
    BY <1>1, <1>4 DEF OpenIsMine, NTypeOK
  <2>2. \A k \in Items : status'[k] = "open" => \E q \in Requests : k \in mine'[q]
    BY <1>1, <1>4 DEF OpenIsMine, NTypeOK
  <2>3. \A p, q \in Requests : p # q => mine'[p] \cap mine'[q] = {}
    BY <1>2, <1>4 DEF OpenIsMine
  <2>4. QED  BY <2>1, <2>2, <2>3 DEF OpenIsMine
<1>8. NoneIsBlank'  BY <1>1, <1>5 DEF NoneIsBlank, NTypeOK
<1>9. CounterAbove'  BY <1>1, <1>5 DEF CounterAbove
<1>10. OneHolder'  BY <1>1, <1>4 DEF OneHolder
<1>11. ViewStays'  BY <1>1, <1>4, <1>5 DEF ViewStays, NTypeOK, Stored
<1>12. SeenStays'
  <2>1. \A k \in Items : \A j \in seen[k] : j \in Items /\ j # i  BY <1>3 DEF NTypeOK
  <2>2. QED  BY <1>1, <1>4, <1>5, <2>1 DEF SeenStays
<1>13. SeenBelow'
  <2>1. \A k \in Items : \A j \in seen[k] : j \in Items /\ j # i  BY <1>3 DEF NTypeOK
  <2>2. QED  BY <1>1, <1>5, <2>1 DEF SeenBelow
<1>14. Distinct'  BY <1>1, <1>5 DEF Distinct
<1>15. QED
  BY <1>6, <1>7, <1>8, <1>9, <1>10, <1>11, <1>12, <1>13, <1>14

LEMMA CommitStep ==
    ASSUME MaxNumber \in Nat, NInv, NEW r \in Requests, Commit(r)
    PROVE  NInv'
<1> USE DEF NInv
<1>1. /\ status' = [k \in Items |-> IF k \in mine[r] THEN "live" ELSE status[k]]
      /\ last' = IF Holds(r) THEN raised ELSE last
      /\ raised' = IF Holds(r) THEN 0 ELSE raised
      /\ mine' = [mine EXCEPT ![r] = {}]
      /\ UNCHANGED <<number, explicit, view, scanned, seen>>
  BY DEF Commit
<1>2. \A q \in Requests : mine'[q] = IF q = r THEN {} ELSE mine[q]
  BY <1>1 DEF NTypeOK
<1>3. \A q \in Requests : q # r => mine[q] \cap mine[r] = {}  BY DEF OpenIsMine
<1>4. \A k \in Items : status[k] \in Stored => status'[k] \in Stored
  BY <1>1 DEF Stored
<1>5. \A k \in mine[r] : k \in Items /\ status[k] = "open" /\ status'[k] = "live"
  BY <1>1 DEF NTypeOK, OpenIsMine
<1>6. NTypeOK'  BY <1>1 DEF NTypeOK, Stored
<1>7. OpenIsMine'
  <2>1. \A q \in Requests : \A k \in mine'[q] : status'[k] = "open"
    BY <1>1, <1>2, <1>3 DEF OpenIsMine, NTypeOK
  <2>2. \A k \in Items : status'[k] = "open" => \E q \in Requests : k \in mine'[q]
    BY <1>1, <1>2 DEF OpenIsMine
  <2>3. QED  BY <1>2, <2>1, <2>2 DEF OpenIsMine
<1>8. NoneIsBlank'  BY <1>1 DEF NoneIsBlank
<1>9. CounterAbove'
  <2>1. \A k \in Items \ explicit : number[k] \in Nat  BY DEF NTypeOK
  <2>2. CASE Holds(r)
    <3>1. raised # 0 /\ last <= raised  BY <2>2 DEF Holds, CounterAbove
    <3>2. \A k \in Items \ explicit : status'[k] \in Stored => number[k] <= raised
      BY <1>1, <1>5, <2>1, <3>1 DEF CounterAbove, NTypeOK
    <3>3. \A k \in Items \ explicit : status'[k] # "open"
      <4>1. \A q \in Requests : q # r => mine[q] \subseteq explicit
        BY <2>2 DEF Holds, OneHolder
      <4>2. QED  BY <1>7, <1>2, <4>1 DEF OpenIsMine
    <3>4. QED  BY <1>1, <2>2, <3>2, <3>3 DEF CounterAbove
  <2>3. CASE ~Holds(r)
    <3>1. \A k \in mine[r] : k \in explicit
      BY <1>5, <2>3 DEF Holds, CounterAbove
    <3>2. \A k \in Items \ explicit : status'[k] = status[k]  BY <1>1, <3>1
    <3>3. QED  BY <1>1, <2>3, <3>2 DEF CounterAbove
  <2>4. QED  BY <2>2, <2>3
<1>10. OneHolder'  BY <1>1, <1>2 DEF OneHolder
<1>11. ViewStays'
  <2>1. SUFFICES ASSUME NEW q \in Requests, NEW j \in view[q]
                 PROVE  status'[j] \in Stored \/ j \in mine'[q]
    BY <1>1 DEF ViewStays
  <2>2. j \in Items  BY DEF NTypeOK
  <2>3. QED  BY <1>2, <1>4, <1>5, <2>2 DEF ViewStays, Stored
<1>12. SeenStays'
  <2>1. SUFFICES ASSUME NEW k \in Items, NEW j \in seen[k]
                 PROVE  status'[j] \in Stored \/ \E q \in Requests : k \in mine'[q] /\ j \in mine'[q]
    BY <1>1 DEF SeenStays
  <2>2. j \in Items  BY DEF NTypeOK
  <2>3. QED  BY <1>2, <1>4, <1>5, <2>2 DEF SeenStays, Stored
<1>13. SeenBelow' /\ Distinct'  BY <1>1 DEF SeenBelow, Distinct
<1>14. QED
  BY <1>6, <1>7, <1>8, <1>9, <1>10, <1>11, <1>12, <1>13

LEMMA RollbackStep ==
    ASSUME MaxNumber \in Nat, NInv, NEW r \in Requests, Rollback(r)
    PROVE  NInv'
<1> USE DEF NInv
<1>1. /\ status' = [k \in Items |-> IF k \in mine[r] THEN "none" ELSE status[k]]
      /\ number' = [k \in Items |-> IF k \in mine[r] THEN 0 ELSE number[k]]
      /\ seen' = [k \in Items |-> IF k \in mine[r] THEN {} ELSE seen[k]]
      /\ explicit' = explicit \ mine[r]
      /\ raised' = IF Holds(r) THEN 0 ELSE raised
      /\ mine' = [mine EXCEPT ![r] = {}]
      /\ scanned' = scanned \ {r}
      /\ view' = [view EXCEPT ![r] = {}]
      /\ last' = last
  BY DEF Rollback
<1>2. \A q \in Requests : mine'[q] = IF q = r THEN {} ELSE mine[q]
  BY <1>1 DEF NTypeOK
<1>3. \A q \in Requests : q # r => mine[q] \cap mine[r] = {}  BY DEF OpenIsMine
<1>4. \A k \in mine[r] : k \in Items /\ status[k] = "open"  BY DEF NTypeOK, OpenIsMine
<1>5. NTypeOK'  BY <1>1 DEF NTypeOK
<1>6. OpenIsMine'
  <2>1. \A q \in Requests : \A k \in mine'[q] : status'[k] = "open"
    BY <1>1, <1>2, <1>3 DEF OpenIsMine, NTypeOK
  <2>2. \A k \in Items : status'[k] = "open" => \E q \in Requests : k \in mine'[q]
    BY <1>1, <1>2 DEF OpenIsMine
  <2>3. QED  BY <1>2, <2>1, <2>2 DEF OpenIsMine
<1>7. NoneIsBlank'  BY <1>1 DEF NoneIsBlank
<1>8. CounterAbove'
  <2>1. CASE Holds(r)
    <3>1. \A q \in Requests : q # r => mine[q] \subseteq explicit
      BY <2>1 DEF Holds, OneHolder
    <3>2. \A k \in Items \ explicit' : status'[k] # "open"
      BY <1>1, <1>2, <1>3, <1>6, <3>1 DEF OpenIsMine
    <3>3. QED  BY <1>1, <2>1, <3>2 DEF CounterAbove, Stored
  <2>2. CASE ~Holds(r)
    BY <1>1, <2>2 DEF CounterAbove, Stored
  <2>3. QED  BY <2>1, <2>2
<1>9. OneHolder'  BY <1>1, <1>2, <1>3 DEF OneHolder
<1>10. ViewStays'
  <2>1. SUFFICES ASSUME NEW q \in Requests, q # r, NEW j \in view[q]
                 PROVE  status'[j] \in Stored \/ j \in mine'[q]
    BY <1>1 DEF ViewStays, NTypeOK
  <2>2. j \in Items  BY DEF NTypeOK
  <2>3. QED  BY <1>1, <1>2, <1>4, <2>1, <2>2 DEF ViewStays, Stored
<1>11. SeenStays'
  <2>1. SUFFICES ASSUME NEW k \in Items, k \notin mine[r], NEW j \in seen[k]
                 PROVE  status'[j] \in Stored \/ \E q \in Requests : k \in mine'[q] /\ j \in mine'[q]
    BY <1>1 DEF SeenStays
  <2>2. j \in Items  BY DEF NTypeOK
  <2>3. QED  BY <1>1, <1>2, <1>4, <2>1, <2>2 DEF SeenStays, Stored
<1>12. SeenBelow'
  <2>1. SUFFICES ASSUME ~TokenMode, NEW k \in Items, k \notin mine[r], k \notin explicit,
                        NEW j \in seen[k]
                 PROVE  number'[j] < number'[k]
    BY <1>1 DEF SeenBelow
  <2>2. j \in Items /\ number'[k] = number[k]  BY <1>1, <2>1 DEF NTypeOK
  <2>3. j \notin mine[r]  BY <1>3, <1>4, <2>1 DEF SeenStays, Stored
  <2>4. QED  BY <1>1, <2>1, <2>2, <2>3 DEF SeenBelow
<1>13. Distinct'  BY <1>1 DEF Distinct
<1>14. QED
  BY <1>5, <1>6, <1>7, <1>8, <1>9, <1>10, <1>11, <1>12, <1>13

LEMMA DeleteStep ==
    ASSUME NInv, NEW i \in Items, Delete(i)
    PROVE  NInv'
<1> USE DEF NInv
<1>1. /\ status[i] = "live"
      /\ status' = [status EXCEPT ![i] = "deleted"]
      /\ UNCHANGED <<number, explicit, last, raised, mine, view, scanned, seen>>
  BY DEF Delete
<1>2. \A k \in Items : status'[k] = IF k = i THEN "deleted" ELSE status[k]
  BY <1>1 DEF NTypeOK
<1>3. NTypeOK'  BY <1>1 DEF NTypeOK, Stored
<1>4. OpenIsMine'
  <2>1. \A q \in Requests : mine[q] \subseteq Items  BY DEF NTypeOK
  <2>2. QED  BY <1>1, <1>2, <2>1 DEF OpenIsMine
<1>5. NoneIsBlank' /\ CounterAbove'  BY <1>1, <1>2 DEF NoneIsBlank, CounterAbove, Stored
<1>6. ViewStays'
  <2>1. \A q \in Requests : view[q] \subseteq Items  BY DEF NTypeOK
  <2>2. QED  BY <1>1, <1>2, <2>1 DEF ViewStays, Stored
<1>7. SeenStays'
  <2>1. \A k \in Items : seen[k] \subseteq Items  BY DEF NTypeOK
  <2>2. QED  BY <1>1, <1>2, <2>1 DEF SeenStays, Stored
<1>8. OneHolder' /\ SeenBelow' /\ Distinct'  BY <1>1 DEF OneHolder, SeenBelow, Distinct
<1>9. QED  BY <1>3, <1>4, <1>5, <1>6, <1>7, <1>8

LEMMA NumberingNext ==
    ASSUME MaxNumber \in Nat, Start \in Nat \ {0}, NInv, [Next]_vars
    PROVE  NInv'
<1>1. CASE Next
  BY <1>1, ScanStep, AllocateStep, ExplicitStep, CommitStep, RollbackStep, DeleteStep
     DEF Next
<1>2. CASE UNCHANGED vars
  BY <1>2 DEF vars, NInv, NTypeOK, OpenIsMine, NoneIsBlank, CounterAbove, OneHolder,
              ViewStays, SeenStays, SeenBelow, Distinct, Stored
<1>3. QED  BY <1>1, <1>2

LEMMA InvariantGivesUnique == NInv => NumbersUnique
<1>1. SUFFICES ASSUME NInv, NEW i \in Items, NEW j \in Items, i # j,
                      number[i] = number[j], number[i] # 0, i \notin explicit
               PROVE  j \in explicit /\ (TokenMode \/ j \notin seen[i])
  BY DEF NumbersUnique
<1>2. j \in explicit  BY <1>1 DEF NInv, Distinct
<1>3. ASSUME ~TokenMode, j \in seen[i] PROVE FALSE
  <2>1. number[j] < number[i]  BY <1>1, <1>3 DEF NInv, SeenBelow
  <2>2. number[j] \in Nat  BY <1>1 DEF NInv, NTypeOK
  <2>3. QED  BY <1>1, <2>1, <2>2
<1>4. QED  BY <1>2, <1>3

\* numbering_service.py: whatever transactions overlap, commit or roll back, no two
\* generated numbers are the same, nor is one that of an item its scan has seen.
THEOREM GeneratedNumbersUnique ==
    ASSUME MaxNumber \in Nat, Start \in Nat \ {0}
    PROVE  Spec => []NumbersUnique
<1>1. Init => NInv  BY NumberingInit
<1>2. NInv /\ [Next]_vars => NInv'  BY NumberingNext
<1>3. QED  BY <1>1, <1>2, InvariantGivesUnique, PTL DEF Spec
=============================================================================
