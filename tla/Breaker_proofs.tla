----------------------------- MODULE Breaker_proofs -----------------------------
(***************************************************************************)
(* The slots of a half-open breaker are held by probes, for any threshold, *)
(* any number of probes and any finite set of calls.                       *)
(***************************************************************************)
EXTENDS Breaker, FiniteSetTheorems, TLAPS

\* Outside a half-open episode no call is a probe of it.
ProbesAreOfEpisode == state # "half_open" => Probes = {}

BInv ==
    /\ TypeOK
    /\ ProbesAreOfEpisode
    /\ SlotsAreProbes

LEMMA ProbesFinite ==
    ASSUME IsFiniteSet(Calls)
    PROVE  IsFiniteSet(Probes) /\ Cardinality(Probes) \in Nat
<1>1. Probes \subseteq Calls  BY DEF Probes
<1>2. IsFiniteSet(Probes)  BY <1>1, FS_Subset
<1>3. QED  BY <1>2, FS_CardinalityType

LEMMA BreakerInit == Init => BInv
<1>1. Init => Probes = {}  BY DEF Init, Probes
<1>2. QED  BY <1>1 DEF Init, BInv, TypeOK, ProbesAreOfEpisode, SlotsAreProbes

\* A call that starts as a probe takes one slot and is one probe; where no probes are
\* allowed there is neither.
LEMMA StartStep ==
    ASSUME IsFiniteSet(Calls), BInv, NEW c \in Calls,
           StartClosed(c) \/ StartOpen(c) \/ StartHalfOpen(c)
    PROVE  BInv'
<1> USE DEF BInv, TypeOK, ProbesAreOfEpisode
<1>1. CASE StartClosed(c)
  <2>1. Probes' = {}  BY <1>1 DEF StartClosed, Probes
  <2>2. QED  BY <1>1, <2>1 DEF StartClosed, SlotsAreProbes
<1>2. CASE StartOpen(c) /\ ~(MaxProbes > 0)
  <2>1. Probes' = {}  BY <1>2 DEF StartOpen, Probes
  <2>2. Cardinality(Probes') = 0  BY <2>1, FS_EmptySet
  <2>3. QED  BY <1>2, <2>2 DEF StartOpen, SlotsAreProbes
<1>3. CASE (StartOpen(c) /\ MaxProbes > 0) \/ StartHalfOpen(c)
  <2>1. c \notin Probes  BY <1>3 DEF StartOpen, StartHalfOpen, Probes
  <2>2. Probes' = Probes \cup {c}  BY <1>3 DEF StartOpen, StartHalfOpen, Probes
  <2>3. IsFiniteSet(Probes) /\ Cardinality(Probes) \in Nat  BY ProbesFinite
  <2>4. Cardinality(Probes') = Cardinality(Probes) + 1  BY <2>1, <2>2, <2>3, FS_AddElement
  <2>5. state' = "half_open" /\ inflight' \in Nat
    BY <1>3 DEF StartOpen, StartHalfOpen
  <2>6. inflight' <= Cardinality(Probes) + 1
    BY <1>3, <2>3 DEF StartOpen, StartHalfOpen, SlotsAreProbes
  <2>7. TypeOK'  BY <1>3, <2>5 DEF StartOpen, StartHalfOpen
  <2>8. QED  BY <2>4, <2>5, <2>6, <2>7 DEF SlotsAreProbes
<1>4. QED  BY <1>1, <1>2, <1>3

\* A call that ends leaves at most one probe fewer; if it leaves the breaker
\* half-open it was interrupted, and frees a slot if there is one.
LEMMA EndStep ==
    ASSUME IsFiniteSet(Calls), BInv, NEW c \in Calls,
           Succeed(c) \/ Interrupt(c) \/ Fail(c)
    PROVE  BInv'
<1> USE DEF BInv, TypeOK, ProbesAreOfEpisode
<1>1. CASE Interrupt(c)
  <2>1. Probes' = Probes \ {c}  BY <1>1 DEF Interrupt, Probes
  <2>2. IsFiniteSet(Probes) /\ Cardinality(Probes) \in Nat  BY ProbesFinite
  <2>3. Cardinality(Probes') = IF c \in Probes THEN Cardinality(Probes) - 1
                                               ELSE Cardinality(Probes)
    BY <2>1, <2>2, FS_RemoveElement
  <2>4. TypeOK'  BY <1>1 DEF Interrupt, Freed
  <2>5. ProbesAreOfEpisode'  BY <1>1, <2>1 DEF Interrupt
  <2>6. SlotsAreProbes'
    <3>1. SUFFICES ASSUME state = "half_open" PROVE inflight' <= Cardinality(Probes')
      BY <1>1 DEF Interrupt, SlotsAreProbes
    <3>2. inflight <= Cardinality(Probes)  BY <3>1 DEF SlotsAreProbes
    <3>3. inflight' = Freed(inflight)  BY <1>1, <3>1 DEF Interrupt
    <3>4. c \in Probes => Cardinality(Probes) > 0
      BY <2>2, <2>3, FS_EmptySet
    <3>5. QED  BY <2>2, <2>3, <3>2, <3>3, <3>4 DEF Freed
  <2>7. QED  BY <2>4, <2>5, <2>6
<1>2. CASE Succeed(c)
  <2>1. TypeOK'  BY <1>2 DEF Succeed, EpisodeOver
  <2>2. state' # "half_open"  BY <1>2 DEF Succeed
  <2>3. Probes' = {}
    <3>1. CASE state = "half_open"  BY <1>2, <3>1 DEF Succeed, EpisodeOver, Probes
    <3>2. CASE state # "half_open"  BY <1>2, <3>2 DEF Succeed, Probes
    <3>3. QED  BY <3>1, <3>2
  <2>4. QED  BY <2>1, <2>2, <2>3 DEF SlotsAreProbes
<1>3. CASE Fail(c)
  <2>1. TypeOK'
    <3>1. call' \in [Calls -> {"idle", "probe", "running"}]
      BY <1>3 DEF Fail, EpisodeOver
    <3>2. state' \in {"closed", "open", "half_open"} /\ failures' \in Nat /\ inflight' \in Nat
      BY <1>3 DEF Fail, Freed
    <3>3. QED  BY <3>1, <3>2
  <2>2. state' # "half_open"  BY <1>3 DEF Fail
  <2>3. Probes' = {}
    <3>1. CASE state = "half_open"  BY <1>3, <3>1 DEF Fail, EpisodeOver, Probes
    <3>2. CASE state # "half_open"  BY <1>3, <3>2 DEF Fail, Probes
    <3>3. QED  BY <3>1, <3>2
  <2>4. QED  BY <2>1, <2>2, <2>3 DEF SlotsAreProbes
<1>4. QED  BY <1>1, <1>2, <1>3

LEMMA BreakerNext ==
    ASSUME IsFiniteSet(Calls), BInv, [Next]_vars
    PROVE  BInv'
<1>1. CASE Next
  <2>1. PICK c \in Calls : \/ StartClosed(c) \/ StartOpen(c) \/ StartHalfOpen(c)
                           \/ Succeed(c) \/ Interrupt(c) \/ Fail(c)
    BY <1>1 DEF Next
  <2>2. QED  BY <2>1, StartStep, EndStep
<1>2. CASE UNCHANGED vars
  BY <1>2 DEF vars, BInv, TypeOK, ProbesAreOfEpisode, SlotsAreProbes, Probes
<1>3. QED  BY <1>1, <1>2

\* integrations/circuit_breaker.py, _before_call and _after_interrupt: no slot of a
\* half-open breaker leaks, so it refuses calls only while a probe is running.
THEOREM BreakerSlotsAreProbes ==
    ASSUME IsFiniteSet(Calls)
    PROVE  Spec => []SlotsAreProbes
<1>1. Init => BInv  BY BreakerInit
<1>2. BInv /\ [Next]_vars => BInv'  BY BreakerNext
<1>3. BInv => SlotsAreProbes  BY DEF BInv
<1>4. QED  BY <1>1, <1>2, <1>3, PTL DEF Spec
=============================================================================
