-------------------------------- MODULE Breaker --------------------------------
(***************************************************************************)
(* The circuit breaker around an outbound client                           *)
(* (integrations/circuit_breaker.py): each handler runs under the lock,    *)
(* the call itself does not, so a call can end in another state than the   *)
(* one it was admitted in, and its result counts all the same.             *)
(*                                                                         *)
(* Clocks are not modelled: the recovery time of an open breaker and the   *)
(* window of its failures can be over at any moment, so the backoff, which *)
(* only makes the recovery time longer, is left out, and so are totals.  A *)
(* refused call changes nothing else and is no step, except for the one    *)
(* that turns a breaker half-open which allows no probes.                  *)
(***************************************************************************)
EXTENDS Naturals, FiniteSets

CONSTANTS
    Calls,          \* calls that can be under way
    Threshold,      \* failure_threshold
    MaxProbes       \* half_open_max_calls

VARIABLES
    state,      \* closed, open or half_open
    failures,   \* failures in the window
    inflight,   \* half_open_inflight
    call        \* idle, a probe of the present half-open episode, or another running call

vars == <<state, failures, inflight, call>>

Init ==
    /\ state = "closed"
    /\ failures = 0
    /\ inflight = 0
    /\ call = [c \in Calls |-> "idle"]

Probes == {c \in Calls : call[c] = "probe"}

-----------------------------------------------------------------------------
(* _before_call.                                                            *)

StartClosed(c) ==
    /\ call[c] = "idle" /\ state = "closed"
    /\ call' = [call EXCEPT ![c] = "running"]
    /\ UNCHANGED <<state, failures, inflight>>

\* The recovery time is over: the breaker turns half-open, and the call is its
\* first probe, or is refused if no probes are allowed.
StartOpen(c) ==
    /\ call[c] = "idle" /\ state = "open"
    /\ state' = "half_open"
    /\ IF MaxProbes > 0
       THEN inflight' = 1 /\ call' = [call EXCEPT ![c] = "probe"]
       ELSE inflight' = 0 /\ UNCHANGED call
    /\ UNCHANGED failures

StartHalfOpen(c) ==
    /\ call[c] = "idle" /\ state = "half_open"
    /\ inflight < MaxProbes
    /\ inflight' = inflight + 1
    /\ call' = [call EXCEPT ![c] = "probe"]
    /\ UNCHANGED <<state, failures>>

-----------------------------------------------------------------------------
(* The end of a call.                                                       *)

\* Mutant: the slot of an interrupted probe is not given back.
FreedNever(n) == n

\* max(0, half_open_inflight - 1).
Freed(n) == IF n > 0 THEN n - 1 ELSE 0

\* The calls once c has ended and the half-open episode, if any, is over.
EpisodeOver(c) ==
    [d \in Calls |-> IF d = c THEN "idle" ELSE IF call[d] = "probe" THEN "running" ELSE call[d]]

\* _after_success closes a half-open breaker, whichever call it is.
Succeed(c) ==
    /\ call[c] # "idle"
    /\ IF state = "half_open"
       THEN /\ state' = "closed" /\ failures' = 0 /\ inflight' = 0
            /\ call' = EpisodeOver(c)
       ELSE /\ failures' = IF state = "closed" THEN 0 ELSE failures
            /\ call' = [call EXCEPT ![c] = "idle"]
            /\ UNCHANGED <<state, inflight>>

\* _after_interrupt: a cancelled call, or an exception is_failure does not count.
Interrupt(c) ==
    /\ call[c] # "idle"
    /\ inflight' = IF state = "half_open" THEN Freed(inflight) ELSE inflight
    /\ call' = [call EXCEPT ![c] = "idle"]
    /\ UNCHANGED <<state, failures>>

\* _after_failure: the failure is the first of a new window or one more of the old.
Fail(c) ==
    /\ call[c] # "idle"
    /\ \/ /\ state = "half_open"
          /\ state' = "open" /\ failures' = 0 /\ inflight' = Freed(inflight)
          /\ call' = EpisodeOver(c)
       \/ /\ state = "closed"
          /\ \E n \in {1, failures + 1} :
                IF n >= Threshold THEN state' = "open" /\ failures' = 0
                                  ELSE failures' = n /\ UNCHANGED state
          /\ call' = [call EXCEPT ![c] = "idle"]
          /\ UNCHANGED inflight
       \/ /\ state = "open"
          /\ call' = [call EXCEPT ![c] = "idle"]
          /\ UNCHANGED <<state, failures, inflight>>

Next ==
    \E c \in Calls :
        \/ StartClosed(c) \/ StartOpen(c) \/ StartHalfOpen(c)
        \/ Succeed(c) \/ Interrupt(c) \/ Fail(c)

Spec == Init /\ [][Next]_vars

-----------------------------------------------------------------------------
TypeOK ==
    /\ state \in {"closed", "open", "half_open"}
    /\ failures \in Nat
    /\ inflight \in Nat
    /\ call \in [Calls -> {"idle", "probe", "running"}]

\* A half-open breaker refuses a call only while a probe is under way: every slot
\* it counts is held by a call admitted in this episode, although calls admitted
\* before the breaker opened end in it and free slots they never took.  A slot
\* that leaked would leave the client cut off until the process restarts.
SlotsAreProbes ==
    state = "half_open" => inflight <= Cardinality(Probes)
=============================================================================
