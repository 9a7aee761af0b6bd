------------------------------ MODULE Resilience ------------------------------
(***************************************************************************)
(* RuntimeRegistry (resilience.rs): the health and circuit-breaker record  *)
(* of every target of one upstream, shared by all request tasks and by the *)
(* active health checker.  Its methods may be called by any task in any    *)
(* order: an answer of is_available can be followed, much later and after  *)
(* the circuit has moved on, by the record_success or record_failure of    *)
(* the attempt it admitted.                                                *)
(***************************************************************************)
EXTENDS TargetRuntime

CONSTANT Key           \* target_key(upstream, target.id), one per target

VARIABLES
    targets,           \* Mutex<HashMap<String, TargetRuntime>>
    granted            \* history: is_available calls answered true since the
                       \* circuit of the key became half-open

vars == <<targets, granted>>

TypeOK ==
    /\ targets \in [Key -> Runtime]
    /\ granted \in [Key -> Nat]

Init ==
    /\ targets = [k \in Key |-> DefaultRuntime]
    /\ granted = [k \in Key |-> 0]

\* The history count after is_available on a record s with count g: a call
\* that makes the circuit half-open is the first grant of the new period.
GrantsAfter(s, g) ==
    CASE Admits(s) /\ s.circuit = "Open"     -> 1
      [] Admits(s) /\ s.circuit = "HalfOpen" -> g + 1
      [] OTHER                               -> g

IsAvailable(k) ==
    /\ targets' = [targets EXCEPT ![k] = AfterIsAvailable(@)]
    /\ granted' = [granted EXCEPT ![k] = GrantsAfter(targets[k], @)]

SetActiveHealth(k, healthy) ==
    /\ targets' = [targets EXCEPT ![k] = AfterSetActiveHealth(@, healthy)]
    /\ UNCHANGED granted

RecordSuccess(k) ==
    /\ targets' = [targets EXCEPT ![k] = AfterSuccess(@)]
    /\ UNCHANGED granted

RecordFailure(k) ==
    /\ targets' = [targets EXCEPT ![k] = AfterFailure(@)]
    /\ UNCHANGED granted

Tick ==
    /\ targets' = [k \in Key |-> AfterTick(targets[k])]
    /\ UNCHANGED granted

Next ==
    \/ \E k \in Key : IsAvailable(k)
    \/ \E k \in Key, healthy \in BOOLEAN : SetActiveHealth(k, healthy)
    \/ \E k \in Key : RecordSuccess(k)
    \/ \E k \in Key : RecordFailure(k)
    \/ Tick

Spec == Init /\ [][Next]_vars

-----------------------------------------------------------------------------
\* Correctness.

\* While a circuit is half-open, the calls of is_available granted since it
\* became half-open and the attempts still left account for exactly one more
\* than half_open_max_requests: no interleaving of callers, late verdicts and
\* health-check results grants more (is_available, resilience.rs:65-82).
HalfOpenBudget ==
    \A k \in Key : targets[k].circuit = "HalfOpen" =>
        granted[k] + targets[k].remaining_attempts = HalfOpenMaxRequests + 1

\* A circuit that is not closed still remembers enough failures to trip: no
\* order of late verdicts leaves an open or half-open circuit with a counter
\* below failure_threshold, which is what makes one failed probe enough to
\* reopen it (record_failure, resilience.rs:116-121; record_success :97).
TrippedRemembersFailures ==
    \A k \in Key : targets[k].circuit # "Closed" =>
        targets[k].breaker_failures >= BreakerFailureThreshold

\* The passive verdict can always be explained by the run of outcomes it was
\* computed from: an unhealthy target has either failed often enough in a row
\* or not yet succeeded often enough in a row (resilience.rs:99-101,112-114).
PassiveVerdictExplained ==
    \A k \in Key : ~targets[k].passive_healthy =>
        \/ targets[k].consecutive_failures >= PassiveFailureThreshold
        \/ targets[k].consecutive_successes < PassiveSuccessThreshold

\* The passive check and the breaker keep counters of their own that never
\* come apart, up to and at the value where both saturate: which of the two
\* acts first on a run of failures depends on the thresholds alone
\* (resilience.rs:94-97,108-116).
FailureCountsAgree ==
    \A k \in Key :
        targets[k].consecutive_failures = targets[k].breaker_failures

\* The thresholds for which a closed circuit always means a usable target:
\* the breaker trips no later than the passive check, and one success is
\* enough for the passive check.
SafeThresholds ==
    /\ BreakerFailureThreshold <= PassiveFailureThreshold
    /\ PassiveSuccessThreshold <= 1

\* A target that is passively unhealthy while its circuit is closed gets no
\* request, so nothing can ever make it healthy again (is_available,
\* resilience.rs:64).  With safe thresholds no sequence of verdicts leads there.
ClosedIsUsable ==
    SafeThresholds =>
        \A k \in Key :
            targets[k].circuit = "Closed" => targets[k].passive_healthy

\* A failure recorded for a half-open target puts it back in the open state
\* for a whole new period, whichever request the failure came from
\* (record_failure, resilience.rs:116-121).
HalfOpenFailureReopens ==
    [][\A k \in Key :
         RecordFailure(k) /\ targets[k].circuit = "HalfOpen" =>
            targets'[k].circuit = "Open" /\ targets'[k].elapsed = 0]_vars

\* As a circuit breaker sees it: the circuits, those of the open ones that
\* is_available would find ripe, and the grants of the half-open ones.
Breaker == INSTANCE CircuitBreaker WITH
    circuit <- [k \in Key |-> targets[k].circuit],
    cooled  <- {k \in Key : targets[k].circuit = "Open" /\ targets[k].elapsed >= OpenMs},
    probes  <- [k \in Key |-> IF targets[k].circuit = "HalfOpen" THEN granted[k] ELSE 0]

\* Whatever the callers do, each target's circuit behaves as a circuit breaker:
\* it is tried again only when open_ms have passed since the last trip, with a
\* bounded number of probes, and no call moves the circuit of another target
\* (resilience.rs:55-122).
BreakerSpec == Breaker!Spec

\* The inductive invariant behind the properties above.
IInv ==
    /\ TypeOK
    /\ HalfOpenBudget
    /\ TrippedRemembersFailures
    /\ PassiveVerdictExplained
    /\ FailureCountsAgree
    /\ ClosedIsUsable
=============================================================================
