---------------------------- MODULE TargetRuntime ----------------------------
(***************************************************************************)
(* The health record the gateway keeps for one upstream target, and what   *)
(* each method of RuntimeRegistry does to it (resilience.rs).              *)
(*                                                                         *)
(* The registry holds a map from target key to record behind one mutex,    *)
(* and every method looks its key up with entry(key).or_default().  A key  *)
(* that was never used is therefore indistinguishable from one that holds  *)
(* DefaultRuntime.  Every method is one critical section, so each is a     *)
(* function from record to record here and one action in the modules that  *)
(* use it.                                                                 *)
(*                                                                         *)
(* Time is counted in ticks.  The code only ever asks an Instant whether   *)
(* open_ms have elapsed since it, so Open carries the elapsed time instead *)
(* of opened_at and stops counting at OpenMs.                              *)
(***************************************************************************)
EXTENDS Naturals

CONSTANTS
    PassiveFailureThreshold,   \* PassiveHealthCheckConfig.failure_threshold
    PassiveSuccessThreshold,   \* PassiveHealthCheckConfig.success_threshold
    BreakerFailureThreshold,   \* CircuitBreakerConfig.failure_threshold
    OpenMs,                    \* CircuitBreakerConfig.open_ms, in ticks
    HalfOpenMaxRequests,       \* CircuitBreakerConfig.half_open_max_requests
    U32Max                     \* u32::MAX, where the counters saturate

\* All of them are unsigned machine integers; nothing in the code rejects 0.
ASSUME ThresholdsAreU32 ==
    /\ U32Max \in Nat
    /\ PassiveFailureThreshold \in 0..U32Max
    /\ PassiveSuccessThreshold \in 0..U32Max
    /\ BreakerFailureThreshold \in 0..U32Max
    /\ HalfOpenMaxRequests \in 0..U32Max
    /\ OpenMs \in Nat

Circuit == {"Closed", "Open", "HalfOpen"}

\* struct TargetRuntime, with the payloads of CircuitState flattened into
\* elapsed (Open) and remaining_attempts (HalfOpen); each is 0 elsewhere.
Runtime ==
    [ active_healthy: BOOLEAN,
      passive_healthy: BOOLEAN,
      consecutive_failures: 0..U32Max,
      consecutive_successes: 0..U32Max,
      breaker_failures: 0..U32Max,
      circuit: Circuit,
      elapsed: 0..OpenMs,
      remaining_attempts: 0..HalfOpenMaxRequests ]

DefaultRuntime ==
    [ active_healthy |-> TRUE,
      passive_healthy |-> TRUE,
      consecutive_failures |-> 0,
      consecutive_successes |-> 0,
      breaker_failures |-> 0,
      circuit |-> "Closed",
      elapsed |-> 0,
      remaining_attempts |-> 0 ]

\* Mutant: the counters wrap around instead of saturating.
WrappingInc(n) == (n + 1) % (U32Max + 1)

\* u32::saturating_add(1)
SaturatingInc(n) == IF n < U32Max THEN n + 1 ELSE n

-----------------------------------------------------------------------------
\* is_available answers a question and changes the record while doing so.

\* Mutant: a half-open circuit admits without looking at what is left.
AdmitsUnchecked(s) ==
    /\ s.active_healthy
    /\ CASE s.circuit = "Closed"   -> s.passive_healthy
         [] s.circuit = "Open"     -> s.elapsed >= OpenMs
         [] s.circuit = "HalfOpen" -> TRUE

\* Mutant: an open circuit is tried before its time.
AdmitsUncooled(s) ==
    /\ s.active_healthy
    /\ CASE s.circuit = "Closed"   -> s.passive_healthy
         [] s.circuit = "Open"     -> TRUE
         [] s.circuit = "HalfOpen" -> s.remaining_attempts # 0

\* The answer.
Admits(s) ==
    /\ s.active_healthy
    /\ CASE s.circuit = "Closed"   -> s.passive_healthy
         [] s.circuit = "Open"     -> s.elapsed >= OpenMs
         [] s.circuit = "HalfOpen" -> s.remaining_attempts # 0

\* Mutant: a half-open grant that forgets to use up an attempt.
AfterIsAvailableFreeProbe(s) ==
    IF Admits(s) /\ s.circuit = "Open"
    THEN [s EXCEPT !.circuit = "HalfOpen",
                   !.elapsed = 0,
                   !.remaining_attempts = HalfOpenMaxRequests]
    ELSE s

\* The record it leaves behind.  Entering HalfOpen grants the call that
\* finds the circuit ripe without charging it to remaining_attempts.
AfterIsAvailable(s) ==
    CASE Admits(s) /\ s.circuit = "Open" ->
            [s EXCEPT !.circuit = "HalfOpen",
                      !.elapsed = 0,
                      !.remaining_attempts = HalfOpenMaxRequests]
      [] Admits(s) /\ s.circuit = "HalfOpen" ->
            [s EXCEPT !.remaining_attempts = @ - 1]
      [] OTHER -> s

AfterSetActiveHealth(s, healthy) == [s EXCEPT !.active_healthy = healthy]

\* Mutant: a success that resets the breaker but leaves the circuit alone.
AfterSuccessNoClose(s) ==
    LET successes == SaturatingInc(s.consecutive_successes)
    IN  [s EXCEPT !.consecutive_failures = 0,
                  !.consecutive_successes = successes,
                  !.breaker_failures = 0,
                  !.passive_healthy =
                    IF successes >= PassiveSuccessThreshold THEN TRUE ELSE @]

\* Mutant: a success that resets the passive count and not the breaker's.
AfterSuccessKeepsBreaker(s) ==
    LET successes == SaturatingInc(s.consecutive_successes)
    IN  [s EXCEPT !.consecutive_failures = 0,
                  !.consecutive_successes = successes,
                  !.passive_healthy =
                    IF successes >= PassiveSuccessThreshold THEN TRUE ELSE @,
                  !.circuit = "Closed",
                  !.elapsed = 0,
                  !.remaining_attempts = 0]

\* Mutant: success_threshold compared with > instead of >=.
AfterSuccessOffByOne(s) ==
    LET successes == SaturatingInc(s.consecutive_successes)
    IN  [s EXCEPT !.consecutive_failures = 0,
                  !.consecutive_successes = successes,
                  !.breaker_failures = 0,
                  !.passive_healthy =
                    IF successes > PassiveSuccessThreshold THEN TRUE ELSE @,
                  !.circuit = "Closed",
                  !.elapsed = 0,
                  !.remaining_attempts = 0]

\* record_success closes the circuit from any state, Open included.
AfterSuccess(s) ==
    LET successes == SaturatingInc(s.consecutive_successes)
    IN  [s EXCEPT !.consecutive_failures = 0,
                  !.consecutive_successes = successes,
                  !.breaker_failures = 0,
                  !.passive_healthy =
                    IF successes >= PassiveSuccessThreshold THEN TRUE ELSE @,
                  !.circuit = "Closed",
                  !.elapsed = 0,
                  !.remaining_attempts = 0]

\* Mutant: a trip that only opens a closed circuit.
AfterFailureTripsClosedOnly(s) ==
    LET failures == SaturatingInc(s.consecutive_failures)
        breaker  == SaturatingInc(s.breaker_failures)
        trips    == breaker >= BreakerFailureThreshold /\ s.circuit = "Closed"
    IN  [s EXCEPT !.consecutive_failures = failures,
                  !.consecutive_successes = 0,
                  !.breaker_failures = breaker,
                  !.passive_healthy =
                    IF failures >= PassiveFailureThreshold THEN FALSE ELSE @,
                  !.circuit = IF trips THEN "Open" ELSE @,
                  !.elapsed = IF trips THEN 0 ELSE @]

\* record_failure (re)opens the circuit, and restarts the open period, once
\* the breaker has counted enough failures since the last success.
AfterFailure(s) ==
    LET failures == SaturatingInc(s.consecutive_failures)
        breaker  == SaturatingInc(s.breaker_failures)
        trips    == breaker >= BreakerFailureThreshold
    IN  [s EXCEPT !.consecutive_failures = failures,
                  !.consecutive_successes = 0,
                  !.breaker_failures = breaker,
                  !.passive_healthy =
                    IF failures >= PassiveFailureThreshold THEN FALSE ELSE @,
                  !.circuit = IF trips THEN "Open" ELSE @,
                  !.elapsed = IF trips THEN 0 ELSE @,
                  !.remaining_attempts = IF trips THEN 0 ELSE @]

\* One tick on the clock opened_at.elapsed() reads.
AfterTick(s) ==
    IF s.circuit = "Open" /\ s.elapsed < OpenMs
    THEN [s EXCEPT !.elapsed = @ + 1]
    ELSE s
=============================================================================
