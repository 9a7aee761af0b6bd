-------------------------- MODULE Resilience_proofs --------------------------
(***************************************************************************)
(* Proofs about the runtime registry, for any set of targets and any       *)
(* thresholds.  The argument is per record: each method of the registry    *)
(* maps a well-formed record to a well-formed record (the lemmas), and a   *)
(* step of the registry changes the record of one key, or lets time pass   *)
(* for all of them (the invariance theorem).                               *)
(***************************************************************************)
EXTENDS Resilience, TLAPS

\* What IInv says of one target: its record s and its history count g.
Sound(s, g) ==
    /\ s \in Runtime
    /\ g \in Nat
    /\ s.circuit = "HalfOpen" =>
         g + s.remaining_attempts = HalfOpenMaxRequests + 1
    /\ s.circuit # "Closed" => s.breaker_failures >= BreakerFailureThreshold
    /\ ~s.passive_healthy =>
         \/ s.consecutive_failures >= PassiveFailureThreshold
         \/ s.consecutive_successes < PassiveSuccessThreshold
    /\ s.consecutive_failures = s.breaker_failures
    /\ SafeThresholds /\ s.circuit = "Closed" => s.passive_healthy

\* A saturating counter stays in range, never goes down, and keeps at least
\* any threshold it has reached.
LEMMA SaturatingIncBounds ==
    ASSUME NEW n \in 0..U32Max
    PROVE  /\ SaturatingInc(n) \in 0..U32Max
           /\ SaturatingInc(n) >= n
           /\ SaturatingInc(n) >= 1 \/ U32Max = 0
  BY ThresholdsAreU32 DEF SaturatingInc

\* Giving any of its fields a value of its type keeps a record well-formed.
LEMMA RuntimeUpdate ==
    ASSUME NEW s \in Runtime,
           NEW p \in BOOLEAN, NEW f \in 0..U32Max, NEW w \in 0..U32Max,
           NEW b \in 0..U32Max, NEW c \in Circuit, NEW e \in 0..OpenMs,
           NEW r \in 0..HalfOpenMaxRequests
    PROVE  [s EXCEPT !.consecutive_failures = f,
                     !.consecutive_successes = w,
                     !.breaker_failures = b,
                     !.passive_healthy = p,
                     !.circuit = c,
                     !.elapsed = e,
                     !.remaining_attempts = r] \in Runtime
  <1> DEFINE s1 == [s EXCEPT !.consecutive_failures = f]
             s2 == [s1 EXCEPT !.consecutive_successes = w]
             s3 == [s2 EXCEPT !.breaker_failures = b]
             s4 == [s3 EXCEPT !.passive_healthy = p]
             s5 == [s4 EXCEPT !.circuit = c]
             s6 == [s5 EXCEPT !.elapsed = e]
             s7 == [s6 EXCEPT !.remaining_attempts = r]
  <1>1. s1 \in Runtime BY DEF Runtime
  <1> HIDE DEF s1
  <1>2. s2 \in Runtime BY <1>1 DEF Runtime
  <1> HIDE DEF s2
  <1>3. s3 \in Runtime BY <1>2 DEF Runtime
  <1> HIDE DEF s3
  <1>4. s4 \in Runtime BY <1>3 DEF Runtime
  <1> HIDE DEF s4
  <1>5. s5 \in Runtime BY <1>4 DEF Runtime
  <1> HIDE DEF s5
  <1>6. s6 \in Runtime BY <1>5 DEF Runtime
  <1> HIDE DEF s6
  <1>7. s7 \in Runtime BY <1>6 DEF Runtime
  <1>8. QED BY <1>7 DEF s1, s2, s3, s4, s5, s6

\* IInv is Sound of every target.
LEMMA IInvIsSound ==
    IInv <=> /\ DOMAIN targets = Key /\ targets = [k \in Key |-> targets[k]]
             /\ DOMAIN granted = Key /\ granted = [k \in Key |-> granted[k]]
             /\ \A k \in Key : Sound(targets[k], granted[k])
  BY DEF IInv, TypeOK, HalfOpenBudget, TrippedRemembersFailures,
         PassiveVerdictExplained, FailureCountsAgree, ClosedIsUsable, Sound

\* What a step has to show.
LEMMA StepKeepsIInv ==
    ASSUME targets' = [k \in Key |-> targets'[k]],
           granted' = [k \in Key |-> granted'[k]],
           \A k \in Key : Sound(targets'[k], granted'[k])
    PROVE  IInv'
  BY DEF IInv, TypeOK, HalfOpenBudget, TrippedRemembersFailures,
         PassiveVerdictExplained, FailureCountsAgree, ClosedIsUsable, Sound

\* is_available keeps a record sound; the history count restarts at 1 when
\* the call itself makes the circuit half-open.
LEMMA IsAvailableSound ==
    ASSUME NEW s, NEW g, Sound(s, g)
    PROVE  Sound(AfterIsAvailable(s), GrantsAfter(s, g))
  <1> USE ThresholdsAreU32
  <1> DEFINE t == AfterIsAvailable(s)
  <1>1. CASE s.circuit = "Closed"
    BY <1>1 DEF Sound, AfterIsAvailable, GrantsAfter, Runtime, Circuit
  <1>2. CASE s.circuit = "Open"
    <2>1. CASE Admits(s)
      <3>1. t = [s EXCEPT !.circuit = "HalfOpen",
                          !.elapsed = 0,
                          !.remaining_attempts = HalfOpenMaxRequests]
        BY <1>2, <2>1 DEF AfterIsAvailable
      <3>2. GrantsAfter(s, g) = 1
        BY <1>2, <2>1 DEF GrantsAfter
      <3> HIDE DEF t
      <3>3. t \in Runtime
        <4> DEFINE s1 == [s EXCEPT !.circuit = "HalfOpen"]
                   s2 == [s1 EXCEPT !.elapsed = 0]
        <4>1. s1 \in Runtime BY DEF Sound, Runtime, Circuit
        <4> HIDE DEF s1
        <4>2. s2 \in Runtime BY <4>1 DEF Runtime
        <4> HIDE DEF s2
        <4>3. [s2 EXCEPT !.remaining_attempts = HalfOpenMaxRequests] \in Runtime
          BY <4>2 DEF Runtime
        <4>4. QED BY <3>1, <4>3 DEF s1, s2
      <3>4. /\ t.circuit = "HalfOpen"
            /\ t.remaining_attempts = HalfOpenMaxRequests
            /\ t.breaker_failures = s.breaker_failures
            /\ t.passive_healthy = s.passive_healthy
            /\ t.consecutive_failures = s.consecutive_failures
            /\ t.consecutive_successes = s.consecutive_successes
        BY <3>1 DEF Sound, Runtime
      <3>5. QED BY <1>2, <3>2, <3>3, <3>4 DEF Sound, t
    <2>2. CASE ~Admits(s)
      BY <1>2, <2>2 DEF Sound, AfterIsAvailable, GrantsAfter, Runtime, Circuit
    <2>3. QED BY <2>1, <2>2
  <1>3. CASE s.circuit = "HalfOpen"
    <2>1. CASE Admits(s)
      <3>1. s.remaining_attempts \in 1..HalfOpenMaxRequests
        BY <1>3, <2>1 DEF Sound, Admits, Runtime
      <3>2. QED
        BY <1>3, <2>1, <3>1
           DEF Sound, AfterIsAvailable, GrantsAfter, Runtime, Circuit
    <2>2. CASE ~Admits(s)
      BY <1>3, <2>2 DEF Sound, AfterIsAvailable, GrantsAfter, Runtime, Circuit
    <2>3. QED BY <2>1, <2>2
  <1>4. QED BY <1>1, <1>2, <1>3 DEF Sound, Runtime, Circuit

LEMMA SetActiveHealthSound ==
    ASSUME NEW s, NEW g, Sound(s, g), NEW healthy \in BOOLEAN
    PROVE  Sound(AfterSetActiveHealth(s, healthy), g)
  BY DEF Sound, AfterSetActiveHealth, Runtime

LEMMA SuccessSound ==
    ASSUME NEW s, NEW g, Sound(s, g)
    PROVE  Sound(AfterSuccess(s), g)
  <1> DEFINE n == SaturatingInc(s.consecutive_successes)
             p == IF n >= PassiveSuccessThreshold THEN TRUE
                  ELSE s.passive_healthy
             t == AfterSuccess(s)
  <1>1. /\ s \in Runtime
        /\ 0 \in 0..U32Max /\ 0 \in 0..OpenMs
        /\ 0 \in 0..HalfOpenMaxRequests /\ "Closed" \in Circuit
    BY ThresholdsAreU32 DEF Sound, Circuit
  <1>2. n \in 0..U32Max /\ (n >= 1 \/ U32Max = 0)
    BY <1>1, SaturatingIncBounds DEF Runtime
  <1>3. p \in BOOLEAN
    BY <1>1 DEF Runtime
  <1>4. t = [s EXCEPT !.consecutive_failures = 0,
                      !.consecutive_successes = n,
                      !.breaker_failures = 0,
                      !.passive_healthy = p,
                      !.circuit = "Closed",
                      !.elapsed = 0,
                      !.remaining_attempts = 0]
    BY DEF AfterSuccess
  <1> HIDE DEF n, p, t
  <1>5. t \in Runtime
    BY <1>1, <1>2, <1>3, <1>4, RuntimeUpdate
  <1>6. /\ t.circuit = "Closed"
        /\ t.consecutive_failures = 0
        /\ t.breaker_failures = 0
        /\ t.consecutive_successes = n
        /\ t.passive_healthy = p
    BY <1>1, <1>4 DEF Runtime
  <1>7. n >= PassiveSuccessThreshold => p
    BY DEF p
  <1>8. ~t.passive_healthy => t.consecutive_successes < PassiveSuccessThreshold
    BY <1>2, <1>6, <1>7, ThresholdsAreU32
  <1>9. SafeThresholds => t.passive_healthy
    <2>1. SafeThresholds => n >= PassiveSuccessThreshold
      BY <1>2, ThresholdsAreU32 DEF SafeThresholds
    <2>2. QED BY <2>1, <1>6, <1>7
  <1>10. QED BY <1>5, <1>6, <1>8, <1>9 DEF Sound, t

LEMMA FailureSound ==
    ASSUME NEW s, NEW g, Sound(s, g)
    PROVE  Sound(AfterFailure(s), g)
  <1> DEFINE n == SaturatingInc(s.consecutive_failures)
             b == SaturatingInc(s.breaker_failures)
             trips == b >= BreakerFailureThreshold
             p == IF n >= PassiveFailureThreshold THEN FALSE
                  ELSE s.passive_healthy
             c == IF trips THEN "Open" ELSE s.circuit
             e == IF trips THEN 0 ELSE s.elapsed
             r == IF trips THEN 0 ELSE s.remaining_attempts
             t == AfterFailure(s)
  <1>1. s \in Runtime /\ 0 \in 0..U32Max
    BY ThresholdsAreU32 DEF Sound
  <1>2. /\ n \in 0..U32Max /\ n >= s.consecutive_failures
        /\ b \in 0..U32Max /\ b >= s.breaker_failures
        /\ n = b
    BY <1>1, SaturatingIncBounds DEF Sound, Runtime
  <1> HIDE DEF n, b
  <1>3. p \in BOOLEAN
    BY <1>1 DEF Runtime
  <1>4. c \in Circuit
    BY <1>1 DEF Runtime, Circuit
  <1>5. e \in 0..OpenMs /\ r \in 0..HalfOpenMaxRequests
    BY <1>1, ThresholdsAreU32 DEF Runtime
  <1>6. t = [s EXCEPT !.consecutive_failures = n,
                      !.consecutive_successes = 0,
                      !.breaker_failures = b,
                      !.passive_healthy = p,
                      !.circuit = c,
                      !.elapsed = e,
                      !.remaining_attempts = r]
    BY DEF AfterFailure, n, b
  <1> HIDE DEF trips, p, c, e, r, t
  <1>7. t \in Runtime
    BY <1>1, <1>2, <1>3, <1>4, <1>5, <1>6, RuntimeUpdate
  <1>8. /\ t.consecutive_failures = n
        /\ t.consecutive_successes = 0
        /\ t.breaker_failures = b
        /\ t.passive_healthy = p
        /\ t.circuit = c
        /\ t.remaining_attempts = r
    BY <1>1, <1>6 DEF Runtime
  <1>9. ~t.passive_healthy =>
           \/ t.consecutive_failures >= PassiveFailureThreshold
           \/ t.consecutive_successes < PassiveSuccessThreshold
    <2>1. CASE n >= PassiveFailureThreshold
      BY <1>8, <2>1
    <2>2. CASE ~(n >= PassiveFailureThreshold)
      <3>1. p = s.passive_healthy
        BY <2>2 DEF p
      <3>2. ~s.passive_healthy => 0 < PassiveSuccessThreshold
        BY <1>1, <1>2, <2>2, ThresholdsAreU32 DEF Sound, Runtime
      <3>3. QED BY <1>8, <3>1, <3>2
    <2>3. QED BY <2>1, <2>2
  <1>10. t.circuit # "Closed" => t.breaker_failures >= BreakerFailureThreshold
    BY <1>1, <1>2, <1>8, ThresholdsAreU32 DEF Sound, Runtime, trips, c
  <1>11. t.circuit = "HalfOpen" =>
           g + t.remaining_attempts = HalfOpenMaxRequests + 1
    BY <1>8 DEF Sound, trips, c, r
  <1>12. SafeThresholds /\ t.circuit = "Closed" => t.passive_healthy
    <2> SUFFICES ASSUME SafeThresholds, c = "Closed" PROVE p
      BY <1>8
    <2>1. ~trips /\ s.circuit = "Closed"
      BY DEF c
    <2>2. ~(n >= PassiveFailureThreshold)
      BY <1>2, <2>1, ThresholdsAreU32 DEF trips, SafeThresholds
    <2>3. QED BY <2>1, <2>2 DEF p, Sound
  <1>13. QED BY <1>2, <1>7, <1>8, <1>9, <1>10, <1>11, <1>12 DEF Sound, t

LEMMA TickSound ==
    ASSUME NEW s, NEW g, Sound(s, g)
    PROVE  Sound(AfterTick(s), g)
  BY ThresholdsAreU32 DEF Sound, AfterTick, Runtime, Circuit

-----------------------------------------------------------------------------
\* Every reachable state of the registry satisfies the inductive invariant:
\* whatever tasks call is_available, set_active_health, record_success and
\* record_failure, in whatever order and however late.
THEOREM RegistryInvariant == Spec => []IInv
  <1>1. Init => IInv
    BY ThresholdsAreU32
       DEF Init, IInv, TypeOK, HalfOpenBudget, TrippedRemembersFailures,
           PassiveVerdictExplained, FailureCountsAgree, ClosedIsUsable,
           DefaultRuntime, Runtime, Circuit
  <1>2. IInv /\ [Next]_vars => IInv'
    <2> SUFFICES ASSUME IInv, [Next]_vars PROVE IInv'
      OBVIOUS
    <2>0. TypeOK /\ \A k \in Key : Sound(targets[k], granted[k])
      BY IInvIsSound DEF IInv
    <2>1. ASSUME NEW k \in Key, IsAvailable(k) PROVE IInv'
      <3>1. Sound(targets'[k], granted'[k])
        BY <2>0, <2>1, IsAvailableSound DEF IsAvailable, TypeOK
      <3>2. \A j \in Key \ {k} : /\ targets'[j] = targets[j]
                                /\ granted'[j] = granted[j]
        BY <2>0, <2>1 DEF IsAvailable, TypeOK
      <3>3. QED BY <2>0, <2>1, <3>1, <3>2, StepKeepsIInv DEF IsAvailable, TypeOK
    <2>2. ASSUME NEW k \in Key, NEW healthy \in BOOLEAN,
                 SetActiveHealth(k, healthy)
          PROVE IInv'
      <3>1. Sound(targets'[k], granted'[k])
        BY <2>0, <2>2, SetActiveHealthSound DEF SetActiveHealth, TypeOK
      <3>2. \A j \in Key \ {k} : /\ targets'[j] = targets[j]
                                /\ granted'[j] = granted[j]
        BY <2>0, <2>2 DEF SetActiveHealth, TypeOK
      <3>3. QED BY <2>0, <2>2, <3>1, <3>2, StepKeepsIInv DEF SetActiveHealth, TypeOK
    <2>3. ASSUME NEW k \in Key, RecordSuccess(k) PROVE IInv'
      <3>1. Sound(targets'[k], granted'[k])
        BY <2>0, <2>3, SuccessSound DEF RecordSuccess, TypeOK
      <3>2. \A j \in Key \ {k} : /\ targets'[j] = targets[j]
                                /\ granted'[j] = granted[j]
        BY <2>0, <2>3 DEF RecordSuccess, TypeOK
      <3>3. QED BY <2>0, <2>3, <3>1, <3>2, StepKeepsIInv DEF RecordSuccess, TypeOK
    <2>4. ASSUME NEW k \in Key, RecordFailure(k) PROVE IInv'
      <3>1. Sound(targets'[k], granted'[k])
        BY <2>0, <2>4, FailureSound DEF RecordFailure, TypeOK
      <3>2. \A j \in Key \ {k} : /\ targets'[j] = targets[j]
                                /\ granted'[j] = granted[j]
        BY <2>0, <2>4 DEF RecordFailure, TypeOK
      <3>3. QED BY <2>0, <2>4, <3>1, <3>2, StepKeepsIInv DEF RecordFailure, TypeOK
    <2>5. CASE Tick
      <3>1. \A k \in Key : Sound(targets'[k], granted'[k])
        BY <2>0, <2>5, TickSound DEF Tick
      <3>2. QED BY <2>0, <2>5, <3>1, StepKeepsIInv DEF Tick, TypeOK
    <2>6. CASE UNCHANGED vars
      BY <2>6 DEF vars, IInv, TypeOK, HalfOpenBudget,
             TrippedRemembersFailures, PassiveVerdictExplained,
             FailureCountsAgree, ClosedIsUsable
    <2>7. QED BY <2>1, <2>2, <2>3, <2>4, <2>5, <2>6 DEF Next
  <1>3. QED BY <1>1, <1>2, PTL DEF Spec

\* Type correctness of the registry.
THEOREM TypeCorrect == Spec => []TypeOK
  BY RegistryInvariant, PTL DEF IInv

\* At most half_open_max_requests + 1 calls are granted per half-open period.
THEOREM HalfOpenBudgetHolds == Spec => []HalfOpenBudget
  BY RegistryInvariant, PTL DEF IInv

\* An open or half-open circuit remembers enough failures to trip again.
THEOREM TrippedRemembersFailuresHolds == Spec => []TrippedRemembersFailures
  BY RegistryInvariant, PTL DEF IInv

\* The passive verdict is explained by the outcomes recorded last.
THEOREM PassiveVerdictExplainedHolds == Spec => []PassiveVerdictExplained
  BY RegistryInvariant, PTL DEF IInv

\* With a breaker that trips no later than the passive check, and a passive
\* check that needs one success, a closed circuit always lets requests
\* through: no target is shut out for good.
THEOREM ClosedIsUsableHolds == Spec => []ClosedIsUsable
  BY RegistryInvariant, PTL DEF IInv

\* One failure during a half-open period reopens the circuit, because the
\* breaker's counter is still at its threshold then.
THEOREM HalfOpenFailureReopensHolds == Spec => HalfOpenFailureReopens
  <1> DEFINE A == \A k \in Key :
                    RecordFailure(k) /\ targets[k].circuit = "HalfOpen" =>
                      targets'[k].circuit = "Open" /\ targets'[k].elapsed = 0
  <1>1. IInv /\ [Next]_vars => [A]_vars
    <2> SUFFICES ASSUME IInv, NEW k \in Key, RecordFailure(k),
                        targets[k].circuit = "HalfOpen"
                 PROVE  /\ targets'[k].circuit = "Open"
                        /\ targets'[k].elapsed = 0
      OBVIOUS
    <2>1. /\ targets[k] \in Runtime
          /\ targets[k].breaker_failures >= BreakerFailureThreshold
      BY DEF IInv, TypeOK, TrippedRemembersFailures
    <2>2. /\ SaturatingInc(targets[k].breaker_failures) \in 0..U32Max
          /\ SaturatingInc(targets[k].breaker_failures)
               >= BreakerFailureThreshold
      BY <2>1, SaturatingIncBounds, ThresholdsAreU32 DEF Runtime
    <2>3. targets'[k] = AfterFailure(targets[k])
      BY DEF RecordFailure, IInv, TypeOK
    <2>4. QED BY <2>1, <2>2, <2>3 DEF AfterFailure, Runtime
  <1>2. QED BY <1>1, RegistryInvariant, PTL DEF Spec, HalfOpenFailureReopens

\* The failure counters of the passive check and of the breaker never differ.
THEOREM FailureCountsAgreeHolds == Spec => []FailureCountsAgree
  BY RegistryInvariant, PTL DEF IInv

-----------------------------------------------------------------------------
\* The registry implements the abstract circuit breaker.

\* What a breaker sees of a record s with history count g.
Ripe(s) == s.circuit = "Open" /\ s.elapsed >= OpenMs
Probes(s, g) == IF s.circuit = "HalfOpen" THEN g ELSE 0

\* A step that changes nothing a breaker sees is a stutter of the breaker.
LEMMA BreakerStutters ==
    ASSUME \A k \in Key : /\ targets'[k].circuit = targets[k].circuit
                          /\ Ripe(targets'[k]) <=> Ripe(targets[k])
                          /\ Probes(targets'[k], granted'[k]) = Probes(targets[k], granted[k])
    PROVE  UNCHANGED Breaker!vars
  BY DEF Breaker!vars, Ripe, Probes

\* What is_available does to a circuit.
LEMMA IsAvailableSeen ==
    ASSUME NEW s, NEW g, Sound(s, g)
    PROVE  LET t == AfterIsAvailable(s)  h == GrantsAfter(s, g)
           IN  \/ Ripe(s) /\ t.circuit = "HalfOpen" /\ h = 1
               \/ /\ s.circuit = "HalfOpen" /\ t.circuit = "HalfOpen"
                  /\ g <= HalfOpenMaxRequests /\ h = g + 1
               \/ t = s /\ h = g
  <1>1. s \in Runtime /\ g \in Nat
    BY DEF Sound
  <1>2. CASE Admits(s) /\ s.circuit = "Open"
    BY <1>1, <1>2 DEF Admits, AfterIsAvailable, GrantsAfter, Ripe, Runtime
  <1>3. CASE Admits(s) /\ s.circuit = "HalfOpen"
    <2>1. s.remaining_attempts \in 1..HalfOpenMaxRequests
      BY <1>1, <1>3 DEF Admits, Runtime
    <2>2. g <= HalfOpenMaxRequests
      BY <1>1, <1>3, <2>1, ThresholdsAreU32 DEF Sound
    <2>3. QED BY <1>1, <1>3, <2>2 DEF AfterIsAvailable, GrantsAfter, Runtime
  <1>4. CASE ~(Admits(s) /\ s.circuit \in {"Open", "HalfOpen"})
    BY <1>4 DEF AfterIsAvailable, GrantsAfter
  <1>5. QED BY <1>2, <1>3, <1>4

\* Every target's circuit is a circuit breaker, for any number of targets, any
\* thresholds and any order of calls: late verdicts included, it is tried
\* again only after open_ms, with a bounded number of probes.
THEOREM BreakerImplemented == Spec => BreakerSpec
  <1>1. Init => Breaker!Init
    BY DEF Init, Breaker!Init, DefaultRuntime
  <1>2. IInv /\ [Next]_vars => [Breaker!Next]_(Breaker!vars)
    <2> SUFFICES ASSUME IInv, [Next]_vars
                 PROVE  Breaker!Next \/ UNCHANGED Breaker!vars
      OBVIOUS
    <2>0. TypeOK /\ \A k \in Key : Sound(targets[k], granted[k])
      BY IInvIsSound DEF IInv
    <2>1. ASSUME NEW k \in Key, IsAvailable(k)
          PROVE  Breaker!Next \/ UNCHANGED Breaker!vars
      <3>1. /\ targets'[k] = AfterIsAvailable(targets[k])
            /\ granted'[k] = GrantsAfter(targets[k], granted[k])
            /\ \A j \in Key \ {k} : /\ targets'[j] = targets[j]
                                   /\ granted'[j] = granted[j]
        BY <2>0, <2>1 DEF IsAvailable, TypeOK
      <3>2. CASE /\ Ripe(targets[k])
                 /\ targets'[k].circuit = "HalfOpen" /\ granted'[k] = 1
        <4>1. Breaker!TryAgain(k)
          BY <3>1, <3>2 DEF Breaker!TryAgain, Ripe
        <4>2. QED BY <4>1 DEF Breaker!Next
      <3>3. CASE /\ targets[k].circuit = "HalfOpen" /\ targets'[k].circuit = "HalfOpen"
                 /\ granted[k] <= HalfOpenMaxRequests /\ granted'[k] = granted[k] + 1
        <4>1. Breaker!Probe(k)
          BY <3>1, <3>3 DEF Breaker!Probe
        <4>2. QED BY <4>1 DEF Breaker!Next
      <3>4. CASE targets'[k] = targets[k] /\ granted'[k] = granted[k]
        BY <3>1, <3>4, BreakerStutters
      <3>5. QED BY <2>0, <3>1, <3>2, <3>3, <3>4, IsAvailableSeen
    <2>2. ASSUME NEW k \in Key, NEW healthy \in BOOLEAN, SetActiveHealth(k, healthy)
          PROVE  UNCHANGED Breaker!vars
      <3>1. /\ \A j \in Key \ {k} : targets'[j] = targets[j]
            /\ targets'[k].circuit = targets[k].circuit
            /\ targets'[k].elapsed = targets[k].elapsed
            /\ granted' = granted
        BY <2>0, <2>2 DEF SetActiveHealth, AfterSetActiveHealth, TypeOK, Runtime
      <3>2. QED BY <3>1, BreakerStutters DEF Ripe, Probes
    <2>3. ASSUME NEW k \in Key, RecordSuccess(k)
          PROVE  Breaker!Next
      <3>1. /\ \A j \in Key \ {k} : targets'[j] = targets[j]
            /\ targets'[k].circuit = "Closed"
            /\ granted' = granted
        BY <2>0, <2>3 DEF RecordSuccess, AfterSuccess, TypeOK, Runtime
      <3>2. Breaker!Close(k)
        BY <3>1 DEF Breaker!Close
      <3>3. QED BY <3>2 DEF Breaker!Next
    <2>4. ASSUME NEW k \in Key, RecordFailure(k)
          PROVE  Breaker!Next \/ UNCHANGED Breaker!vars
      <3>1. /\ \A j \in Key \ {k} : targets'[j] = targets[j]
            /\ granted' = granted
            /\ \/ targets'[k].circuit = "Open"
               \/ /\ targets'[k].circuit = targets[k].circuit
                  /\ targets'[k].elapsed = targets[k].elapsed
        BY <2>0, <2>4 DEF RecordFailure, AfterFailure, TypeOK, Runtime
      <3>2. CASE targets'[k].circuit = "Open"
        <4>1. Breaker!Trip(k)
          BY <3>1, <3>2 DEF Breaker!Trip
        <4>2. QED BY <4>1 DEF Breaker!Next
      <3>3. CASE /\ targets'[k].circuit = targets[k].circuit
                 /\ targets'[k].elapsed = targets[k].elapsed
        BY <3>1, <3>3, BreakerStutters DEF Ripe, Probes
      <3>4. QED BY <3>1, <3>2, <3>3
    <2>5. CASE Tick
      <3>1. \A k \in Key : /\ targets'[k].circuit = targets[k].circuit
                           /\ Ripe(targets[k]) => Ripe(targets'[k])
        BY <2>0, <2>5, ThresholdsAreU32 DEF Tick, AfterTick, TypeOK, Runtime, Ripe
      <3>2. granted' = granted
        BY <2>5 DEF Tick
      <3>3. Breaker!Cool
        BY <3>1, <3>2 DEF Breaker!Cool, Ripe
      <3>4. QED BY <3>3 DEF Breaker!Next
    <2>6. CASE UNCHANGED vars
      BY <2>6, BreakerStutters DEF vars
    <2>7. QED BY <2>1, <2>2, <2>3, <2>4, <2>5, <2>6 DEF Next
  <1>3. QED BY <1>1, <1>2, RegistryInvariant, PTL DEF Spec, BreakerSpec, Breaker!Spec
=============================================================================
