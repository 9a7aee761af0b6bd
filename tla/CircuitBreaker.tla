--------------------------- MODULE CircuitBreaker ---------------------------
(***************************************************************************)
(* What a circuit breaker promises, target by target, in the usual terms:  *)
(* a circuit that has tripped stays open until it has cooled down, is then *)
(* tried with a limited number of probes, and is closed by a success.      *)
(* When exactly it trips, and what else is recorded of a target, is left   *)
(* open.  Resilience is shown to implement this.                           *)
(***************************************************************************)
EXTENDS Naturals

CONSTANTS
    Key,                   \* the targets
    HalfOpenMaxRequests    \* probes after the one that finds a circuit cooled

VARIABLES
    circuit,               \* of each target: "Closed", "Open" or "HalfOpen"
    cooled,                \* the open circuits whose period is over
    probes                 \* of each target: probes granted since half-open

vars == <<circuit, cooled, probes>>

Init ==
    /\ circuit = [k \in Key |-> "Closed"]
    /\ cooled = {}
    /\ probes = [k \in Key |-> 0]

\* Enough failures: from any state, a new period begins.  It may be empty.
Trip(k) ==
    /\ circuit' = [circuit EXCEPT ![k] = "Open"]
    /\ cooled' \in {cooled \ {k}, cooled \union {k}}
    /\ probes' = [probes EXCEPT ![k] = 0]

\* Time passes: some of the open circuits have cooled down.
Cool ==
    /\ cooled \subseteq cooled'
    /\ \A k \in cooled' : k \in Key /\ circuit[k] = "Open"
    /\ UNCHANGED <<circuit, probes>>

\* A cooled circuit is tried.
TryAgain(k) ==
    /\ circuit[k] = "Open"
    /\ k \in cooled
    /\ circuit' = [circuit EXCEPT ![k] = "HalfOpen"]
    /\ cooled' = cooled \ {k}
    /\ probes' = [probes EXCEPT ![k] = 1]

\* One more probe of a half-open circuit.
Probe(k) ==
    /\ circuit[k] = "HalfOpen"
    /\ probes[k] <= HalfOpenMaxRequests
    /\ probes' = [probes EXCEPT ![k] = @ + 1]
    /\ UNCHANGED <<circuit, cooled>>

\* A success, of a probe or of an older request.
Close(k) ==
    /\ circuit' = [circuit EXCEPT ![k] = "Closed"]
    /\ cooled' = cooled \ {k}
    /\ probes' = [probes EXCEPT ![k] = 0]

Next ==
    \/ \E k \in Key : Trip(k) \/ TryAgain(k) \/ Probe(k) \/ Close(k)
    \/ Cool

Spec == Init /\ [][Next]_vars
=============================================================================
