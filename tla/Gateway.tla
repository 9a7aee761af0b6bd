------------------------------- MODULE Gateway -------------------------------
(***************************************************************************)
(* The life of a proxied request (proxy_handler, main.rs), many of them at *)
(* once, together with the active health checker of the upstream and the   *)
(* graceful shutdown of the process.                                       *)
(*                                                                         *)
(* Handlers run on a multi-threaded executor, so every access to shared    *)
(* state is a step of its own: the draining flag, the in-flight counter,   *)
(* the request counter, and one registry call per target while pick_target *)
(* filters the targets.  Work on a request's own data between two such     *)
(* accesses belongs to the step that precedes it.                          *)
(*                                                                         *)
(* One upstream is modelled; the registries of two upstreams share         *)
(* nothing.  The verdicts of the gates before the upstream (routing,       *)
(* plugins, authentication, authorisation, rate limiting) and of the       *)
(* response plugins are arbitrary here.                                    *)
(*                                                                         *)
(* Time passes in ticks.  A timer that has run out is served before the    *)
(* next tick, and only waiting is charged to a handler's timeouts: its own *)
(* work between two waits is taken to be short.                            *)
(***************************************************************************)
EXTENDS TargetRuntime, SelectTarget, FiniteSets

CONSTANTS
    Request,            \* requests in progress at the same time
    Method,             \* methods clients use
    Targets,            \* UpstreamConfig.targets: a sequence of UpstreamTarget
    Strategy,           \* UpstreamConfig.strategy
    HashOf,             \* DefaultHasher on the request key of each request
    RetryMaxAttempts,   \* RetryConfig.max_attempts
    IdempotentOnly,     \* RetryConfig.idempotent_only
    RetryUnsafeMethods, \* RetryConfig.retry_unsafe_methods
    BackoffMs,          \* RetryConfig.backoff_ms, in ticks
    ReadTimeout,        \* ProxyConfig.read_timeout_ms, in ticks
    RequestTimeout,     \* ProxyConfig.request_timeout_ms, in ticks
    DrainTimeout,       \* ShutdownConfig.drain_timeout_ms, in ticks
    ActiveChecks,       \* ActiveHealthCheckConfig.enabled
    Answer,             \* what an upstream may answer
    ClientsLeave,       \* whether clients may close their connection early
    RecycleIds,         \* whether an id may serve a second request
    CounterModulus,     \* where request_counter, a usize, wraps
    MetricModulus       \* where the metrics, u64s, wrap

Target == DOMAIN Targets

ASSUME GatewayAssumption ==
    /\ Targets \in Seq(UpstreamTarget) /\ Targets # <<>>
    /\ Strategy \in BalancingStrategy
    /\ HashOf \in [Request -> Nat]
    /\ IsFiniteSet(Request)
    /\ Method \subseteq {"GET", "PUT", "POST"}
    /\ RetryMaxAttempts \in Nat
    /\ {BackoffMs, ReadTimeout, RequestTimeout, DrainTimeout} \subseteq Nat
    /\ {IdempotentOnly, RetryUnsafeMethods, ActiveChecks, ClientsLeave,
        RecycleIds} \subseteq BOOLEAN
    /\ Answer \subseteq {"ok", "429", "5xx", "error"}
    /\ CounterModulus \in Nat \ {0} /\ MetricModulus \in Nat \ {0}

VARIABLES
    targets, granted,   \* the registry of the upstream: see Resilience
    req,                \* per request: the handler's locals and where it waits
    in_flight,          \* AppState.in_flight
    draining,           \* AppState.draining
    request_counter,    \* AppState.request_counter
    metrics,            \* AppState.metrics
    checker,            \* the health checker: the target it waits for, 0 when
                        \* between rounds, -1 once it has ended
    shutdown            \* graceful_shutdown_signal: phase and time spent

registry == <<targets, granted>>
process == <<in_flight, draining, request_counter, metrics, checker, shutdown>>
vars == <<registry, req, process>>

Registry == INSTANCE Resilience WITH Key <- Target

Counter == {"requests", "errors", "unauthorized", "rate_limited",
            "upstream_failures"}

\* Where a handler is.  Of these, the ones in Awaiting are await points.
Place == {"idle", "enter", "gates", "fault", "body", "attempt", "pick",
          "sent", "backoff", "done"}
Awaiting == {"fault", "body", "sent", "backoff"}
InLoop == {"attempt", "pick", "sent", "backoff"}
Guarded == {"gates", "fault", "body"} \union InLoop

\* How a handler may have ended; "none" while it has not.
Outcome == {"none", "draining", "not found", "denied", "limited", "aborted",
            "bad body", "timed out", "retries exhausted", "no target",
            "send failed", "answered", "blocked", "cancelled"}

\* The locals of a handler that outlive a step: where it is, the retry loop's
\* variables, and pick_target's while it filters.  elapsed is the age of
\* started, waited the age of the wait it is in.  Two fields are history: how
\* many of its sends have failed, and the outcome it ended with.
Handler ==
    [ at: Place, method: {"GET", "PUT", "POST"}, attempt: Nat, elapsed: Nat,
      waited: Nat, seed: Nat, next: Nat, available: Seq(Target), target: Target \union {0},
      failures: Nat, outcome: Outcome ]

Idle == [ at |-> "idle", method |-> "GET", attempt |-> 0, elapsed |-> 0,
          waited |-> 0, seed |-> 0, next |-> 0, available |-> <<>>,
          target |-> 0, failures |-> 0, outcome |-> "none" ]

TypeOK ==
    /\ Registry!TypeOK
    /\ req \in [Request -> Handler]
    /\ \A r \in Request : req[r].at = "sent" => req[r].target \in Target
    /\ in_flight \in 0..Cardinality(Request)
    /\ draining \in BOOLEAN
    /\ request_counter \in 0..(CounterModulus - 1)
    /\ metrics \in [Counter -> 0..(MetricModulus - 1)]
    /\ checker \in {-1, 0} \union Target
    /\ shutdown \in [phase: {"running", "draining", "stopped"},
                     elapsed: 0..DrainTimeout]

Init ==
    /\ Registry!Init
    /\ req = [r \in Request |-> Idle]
    /\ in_flight = 0
    /\ draining = FALSE
    /\ request_counter = 0
    /\ metrics = [c \in Counter |-> 0]
    /\ checker = IF ActiveChecks THEN 0 ELSE -1
    /\ shutdown = [phase |-> "running", elapsed |-> 0]

-----------------------------------------------------------------------------
\* Helpers.

\* The metrics after counting each counter in the set cs once.
Counted(cs) ==
    [c \in Counter |-> IF c \in cs THEN (metrics[c] + 1) % MetricModulus
                              ELSE metrics[c]]

\* Mutant: PUT and DELETE count as idempotent whatever the configuration.
ShouldRetryAnyIdempotent(method) ==
    ~IdempotentOnly \/ method \in {"GET", "PUT"}

\* should_retry_method: GET stands for the safe methods, PUT for the unsafe
\* idempotent ones, POST for the rest.
ShouldRetryMethod(method) ==
    \/ ~IdempotentOnly
    \/ method = "GET"
    \/ method = "PUT" /\ RetryUnsafeMethods

\* The attempts the loop makes: at least one.
MaxAttempts(method) ==
    IF ShouldRetryMethod(method) /\ RetryMaxAttempts > 1
    THEN RetryMaxAttempts
    ELSE 1

\* should_retry_status
ShouldRetryStatus(answer) == answer \in {"429", "5xx"}

\* r's handler returns; what it held is dropped with it.  How it fared is kept
\* as history for the properties, unless the id is to be used again.
Returned(r, outcome) ==
    IF RecycleIds THEN [Idle EXCEPT !.at = "done"]
    ELSE [Idle EXCEPT !.at = "done",
                      !.method = req[r].method,
                      !.attempt = req[r].attempt,
                      !.elapsed = req[r].elapsed,
                      !.failures = req[r].failures,
                      !.outcome = outcome]

\* Mutant: an explicit decrement on top of the guard's own.
ReturnDropsTwice(r, outcome, counters) ==
    /\ req' = [req EXCEPT ![r] = Returned(r, outcome)]
    /\ in_flight' = in_flight - 2
    /\ metrics' = Counted(counters)

\* A return from inside the guard: the response, the counters counted on the
\* way and the drop of InFlightGuard.
Return(r, outcome, counters) ==
    /\ req' = [req EXCEPT ![r] = Returned(r, outcome)]
    /\ in_flight' = in_flight - 1
    /\ metrics' = Counted(counters)

-----------------------------------------------------------------------------
\* The handler.

\* The request is counted and reads the draining flag (main.rs:220-224).  The
\* listener accepts connections until the shutdown future completes.
Arrive(r, method) ==
    /\ shutdown.phase # "stopped"
    /\ req[r].at = "idle" \/ (RecycleIds /\ req[r].at = "done")
    /\ metrics' = Counted({"requests"})
    /\ req' = [req EXCEPT ![r] =
                 IF draining
                 THEN [Idle EXCEPT !.at = "done", !.method = method,
                                   !.outcome = "draining"]
                 ELSE [Idle EXCEPT !.at = "enter", !.method = method]]
    /\ UNCHANGED <<registry, in_flight, draining, request_counter, checker,
                   shutdown>>

\* InFlightGuard::new
Enter(r) ==
    /\ req[r].at = "enter"
    /\ req' = [req EXCEPT ![r].at = "gates"]
    /\ in_flight' = in_flight + 1
    /\ UNCHANGED <<registry, draining, request_counter, metrics, checker,
                   shutdown>>

\* Route matching, access plugins, authentication, authorisation and rate
\* limiting: each may answer the request, counting it or not.
Gate(r) ==
    /\ req[r].at = "gates"
    /\ \/ /\ req' = [req EXCEPT ![r].at = "fault"]
          /\ UNCHANGED <<in_flight, metrics>>
       \/ Return(r, "not found", {})
       \/ Return(r, "denied", {"unauthorized"})
       \/ Return(r, "limited", {"rate_limited"})
    /\ UNCHANGED <<registry, draining, request_counter, checker, shutdown>>

\* maybe_apply_fault_injection, and looking the upstream up.  The lookup does
\* not fail: GatewayConfig::validate has seen that every upstream a route
\* names exists, and the registries are built from the same list.
Fault(r) ==
    /\ req[r].at = "fault"
    /\ \/ /\ req' = [req EXCEPT ![r].at = "body"]
          /\ UNCHANGED <<in_flight, metrics>>
       \/ Return(r, "aborted", {})
    /\ UNCHANGED <<registry, draining, request_counter, checker, shutdown>>

\* to_bytes; the clock of the overall timeout starts when it has succeeded.
ReadBody(r) ==
    /\ req[r].at = "body"
    /\ \/ /\ req' = [req EXCEPT ![r].at = "attempt", ![r].attempt = 1]
          /\ UNCHANGED <<in_flight, metrics>>
       \/ Return(r, "bad body", {"errors"})
    /\ UNCHANGED <<registry, draining, request_counter, checker, shutdown>>

\* Mutant: the overall timeout is only looked at before the first attempt.
StartAttemptNoTimeout(r) ==
    /\ req[r].at = "attempt"
    /\ request_counter' = (request_counter + 1) % CounterModulus
    /\ req' = [req EXCEPT ![r] = [@ EXCEPT !.at = "pick",
                                           !.seed = request_counter,
                                           !.next = 1]]
    /\ UNCHANGED <<registry, in_flight, draining, metrics, checker, shutdown>>

\* The head of the retry loop (main.rs:336-342), and the code after the loop
\* (main.rs:422-425).
StartAttempt(r) ==
    /\ req[r].at = "attempt"
    /\ CASE req[r].attempt > MaxAttempts(req[r].method) ->
              /\ Return(r, "retries exhausted", {})
              /\ UNCHANGED request_counter
         [] req[r].attempt <= MaxAttempts(req[r].method)
            /\ req[r].elapsed >= RequestTimeout ->
              /\ Return(r, "timed out", {"upstream_failures"})
              /\ UNCHANGED request_counter
         [] OTHER ->
              /\ request_counter' = (request_counter + 1) % CounterModulus
              /\ req' = [req EXCEPT ![r] = [@ EXCEPT !.at = "pick",
                                                     !.seed = request_counter,
                                                     !.next = 1]]
              /\ UNCHANGED <<in_flight, metrics>>
    /\ UNCHANGED <<registry, draining, checker, shutdown>>

\* Mutant: a target that is not available is asked again and again.
FilterStuck(r) ==
    /\ req[r].at = "pick"
    /\ req[r].next \in Target
    /\ LET t == req[r].next
       IN  /\ Registry!IsAvailable(t)
           /\ req' = IF Admits(targets[t])
                     THEN [req EXCEPT ![r].next = t + 1,
                                      ![r].available = Append(@, t)]
                     ELSE req
    /\ UNCHANGED process

\* pick_target, first half: one is_available call per target, in order.
Filter(r) ==
    /\ req[r].at = "pick"
    /\ req[r].next \in Target
    /\ LET t == req[r].next
       IN  /\ Registry!IsAvailable(t)
           /\ req' = [req EXCEPT ![r] =
                [@ EXCEPT !.next = t + 1,
                          !.available = IF Admits(targets[t])
                                        THEN Append(req[r].available, t)
                                        ELSE req[r].available]]
    /\ UNCHANGED process

\* pick_target, second half: select_target among the available ones, and the
\* request is sent.
Select(r) ==
    /\ req[r].at = "pick"
    /\ req[r].next \notin Target
    /\ LET list   == [i \in DOMAIN req[r].available |->
                         Targets[req[r].available[i]]]
           chosen == SelectTarget(Strategy, list, HashOf[r], req[r].seed)
       IN  \/ /\ chosen = None
              /\ Return(r, "no target", {"errors"})
           \/ /\ chosen # None
              /\ req' = [req EXCEPT ![r] =
                   [@ EXCEPT !.at = "sent", !.seed = 0, !.next = 0,
                             !.available = <<>>, !.waited = 0,
                             !.target = req[r].available[chosen]]]
              /\ UNCHANGED <<in_flight, metrics>>
    /\ UNCHANGED <<registry, draining, request_counter, checker, shutdown>>

\* The history of r after a send of its that failed.
OneMoreFailure(r) == IF RecycleIds THEN 0 ELSE req[r].failures + 1

\* r goes to sleep before its next attempt; failures of its sends have failed.
SleepBeforeRetry(r, failures) ==
    /\ req' = [req EXCEPT ![r] = [@ EXCEPT !.at = "backoff", !.target = 0,
                                           !.waited = 0,
                                           !.failures = failures]]
    /\ UNCHANGED in_flight

\* Mutant: the last attempt may be repeated.
CanRetryOffByOne(r) == req[r].attempt <= MaxAttempts(req[r].method)

CanRetry(r) == req[r].attempt < MaxAttempts(req[r].method)

\* r gives up: its last send has failed too.
GiveUp(r, failures) ==
    /\ LET h == Returned(r, "send failed")
       IN  req' = [req EXCEPT ![r] = [h EXCEPT !.failures = failures]]
    /\ in_flight' = in_flight - 1

\* Mutant: one breaker for the whole upstream.
SendFailedForAll(r) ==
    /\ targets' = [t \in Target |-> AfterFailure(targets[t])]
    /\ UNCHANGED granted
    /\ metrics' = Counted({"upstream_failures"})
    /\ LET failures == OneMoreFailure(r)
       IN  \/ CanRetry(r) /\ SleepBeforeRetry(r, failures)
           \/ ~CanRetry(r) /\ GiveUp(r, failures)

\* Mutant: a failed send is counted only when it is the last.
SendFailedCountsLast(r) ==
    /\ Registry!RecordFailure(req[r].target)
    /\ LET failures == OneMoreFailure(r)
       IN  \/ /\ CanRetry(r) /\ SleepBeforeRetry(r, failures)
              /\ UNCHANGED metrics
           \/ /\ ~CanRetry(r) /\ GiveUp(r, failures)
              /\ metrics' = Counted({"upstream_failures"})

\* Mutant: a send that failed on the last attempt is not held against the
\* target.
SendFailedForgetsLast(r) ==
    /\ metrics' = Counted({"upstream_failures"})
    /\ LET failures == OneMoreFailure(r)
       IN  \/ /\ CanRetry(r) /\ SleepBeforeRetry(r, failures)
              /\ Registry!RecordFailure(req[r].target)
           \/ /\ ~CanRetry(r) /\ GiveUp(r, failures)
              /\ UNCHANGED registry

\* send() failed: no connection, or read_timeout_ms ran out.
SendFailed(r) ==
    /\ Registry!RecordFailure(req[r].target)
    /\ metrics' = Counted({"upstream_failures"})
    /\ LET failures == OneMoreFailure(r)
       IN  \/ CanRetry(r) /\ SleepBeforeRetry(r, failures)
           \/ ~CanRetry(r) /\ GiveUp(r, failures)

\* The upstream answered with a status.  A status that is passed on goes
\* through the response plugins, which may replace it.
StatusReceived(r, answer) ==
    \/ /\ ShouldRetryStatus(answer) /\ CanRetry(r)
       /\ Registry!RecordFailure(req[r].target)
       /\ SleepBeforeRetry(r, req[r].failures)
       /\ UNCHANGED metrics
    \/ /\ ~(ShouldRetryStatus(answer) /\ CanRetry(r))
       /\ IF answer = "5xx" THEN Registry!RecordFailure(req[r].target)
                            ELSE Registry!RecordSuccess(req[r].target)
       /\ \E outcome \in {"answered", "blocked"} : Return(r, outcome, {})

\* send().await returned (main.rs:364-419).
Receive(r, answer) ==
    /\ req[r].at = "sent"
    /\ \/ answer = "error" /\ SendFailed(r)
       \/ answer # "error" /\ StatusReceived(r, answer)
    /\ UNCHANGED <<draining, request_counter, checker, shutdown>>

\* sleep(backoff_ms).await returned.
Wake(r) ==
    /\ req[r].at = "backoff"
    /\ req[r].waited = BackoffMs
    /\ req' = [req EXCEPT ![r] = [@ EXCEPT !.at = "attempt", !.waited = 0,
                                           !.attempt = req[r].attempt + 1]]
    /\ UNCHANGED <<registry, process>>

\* Mutant: a handler dropped while the upstream works on its request does not
\* give its place back.
LeaveKeepsGuard(r) ==
    /\ ClientsLeave
    /\ req[r].at \in Awaiting
    /\ req' = [req EXCEPT ![r] = Returned(r, "cancelled")]
    /\ in_flight' = IF req[r].at = "sent" THEN in_flight ELSE in_flight - 1
    /\ UNCHANGED <<registry, draining, request_counter, metrics, checker,
                   shutdown>>

\* The client closes its connection: the server drops the handler's future
\* at the await where it is, and with it only the guard.
Leave(r) ==
    /\ ClientsLeave
    /\ req[r].at \in Awaiting
    /\ Return(r, "cancelled", {})
    /\ UNCHANGED <<registry, draining, request_counter, checker, shutdown>>

-----------------------------------------------------------------------------
\* The other tasks.

\* The checker's interval fires: a new round, unless the gateway drains.
CheckerTick ==
    /\ checker = 0
    /\ checker' = IF draining THEN -1 ELSE 1
    /\ UNCHANGED <<registry, req, in_flight, draining, request_counter,
                   metrics, shutdown>>

\* The answer to the checker's GET of one target, and on to the next one.
\* Each answer decides by itself: nothing counts them.
CheckerResult(healthy) ==
    /\ checker \in Target
    /\ Registry!SetActiveHealth(checker, healthy)
    /\ checker' = IF checker + 1 \in Target THEN checker + 1 ELSE 0
    /\ UNCHANGED <<req, in_flight, draining, request_counter, metrics, shutdown>>

\* ctrl_c() returned.
CtrlC ==
    /\ shutdown.phase = "running"
    /\ draining' = TRUE
    /\ shutdown' = [phase |-> "draining", elapsed |-> 0]
    /\ UNCHANGED <<registry, req, in_flight, request_counter, metrics, checker>>

\* The signal handler cannot be installed, which shows when the server
\* starts: the shutdown future completes without draining anything.
CtrlCUnavailable ==
    /\ shutdown.phase = "running"
    /\ \A r \in Request : req[r].at = "idle"
    /\ shutdown' = [shutdown EXCEPT !.phase = "stopped"]
    /\ UNCHANGED <<registry, req, in_flight, draining, request_counter, metrics,
                   checker>>

\* Mutant: the drain loop waits for the requests however long they take.
DrainPollNoDeadline ==
    /\ shutdown.phase = "draining"
    /\ in_flight = 0
    /\ shutdown' = [shutdown EXCEPT !.phase = "stopped"]
    /\ UNCHANGED <<registry, req, in_flight, draining, request_counter, metrics,
                   checker>>

\* Mutant: the last request is not waited for.
DrainPollEarly ==
    /\ shutdown.phase = "draining"
    /\ in_flight <= 1 \/ shutdown.elapsed >= DrainTimeout
    /\ shutdown' = [shutdown EXCEPT !.phase = "stopped"]
    /\ UNCHANGED <<registry, req, in_flight, draining, request_counter, metrics,
                   checker>>

\* The drain loop finds its condition false and the shutdown future completes.
DrainPoll ==
    /\ shutdown.phase = "draining"
    /\ in_flight = 0 \/ shutdown.elapsed >= DrainTimeout
    /\ shutdown' = [shutdown EXCEPT !.phase = "stopped"]
    /\ UNCHANGED <<registry, req, in_flight, draining, request_counter, metrics,
                   checker>>

\* No timer of a handler has run out.
TimersPending ==
    \A r \in Request :
        /\ req[r].at = "sent" => req[r].waited < ReadTimeout
        /\ req[r].at = "backoff" => req[r].waited < BackoffMs

Tick ==
    /\ TimersPending
    /\ Registry!Tick
    /\ req' = [r \in Request |->
                 IF req[r].at \in {"sent", "backoff"}
                 THEN [req[r] EXCEPT !.elapsed = @ + 1, !.waited = @ + 1]
                 ELSE req[r]]
    /\ shutdown' = [shutdown EXCEPT !.elapsed =
                      IF shutdown.phase = "draining" /\ @ < DrainTimeout
                      THEN @ + 1 ELSE @]
    /\ UNCHANGED <<in_flight, draining, request_counter, metrics, checker>>

-----------------------------------------------------------------------------
\* The steps a handler takes by itself once it is past the client's body.
Proceed(r) ==
    \/ StartAttempt(r) \/ Filter(r) \/ Select(r) \/ Wake(r)
    \/ \E answer \in Answer : Receive(r, answer)

Next ==
    \/ \E r \in Request, method \in Method : Arrive(r, method)
    \/ \E r \in Request : Enter(r)
    \/ \E r \in Request : Gate(r)
    \/ \E r \in Request : Fault(r)
    \/ \E r \in Request : ReadBody(r)
    \/ \E r \in Request : StartAttempt(r)
    \/ \E r \in Request : Filter(r)
    \/ \E r \in Request : Select(r)
    \/ \E r \in Request, answer \in Answer : Receive(r, answer)
    \/ \E r \in Request : Wake(r)
    \/ \E r \in Request : Leave(r)
    \/ CheckerTick
    \/ \E healthy \in BOOLEAN : CheckerResult(healthy)
    \/ CtrlC
    \/ CtrlCUnavailable
    \/ DrainPoll
    \/ Tick

Spec == Init /\ [][Next]_vars

\* The executor runs every task that can run; an upstream that does not
\* answer is cut off by read_timeout_ms; time goes on; clients owe nothing.
Fairness ==
    /\ \A r \in Request : WF_vars(Enter(r)) /\ WF_vars(Gate(r))
    /\ \A r \in Request : WF_vars(Fault(r)) /\ WF_vars(Proceed(r))
    /\ WF_vars(CheckerTick)
    /\ WF_vars(\E healthy \in BOOLEAN : CheckerResult(healthy))
    /\ WF_vars(DrainPoll)
    /\ SF_vars(Tick)

LiveSpec == Spec /\ Fairness

-----------------------------------------------------------------------------
\* Correctness.

\* The in-flight counter the drain loop polls is exactly the number of
\* handlers that hold a guard, whichever way the others have ended: a return
\* from any place, or a drop at an await (InFlightGuard, main.rs:55-70).
InFlightExact ==
    in_flight = Cardinality({r \in Request : req[r].at \in Guarded})

\* What the verdicts on the attempts sent to a target have left in its record.
PassiveView(s) == <<s.consecutive_failures, s.consecutive_successes,
                    s.breaker_failures, s.passive_healthy>>

\* Every attempt is answered for once, to the target it was sent to, in the
\* step in which its answer is taken: a failed or repeated attempt as one
\* failure, an answer that is passed on as one success or one failure, and an
\* attempt cut short by a client that leaves as nothing.  No other step, of
\* the same handler, another one, the checker or the clock, passes for a
\* verdict on a target (main.rs:364-392; is_available and set_active_health,
\* resilience.rs).
OneVerdictPerAttempt ==
    [][\A t \in Target :
         LET ending == {r \in Request : /\ req[r].at = "sent"
                                       /\ req[r].target = t
                                       /\ req'[r].at # "sent"}
         IN  /\ \A r \in ending :
                  /\ \/ req'[r].at = "backoff"
                     \/ req'[r].outcome = "send failed"
                     => targets'[t] = AfterFailure(targets[t])
                  /\ req'[r].outcome \in {"answered", "blocked"}
                     => targets'[t] \in {AfterSuccess(targets[t]),
                                        AfterFailure(targets[t])}
                  /\ req'[r].outcome = "cancelled"
                     => targets'[t] = targets[t]
             /\ ending = {}
                => PassiveView(targets'[t]) = PassiveView(targets[t])]_vars

\* A request whose method must not be repeated reaches an upstream at most
\* once (README.md:19 "bounded retries for idempotent requests").
UnsafeSentOnce ==
    \A r \in Request :
        /\ IdempotentOnly
        /\ \/ req[r].method = "POST"
           \/ req[r].method = "PUT" /\ ~RetryUnsafeMethods
        => req[r].attempt <= 1

\* The code after the retry loop cannot be reached (main.rs:422-425): every
\* attempt returns or leaves another one to be made.
LoopReturns ==
    \A r \in Request : req[r].outcome # "retries exhausted"

\* How far a request can overrun request_timeout_ms: the timeout is looked
\* at before an attempt only, so an attempt that starts just in time, and the
\* backoff after it, come on top (main.rs:336-340,364,373).
BoundedOverrun ==
    \A r \in Request :
        \/ req[r].elapsed = 0
        \/ req[r].elapsed < RequestTimeout + ReadTimeout + BackoffMs

\* The metrics say what happened, up to the width of a counter: every request
\* is counted as one, a request the gateway itself turns down or fails is
\* counted once more, in the counter that names the reason, and
\* upstream_failures is the number of sends that failed plus the number of
\* requests that ran out of time (main.rs, every early return; :338, :369).
CountersExplained ==
    LET ended(outcomes) == {r \in Request : req[r].outcome \in outcomes}
        failed == UNION {{r} \X (1..req[r].failures) : r \in Request}
        shows(counter, n) == metrics[counter] = n % MetricModulus
    IN  /\ shows("requests", Cardinality({r \in Request : req[r].at # "idle"}))
        /\ shows("errors", Cardinality(ended({"bad body", "no target"})))
        /\ shows("unauthorized", Cardinality(ended({"denied"})))
        /\ shows("rate_limited", Cardinality(ended({"limited"})))
        /\ shows("upstream_failures",
                 Cardinality(failed) + Cardinality(ended({"timed out"})))

\* Every call a handler or the checker makes on the registry is one of the
\* registry's operations, on one target at a time.
RegistrySpec == Registry!Spec

\* A drain that ends before its deadline leaves no request behind but those
\* that have read the draining flag and are not counted yet: between the two
\* steps the drain loop cannot see them (main.rs:222-226,652-655).
DrainLeavesOnlyEntering ==
    [][/\ shutdown.phase = "draining" /\ shutdown'.phase = "stopped"
       /\ shutdown.elapsed < DrainTimeout
       => \A r \in Request : req[r].at \in {"idle", "enter", "done"}]_vars

\* A request that has reached the retry loop gets its response, whatever the
\* upstream does.
RequestsEnd ==
    \A r \in Request : req[r].at \in InLoop ~> req[r].at = "done"

\* The drain loop ends even while a client that never finishes its body keeps
\* a handler in flight (main.rs:652-655).
DrainEnds ==
    shutdown.phase = "draining" ~> shutdown.phase = "stopped"

\* If from some time on every answer is good and every health check passes,
\* and requests keep arriving, each target is available again and again: its
\* circuit closes (the test circuit_opens_and_recovers, resilience.rs:175).
TargetRecovers ==
    \A t \in Target :
        /\ <>[][/\ \A r \in Request, answer \in Answer \ {"ok"} :
                     ~Receive(r, answer)
                /\ ~CheckerResult(FALSE)]_vars
        /\ []<>(\E r \in Request : req[r].at = "pick")
        => []<>Admits(targets[t])
=============================================================================
