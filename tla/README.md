# TLA+ models of the Rust gateway core

This directory holds TLA+ specifications of the gateway in `gateway-core-rust/`,
the TLC configurations that check them on small instances, and TLAPS proofs of
the properties that carry the rest. File names and line numbers below refer to
`gateway-core-rust/src/` unless another path is given.

## 1. Inventory

### The Rust gateway core

| Component | State | Operations | Used by |
|---|---|---|---|
| Target runtime registry (`resilience.rs`) | one record per target behind a mutex: active and passive health, three counters, circuit | `is_available` (answers and changes state), `set_active_health`, `record_success`, `record_failure` | request handlers, health checker |
| Load balancer (`balancer.rs`) | none; the seed is the shared request counter | `select_target`: round-robin, least-connections, hash, all weighted | `pick_target` in `main.rs` |
| Request path (`main.rs`) | `in_flight`, `draining`, `request_counter`, metrics; one future per request | `proxy_handler`: gates, fault injection, body, retry loop, response | clients, everything below |
| Health checker (`main.rs:157`) | none of its own | one task per upstream, a GET per target per round | registry |
| Shutdown (`main.rs:644`) | `draining`, a deadline | wait for ctrl-c, set the flag, poll `in_flight` | HTTP server |
| Rate limiter (`rate_limit.rs`) | one `LimitState` per scope and value behind a mutex | `check_with_context` | request path |
| Plugin manager (`plugin.rs`, `wasm_abi.rs`) | list of plugins, immutable once loaded | `from_config`, `register`, `run_phase`, `rollback_lifecycle`, `Drop` | `main`, request path |
| Metrics (`observability.rs`) | five counters | `inc_*`, rendering | request path |
| Configuration (`config.rs`) | immutable after `validate` | `load_from_path`, `validate` | `main` |
| Router (`router.rs`), traffic split, transformations (`main.rs:428-600`) | none | `match_route`, `select_upstream_name`, header and path rewriting | request path |
| Security (`security.rs`) | none | `authenticate`, `authorize` | request path |

How they interact: `main` validates the configuration, loads the plugins, builds
one registry per upstream, starts the health checkers and serves. Every request
runs `proxy_handler` on a multi-threaded executor. The handlers share the
registries, the limiter, the counters and the draining flag, each behind its own
mutex or atomic, and nothing makes two accesses atomic together. The server drops
a handler's future at the await where it is when the client goes away.

What is hard to get right, and where the models look:

* *Interleaving and atomicity*: the filter of `pick_target` is one critical
  section per target; the draining flag and the in-flight counter are separate;
  the limiter reads the clock before it takes its lock.
* *Late results*: the verdict on an attempt reaches the registry long after
  `is_available` granted it, when the circuit may have moved on.
* *Cancellation*: a dropped handler gives back its in-flight guard and nothing
  else.
* *Timeouts and retries*: three timeouts and a backoff, checked in different
  places.
* *Boundaries*: saturating `u32` counters, a wrapping sum of weights, quotas and
  windows used up by several threads at once.
* *Order of configuration*: which route, which authentication mode and which
  header transformation wins when several apply, and what a further binding or
  mode changes for the callers there are.
* *Partial failure*: a plugin list that fails to load half way; a rule that
  refuses what an earlier rule has accepted.

`PROJECT.json` lists each hazard with its line and the properties aimed at it.

### Kong itself

The rest of the repository is the Lua gateway in `kong/`. The parts with protocol
state of their own are the batching queue (`kong/tools/queue.lua`), cluster
events (`kong/cluster_events`), hybrid mode (`kong/clustering`), the multi-level
cache (`kong/resty/mlcache`, `kong/cache`), the rebuild logic of the run loop
(`kong/runloop/handler.lua`) and the synchronised counters of the rate-limiting
plugin. None is modelled yet; see the plan. The balancer's health checker and
the expression router live in external libraries, and the database layer, the
Admin API, the PDK, the CLI and the other plugins are data conversion and I/O.

## 2. Modules

```
CircuitBreaker (abstract) <- - - - - implemented by
                                          |
TargetRuntime --- Resilience --- MCResilience
      |              |     \---- Resilience_proofs
      |              | implemented by              \ INSTANCE
SelectTarget --- Gateway (INSTANCE Resilience) --- Gateway_proofs
      |   |          \---- MCGateway               /
      |   \---- SelectTarget_proofs --------------/
      |
Security, Routing --- Admission (INSTANCE RateLimiter) --- MCAdmission
                         |    \---- Admission_proofs --- Forwarding_proofs
                         | implements                     / INSTANCE
                      RateLimiter --- RateLimiter_proofs /
                              \---- MCRateLimiter
PluginManager --- MCPluginManager
          \---- PluginManager_proofs
NatExtrema: least and greatest elements of sets of naturals, for the proofs
```

**TargetRuntime** holds the record of one target and, for each registry method,
the function from record to record the method computes. `CircuitState` is
flattened: `elapsed` is the age of `opened_at`, cut off at `OpenMs` because the
code only asks whether `open_ms` have passed; `remaining_attempts` is the payload
of `HalfOpen`. A key that is not in the map is the default record, since every
method starts with `entry(key).or_default()`.

**Resilience** is `RuntimeRegistry`: one action per method, in any order, by any
task. `granted` is a history variable that counts the calls granted since a
circuit became half-open.

**CircuitBreaker** is what Resilience promises of each target, without counters,
thresholds or health: a circuit trips, cools down, is tried again with a limited
number of probes, and closes. Resilience implements it under the mapping in its
`Breaker` instance.

**SelectTarget** is `select_target` as operators, with `u32` arithmetic.

**Security** is `authenticate` and `authorize`. A name is the sequence of its
words, because `split_claim_values` splits claims at white space and bindings are
not split. What `jsonwebtoken::decode` says of a token is part of the request: the
set of modes whose secret, issuer and audience it is good for.

**Routing** has the pure parts of `proxy_handler` (protocol, route, canary, fault,
path, headers) and `GatewayConfig::validate`. `DefaultHasher` is the constant
function `Hash`; headers are functions from names to sequences of values.

**Admission** is the first half of `proxy_handler`: a request comes, passes the
gates (`Arrive`), the limiter (`LimiterBegin`, `LimiterDecide`, or `LimiterOff`),
reads the request counter and may sleep or be aborted by a fault (`LoadCounter`,
`Wake`), and is sent (`Attempt`), again after a failure (`Retry`), until it is
answered or fails. The shared state is the request counter and the limiter, and
every access to it is a step. A *scenario* is a configuration with the requests
and responses that occur under it; `Init` serves only what `Validate` accepts.
All targets are available here: availability is Gateway's.

**Gateway** is the request path with the checker and the shutdown. A handler is a
record of its locals. Every access to shared state is a step: reading the
draining flag (`Arrive`), incrementing `in_flight` (`Enter`), the head of the
retry loop with its `fetch_add` (`StartAttempt`), one `is_available` per target
(`Filter`), the choice and the send (`Select`), the result of the send with its
verdict (`Receive`), waking from the backoff (`Wake`). `Leave` drops the future
at an await. The registry is an instance of Resilience over the same variables.
What the gates before the upstream and the response plugins say is arbitrary, so
every early return happens. The lookup of the upstream has no arm here: that it
cannot fail in a validated configuration is `UpstreamFound` of Admission.

**RateLimiter** splits `check_with_context` at the lock into `Sample` and
`Check`. The three policies are functions from state to verdict and state;
`Staged` and `Committed` are the two loops over the rules. The configuration is a
variable chosen once from `Configs`, so that one run covers the three policies,
with and without scoped rules; in Admission it is the gateway's configuration.
`log` and `regress` are history: what was
admitted when, for each key, and by how much late threads have set `last_refill` back. A token bucket counts
in fractions of a token (1/window) so that its arithmetic is exact; the code's
`f64` rounding is not modelled.

**PluginManager** loads a list of plugins one step at a time, runs phases for
requests, and is dropped. The three ways in which `from_config` fails are three
disjuncts, because they clean up differently: two call `rollback_lifecycle` and
then meet `Drop`, one meets only `Drop`. `FailingInit` names plugins with an
`init` of their own that fails; a `DeclaredPlugin` keeps the trait's default,
which succeeds.

Definitions named in a comment that starts with "Mutant:" are deliberately wrong
variants of the definition that follows; they are not used by any specification
and show that the properties can fail.

## 3. Runs

A run's cfg and module are in `PROJECT.json`. Passing runs:

| Run | What it shows |
|---|---|
| `registry` | `HalfOpenBudget`: grants and attempts left in a half-open period always add up to `half_open_max_requests + 1`. `TrippedRemembersFailures`: a circuit that is not closed has enough failures on record that one more reopens it, also at the saturation point. `ClosedIsUsable`: with `breaker.failure_threshold <= passive.failure_threshold` and `success_threshold <= 1`, the thresholds of this run, a closed circuit is usable, so no target is locked out by the passive check. `PassiveVerdictExplained`, `FailureCountsAgree`, `HalfOpenFailureReopens`. `BreakerSpec`: every behaviour is one of the abstract circuit breaker. |
| `admission` | *Where requests go*: `UpstreamFound` (never to an upstream or target that is not there, also after a fault's sleep), `RouteMostSpecific`, `SharesExact` (canary and fault percentages at 0, 100 and between), `WeightedShare` (each full round gives each target its weight, for every list of up to three weights). *Who gets in*: `AccessExplained` (by one credential alone), `BindingsMonotone` (what one more binding does to access), `LaterModeNoEffect`, `RefusedForOwnRequests` (a named consumer pays for nobody else). *What is seen*: `RewriteReversible`, `HeadersExplained`. And `LimiterSpec`: the handlers change the limiter only by its own steps, clock and check, so that what holds of the limiter holds for them. |
| `gateway` | `InFlightExact`; `OneVerdictPerAttempt`: the step that ends an attempt changes the registry's record of its target by one success or failure, or by nothing when the client left, and no other step looks like a verdict; `UnsafeSentOnce`, `LoopReturns`, `BoundedOverrun` (how far past `request_timeout_ms` the retry loop can get); `CountersExplained`: all five metrics, failed sends included, up to a wrap that happens in this run; `DrainLeavesOnlyEntering`: a drain loop that ends before its deadline leaves no request behind but one that has read the draining flag and not yet taken its guard; and `RegistrySpec`: the composed system implements the registry's own specification. |
| `gateway_live` | `RequestsEnd` and `DrainEnds`; and `TargetRecovers`: with safe thresholds, one target and no cancellations, a target whose upstream is well again becomes available again. |
| `limiter` | `WindowsKept`: sliding and fixed windows are kept up to the delay between clock and lock; `TokenBucketKept`: a token bucket admits no more than a full bucket and the refill since, plus exactly the time by which late threads have set `last_refill` back; `QuotaExact`: quotas are exact, across threads and when another rule refuses. `RefusalExplained`: whoever is refused has a rule used up, lately and under its own values. `EntriesEarned`: a refused request leaves no entry in the map. |
| `plugins` | `TornDownOnce`, `ServesAllConfigured`; `HandlerRunsPipeline`: the phases of a request are those of the pipeline, and of those behind the gates it is blocked by a denial before the log phase and by nothing else. |

Runs that end in a violation, each stating something the repository says of
itself (the quotations are in `PROJECT.json`):

| Run | What the counterexample shows |
|---|---|
| `passive_trap` | Passive threshold reached before the breaker's: circuit closed, `passive_healthy` false, no request ever again. The default thresholds (3 and 5) are of this kind. |
| `probe_leak` | Two targets: filtering takes the half-open attempt of the one that is then not chosen. It stays half-open with no attempts. |
| `least_connections` | Two equal targets: the first gets everything. |
| `fault_stuck` | A client whose request was aborted by a fault draws the same bucket again: the counter is advanced only by requests that get past the fault. Alone on the gateway, it is aborted for ever by a fault of 50 percent. |
| `limiter_race` | A late thread moves `last_refill` back and a stretch of time is refilled twice. |
| `limiter_same_scope` | Two rules on one scope overwrite each other's state. |

Met while modelling, without a run of their own:

* A half-open period grants `half_open_max_requests + 1` calls, because the call
  that ends the open period is not charged (`resilience.rs:67`); `HalfOpenBudget`
  states the number exactly.
* The overall timeout is looked at only between attempts (`main.rs:337`);
  `BoundedOverrun` states how far a request can get past it.
* A probe whose client leaves is never answered for (`main.rs:364`), and its
  target stays half-open with no attempts: `TargetRecovers` fails when
  `ClientsLeave` is `TRUE`, in the same way as in `probe_leak`.
* The drain loop can end between a handler's look at the draining flag and its
  in-flight guard (`main.rs:222-226`). The HTTP server still waits for the open
  connection.
* `healthy_threshold` and `unhealthy_threshold` are parsed and used nowhere: the
  first failed check takes a target out (`main.rs:193`, `examples/config.yaml:56`).
* Only the last value of a repeated header is passed on (`main.rs:556`), and a
  route that adds a hop-by-hop header to requests gets it through, to responses
  not; `HeadersExplained` states both as they are.
* Callers authenticated by a token have no subject (`security.rs:191`) and share
  the consumer bucket "anonymous", also with an mTLS subject of that name.
* Without an `mtls` section the header names are empty, since `Default` is
  derived (`security.rs:95`); a replaced response body keeps the upstream's
  content-length (`main.rs:410`); `jitter_ms + 1` can overflow (`main.rs:622`).
* The `init` phase is declared by every plugin by default and run for none
  (`main.rs:242`, `plugin.rs:215`).

### Bounds, and why they are enough

* Two requests, two targets: the races in the code are between two handlers, or a
  handler and the checker or the drain loop; a probe is lost to a second target.
* Thresholds of 1 to 3 with counter maxima of 1 to 4: in `registry` every
  comparison is passed, met and exceeded, and the counters saturate; the gateway's
  runs use smaller values of the same registry.
* Retries 2 or 3, timeouts of one or two ticks: an attempt can start before, at
  and after the overall timeout.
* The scenarios of `admission` are families: all lists of up to three weights from
  0 to 3; all pairs of routes over three nested prefixes and three sets of
  protocols; six mixtures of fault and canary, two of which `validate` must refuse,
  with two concurrent requests; all lists of up to two authentication modes with
  bindings of each kind and 35 credentials; 64 header transformations; three
  consumers at a limiter. A property over pairs (two routes, two modes, two
  handlers) needs no more of either.
* `CounterModulus`, `Modulus` and `MetricModulus` are small, so that the request
  counter, the sums of weights and, in `gateway`, the metrics wrap. A round of
  `WeightedShare` is asked of sums that do not wrap.
* In runs with `RecycleIds` an id serves request after request without end;
  how a finished request fared is then forgotten, and `MetricModulus = 1` keeps
  the metrics out of the state.
* `MaxClock` and `MaxAdmitted` of 5 let each window pass and the next one
  fill up, so that each limit is met, refused and open again.
  `MaxDelay`, how far a thread can lag between clock and lock, is 1.
* Deadlock is not checked where the system really may stop: requests that have all
  ended, a stopped process, a clock at its bound.

### Fairness

The executor runs every task that can run: weak fairness of each handler's own
steps, the checker and the drain loop. `Receive` is among them because
`read_timeout_ms` cuts an upstream off. Time goes on: strong fairness of `Tick`,
since a timer that is served at once can disable it again and again. Clients
owe nothing: no fairness for arriving, sending the body or leaving. In `fault_stuck`
clients do keep sending (weak fairness of `Arrive` with the plugins' consent),
because the property is about a client that goes on trying; handlers are scheduled
as above. The
conclusion of `TargetRecovers` is asked only of behaviours in which requests keep
arriving and the upstream has stopped failing.

## 4. Proofs

Eight modules hold proofs. Every invariant and every action property that a
passing run checks, and the three refinements, are theorems: the run shows them on
a small instance, the theorem for every value of the constants. `PROJECT.json`
names the theorem of each. All proofs by invariant have the same shape: an
inductive invariant, one lemma per action that keeps it, and the properties as
consequences of it.

### The registry

`Resilience_proofs` proves, for every set of targets and all threshold values
(zero included), that `Resilience!Spec` implies

* `TypeOK`, `HalfOpenBudget`, `TrippedRemembersFailures`,
  `PassiveVerdictExplained`, `FailureCountsAgree` and `ClosedIsUsable` as
  invariants,
* the action property `HalfOpenFailureReopens`, and
* `BreakerSpec`: the specification of CircuitBreaker for every target, under the
  mapping of `Resilience!Breaker`.

The only assumption is `ThresholdsAreU32` in TargetRuntime: the thresholds are
naturals up to `U32Max`. `SafeThresholds`, under which `ClosedIsUsable` is
interesting, is part of that property and not an assumption.

The inductive invariant `IInv` is the conjunction of the six. Each part needs
others: `ClosedIsUsable` is not inductive alone, because a failure that does not
trip the breaker must also leave the passive verdict alone, and that follows only
when both count the same number of failures (`FailureCountsAgree`);
`HalfOpenFailureReopens` needs `TrippedRemembersFailures`, which at the
saturation point needs thresholds that are themselves `u32`. The proof has one
lemma per registry method about the record it returns, and one lemma
(`RuntimeUpdate`) that carries a fact about one record to the whole map.

The refinement uses the same invariant: each method's record, seen through the
mapping, is a step of the abstract breaker or leaves it alone. That a failure in
the half-open state trips the breaker, for example, follows only because the
failure counter is at the threshold already.

Every part of `IInv` is an invariant of the run `registry`, and `BreakerSpec` is
one of its properties.

### Who gets in

`Admission_proofs` proves, for any configurations, any requests and any number of
handlers, that `Admission!Spec` implies `AccessExplained`, `BindingsMonotone` and
`LaterModeNoEffect`. None of them is inductive, as they say nothing of how a
handler came to where it is. The inductive invariant is `Remembered`: a handler
that waits at the limiter has a request and a route that the gates let in, and
one that ended in a refusal has a request and a route that they refuse for the
reason it was given. The step of each action is one of three kinds: the arrival
establishes this (`ArriveKept`); every later step takes the handler away from the
limiter and does not end in a refusal of security (`GoesOn`, `MovesOn`); the
others leave handlers alone.

From `Remembered` the properties follow by lemmas about `Authenticate` and
`Authorize` alone. Whoever is authenticated is so by the first mode that accepts
the request (`FirstAccepting`, which rests on naturals being well-founded); the
mode of an identity is always enabled, so that only the bindings decide
(`BindingsDecide`); bindings play no part in authentication (`SameIdentity`); and
a mode behind the others does not become the first that accepts
(`LaterModeSameIdentity`).

The assumptions are `AdmissionAssumption` and `ContextAssumption` (what a
configuration file and a request can say: the types of the security settings, the
routes, the upstreams with their strategies and targets, and a limiter context with
a value for every scope; TLC evaluates both on the configurations of the run
`admission`) and `AbsentIsNoOutcome` (the value for a missing outcome is none of the
outcomes).

### Where a request goes

`Forwarding_proofs` continues with the rest of Admission, under the same
assumptions. Its inductive invariant `Forwarded` says of each handler what it knows
at its place: past the gates its route is the one `match_route` gives for its
request, and from the choice of the upstream on, the upstream exists and is one the
route names, and path and headers are what the route makes of the request. That
nothing is sent to a missing upstream needs `Validate`, which is part of the
invariant because `Init` serves only accepted configurations. `UpstreamFound`,
`RouteMostSpecific`, `SharesExact`, `RewriteReversible` and `HeadersExplained`
follow, each by lemmas about the operators of Routing alone: two prefixes of one
path are prefixes of each other, cutting a prefix and pasting it is the identity,
the buckets below a percentage are that many.

`WeightedShare` rests on `SelectTarget_proofs`, for every list of weights: the loops
that add up weights are recursive functions, and what they compute is proved without
induction, by taking the first place at which they could differ from the sums
(`SumsExist` builds these, `TotalIsSum` and `PickedBySums` say that the loops are
them). Every residue of the total occurs once in a round of consecutive counter
values (`ResiduesOnce`), and a target is chosen for as many residues as its weight
(`RoundIsShared`).

`LimiterImplemented` is the refinement `LimiterSpec`: seen from the limiter, each
step of a handler is a `Sample`, a `Check`, the clock or nothing. The module takes
`RateLimiter_proofs` as an instance, so the limiter's invariant holds inside
Admission without a second proof (`SameLimiter` shows that the two name the same
formulas), and `RefusedForOwnRequests` follows from it; `LimitsHoldForHandlers` says
the same of quotas, windows and buckets, the latter two with one rule per scope (see
below).

### The request path

`Gateway_proofs` is about any finite set of requests, any non-empty list of targets
and any strategy, retries, timeouts and thresholds (`GatewayAssumption`). The
inductive invariant is `ProcessOK` (ranges of the shared variables), `Sound` for each
handler, and `InFlightExact`. `Sound` ties a handler's place to its counters: in the
loop at least one attempt has begun and no more than the method allows; the time
spent is below the overall timeout when an attempt starts, and grows by at most one
read timeout and one backoff until it is looked at again. None of `UnsafeSentOnce`,
`LoopReturns` and `BoundedOverrun` is inductive without the others: the last attempt
is known to return only because a backoff is entered only below the limit.

Two are action properties. `DrainLeavesOnlyEntering` follows from `InFlightExact`
when the count is zero. `OneVerdictPerAttempt` compares the registry's records before
and after a step: `Heard` is its body, and there is one lemma for each kind of step.
`is_available`, the checker and the clock leave what verdicts are made of alone
(`ViewKept`, `SameVerdicts`), an answer is recorded for the target of the handler
that takes it and for no other (`ReceiveHeard`), and a handler that is dropped
records nothing (`LeaveHeard`).

`RegistryImplemented` is the refinement `RegistrySpec`. Because of it the theorems of
`Resilience_proofs`, taken as an instance, hold inside the gateway: `TypeCorrect`
gets the registry's part from there, and `CircuitsAreBreakers` says that every
circuit refines the abstract breaker under retries, late answers and clients that
leave.

`CountersAreExplained` has the hypothesis `~RecycleIds`, which the run `gateway`
satisfies: an id that is used again forgets how its last request ended, and a counter
is then explained by nothing in the state. The counters are explained up to their
width. `upstream_failures` counts sends and not requests; it is the size of the set of
pairs of a request and one of its failed sends, which `SendFailed` makes larger by one
(`FailuresStep`), plus the number of requests that ran out of time.

### The limiter

`RateLimiter_proofs` is about any rules, any number of threads and any delay between
clock and lock (`LimiterAssumption` says what a configuration can be). First come
the three policies as functions: each keeps a relation between the state of a key
and the moments at which its requests were admitted, which the history `log`
records. For a sliding window (`SlidingInv`): the hits that are kept are the last
requests admitted, and those that were dropped have left the window. For a fixed
window (`FixedInv`): all but the current count and the limit were admitted in windows
that were over when the present one began. For a bucket (`TokenInv`): the tokens left
and the requests since any moment are paid for by a full bucket, the refill, and the
time by which `last_refill` was set back. Each relation is kept by a check that
admits and by one that refuses.

The invariant `Inv` of the specification holds for any rules and gives `TypeOK`,
`QuotaExact` and `EntriesEarned`. `RulesKept`, the relations above for every rule and
key, needs `OneRulePerScope`: two rules of one scope write the same state in turn and
neither policy is kept, which is what `limiter_same_scope` shows. `WindowsKept`,
`TokenBucketKept` and `RefusalExplained` are therefore proved under that hypothesis,
which the configurations of the run `limiter` satisfy.

### The plugins

`PluginManager_proofs` is about any list of plugins that `PluginConfig` can describe,
any set of them that fails to initialise, and any number of requests. `Inv` says
which plugins are registered, initialised and torn down in each status, and gives
`TornDownOnce` (a second rollback finds nothing: `RollbackTwice`) and
`ServesAllConfigured`. `Piped` says that a handler past the access phase has run that
phase and was allowed, and one that has answered or was blocked has run the pipeline,
the former with no denial before the log phase and the latter with one.
With it `HandlerRunsPipeline` follows from what the pipeline is for each of the four
places at which it can stop (`PipelineUpTo`).

### Only model-checked

The liveness properties `RequestsEnd`, `DrainEnds` and `TargetRecovers`, since the
proof system does not handle fairness, and the runs that end in a violation, whose
result is a behaviour and not a theorem.

## 5. Plan

Done: the Rust gateway core in ten modules with seven modules of proofs about them
and one of lemmas (NatExtrema).

To do:

Kong's batching queue (`kong/tools/queue.lua`): capacity, batching, retry, one
consumer; then cluster events, then hybrid mode's sync by version. The number
of runs is kept at a dozen so that the whole set can be run often; a run for
the queue takes the place of the narrowest of the present ones.

Not modelled and not planned: the endpoints for health and metrics and the text
they render, tracing, token decoding (the `jsonwebtoken` library), HTTP itself
(`axum`, `hyper`, `reqwest`), panics, and the Lua components named as such in
`PROJECT.json`.
