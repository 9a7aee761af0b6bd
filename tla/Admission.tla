------------------------------ MODULE Admission ------------------------------
(***************************************************************************)
(* proxy_handler (main.rs) as a client's configuration shows in it: what   *)
(* routing, plugins, authentication, authorisation, rate limiting, fault   *)
(* injection and traffic splitting make of a request, to which target it   *)
(* goes, and what upstream and client get to see.  Gateway models the      *)
(* other half: retries, health, timeouts, cancellation and shutdown; here  *)
(* all targets are available, and an attempt ends in any way it can.       *)
(*                                                                         *)
(* Shared state is the request counter and the rate limiter, which is      *)
(* RateLimiter itself.  Everything a handler does between two accesses to  *)
(* them, or up to an await, is one step.                                   *)
(***************************************************************************)
EXTENDS Security, Routing, SelectTarget

CONSTANTS
    Request,           \* requests in progress at the same time
    Scenarios,         \* configurations, each with the requests and responses
                       \* that occur, the handlers that serve them and whether
                       \* a handler may serve a second one
    Context, Configs,                   \* contexts and configurations of the
    MaxDelay, MaxClock, MaxAdmitted     \* limiter, and bounds: see RateLimiter

\* What a configuration file can say, and a request hold.
ASSUME AdmissionAssumption ==
    \A s \in Scenarios :
        /\ s.config.security \in SecurityConfig
        /\ s.config.routes \in Seq({route \in ToSet(s.config.routes) : IsRoute(route)})
        /\ s.config.upstreams \in Seq(ToSet(s.config.upstreams))
        /\ \A u \in ToSet(s.config.upstreams) :
             u.strategy \in BalancingStrategy /\ u.targets \in Seq(UpstreamTarget)
        /\ s.config.rate_limit \in Configs
        /\ \A in \in s.inputs : in.path \in Seq(STRING) /\ in.query \in Seq(STRING)

VARIABLES
    scenario,          \* the configuration the process runs with
    req,               \* per request: the handler's locals and where it is
    request_counter,   \* AppState.request_counter, cut to a u32 as the balancer
                       \* does (the hashes of the code see all of it)
    clock, states, thread, log, regress \* AppState.limiter: see RateLimiter

limiter == <<clock, states, thread, log, regress>>
vars == <<scenario, req, request_counter, limiter>>

config == scenario.config

-----------------------------------------------------------------------------
\* What a handler computes from its request.

Route(r) == config.routes[req[r].route]

\* client_key
ClientKey(route, in) == <<route.name, in.client>>

\* RateLimitContext
ContextOf(cfg, route, in) ==
    [ route    |-> route.name,
      service  |-> route.upstream,
      consumer |-> Authenticate(cfg.security, in).subject,
      client   |-> ClientKey(route, in) ]

Limiter == INSTANCE RateLimiter WITH
    Thread <- Request, config <- config.rate_limit

\* The limiter meets the contexts of the requests that occur.
ASSUME ContextAssumption ==
    /\ Limiter!LimiterAssumption
    /\ \A s \in Scenarios : s.config.rate_limit.enabled =>
         \A i \in DOMAIN s.config.routes, in \in s.inputs :
            ContextOf(s.config, s.config.routes[i], in) \in Context

Place == {"idle", "limiter", "locking", "counter", "asleep", "attempt", "sent", "done"}

\* The outcomes of a request that security refuses.
Refusals == {"authentication failed", "authorization denied"}

ASSUME AbsentIsNoOutcome ==
    Absent \notin Refusals \union
        {"rate limit exceeded", "upstream config not found", "answered"}

\* A handler before its request has come.
Idle == [ at |-> "idle", in |-> Absent, route |-> 0, count |-> 0, upstream |-> 0,
          target |-> 0, headers |-> Absent, path |-> Absent, answer |-> Absent,
          outcome |-> Absent ]

\* r's handler returns.
Ended(h, outcome) == [h EXCEPT !.at = "done", !.outcome = outcome]

-----------------------------------------------------------------------------
\* The handler.

\* The gates before the rate limiter, each of which may answer the request
\* (main.rs:233-273).  allowed is what the access plugins say.
GateVerdict(in, i, allowed) ==
    LET identity == Authenticate(config.security, in)
    IN  IF i = 0 THEN "no matching route"
        ELSE IF ~allowed THEN "blocked by plugin"
        ELSE IF identity.mode = "error" THEN "authentication failed"
        ELSE IF ~Authorize(config.security, identity, config.routes[i].name)
             THEN "authorization denied"
        ELSE "passed"

\* A request comes and goes through them; the draining flag is Gateway's.
Arrive(r, in, allowed) ==
    LET i       == MatchRoute(config.routes, in)
        h       == [Idle EXCEPT !.in = in, !.route = i]
        verdict == GateVerdict(in, i, allowed)
    IN  /\ r \in scenario.handlers
        /\ req[r].at = "idle" \/ (scenario.recycled /\ req[r].at = "done")
        /\ req' = [req EXCEPT ![r] = IF verdict = "passed"
                                     THEN [h EXCEPT !.at = "limiter"]
                                     ELSE Ended(h, verdict)]
        /\ UNCHANGED <<scenario, request_counter, limiter>>

\* check_with_context of a limiter that is off.
LimiterOff(r) ==
    /\ req[r].at = "limiter"
    /\ ~config.rate_limit.enabled
    /\ req' = [req EXCEPT ![r].at = "counter"]
    /\ UNCHANGED <<scenario, request_counter, limiter>>

\* check_with_context up to the lock.
LimiterBegin(r) ==
    /\ req[r].at = "limiter"
    /\ UNCHANGED <<scenario, request_counter>>
    /\ Limiter!Sample(r, ContextOf(config, Route(r), req[r].in))
    /\ req' = [req EXCEPT ![r].at = "locking"]

\* Mutant: the verdict is taken without storing what it was based on.
LimiterDecideUnsaved(r) ==
    /\ req[r].at = "locking"
    /\ req' = [req EXCEPT ![r].at = "counter"]
    /\ thread' = [thread EXCEPT ![r] = [now |-> -1, ctx |-> <<>>]]
    /\ log' = Limiter!Logged(thread[r].ctx)
    /\ UNCHANGED <<scenario, request_counter, clock, states, regress>>

\* check_with_context under the lock (main.rs:282-285).
LimiterDecide(r) ==
    /\ req[r].at = "locking"
    /\ UNCHANGED <<scenario, request_counter>>
    /\ Limiter!Check(r)
    /\ req' = [req EXCEPT ![r] = IF log' # log THEN [@ EXCEPT !.at = "counter"]
                                 ELSE Ended(@, "rate limit exceeded")]

\* The upstream is chosen and looked up (the first of its name), and what it
\* will be sent is put together (main.rs:294-314).  Its registry is there: the
\* registries are built from the same list.
Selected(r, count) ==
    LET in    == req[r].in
        name  == SelectUpstreamName(Route(r), in.headers,
                    Bucket(Route(r).name, ClientKey(Route(r), in), count))
        found == {i \in DOMAIN config.upstreams : config.upstreams[i].name = name}
    IN  IF found = {} THEN Ended(req[r], "upstream config not found")
        ELSE [req[r] EXCEPT
                !.at = "attempt", !.count = 0, !.upstream = Min(found),
                !.path = RewritePathAndQuery(Route(r), in),
                !.headers = TransformRequestHeaders(in.headers,
                                                    Route(r).transform.request)]

\* What follows the sleep of a fault, or its absence.
AfterFault(r, count, hit) ==
    IF hit /\ Route(r).fault_injection.abort_status # Absent
    THEN Ended([req[r] EXCEPT !.count = 0], "fault injection abort")
    ELSE Selected(r, count)

\* The counter is read, but not advanced, and maybe_apply_fault_injection
\* runs up to its sleep (main.rs:287-292).
LoadCounter(r) ==
    LET fault == Route(r).fault_injection
        key   == ClientKey(Route(r), req[r].in)
        hit   == FaultHits(fault, Bucket("fault-injection", key, request_counter))
    IN  /\ req[r].at = "counter"
        /\ req' = [req EXCEPT ![r] =
             IF hit /\ FaultSleeps(fault, key, request_counter)
             THEN [@ EXCEPT !.at = "asleep", !.count = request_counter]
             ELSE AfterFault(r, request_counter, hit)]
        /\ UNCHANGED <<scenario, request_counter, limiter>>

\* The sleep of a fault is over; the count is the one read before it.
Wake(r) ==
    /\ req[r].at = "asleep"
    /\ req' = [req EXCEPT ![r] = AfterFault(r, req[r].count, TRUE)]
    /\ UNCHANGED <<scenario, request_counter, limiter>>

\* One turn of the retry loop: the counter is advanced and gives the target.
Attempt(r) ==
    LET u      == config.upstreams[req[r].upstream]
        hash   == Hash[<<"target", ClientKey(Route(r), req[r].in), 0>>]
        chosen == SelectTarget(u.strategy, u.targets, hash, request_counter)
    IN  /\ req[r].at = "attempt"
        /\ request_counter' = (request_counter + 1) % Modulus
        /\ req' = [req EXCEPT ![r] =
             IF chosen = None THEN Ended(@, "no healthy upstream target available")
             ELSE [@ EXCEPT !.at = "sent", !.target = chosen]]
        /\ UNCHANGED <<scenario, limiter>>

\* The attempt fails and there is another one left.
Retry(r) ==
    /\ req[r].at = "sent"
    /\ req' = [req EXCEPT ![r].at = "attempt", ![r].target = 0]
    /\ UNCHANGED <<scenario, request_counter, limiter>>

\* The upstream's answer is passed on (main.rs:394-419).
Receive(r, headers) ==
    /\ req[r].at = "sent"
    /\ req' = [req EXCEPT ![r] =
          [Ended(@, "answered") EXCEPT !.answer =
              TransformResponseHeaders(headers, Route(r).transform.response)]]
    /\ UNCHANGED <<scenario, request_counter, limiter>>

\* A failure of the body, the upstream, a timeout or a response plugin, or a
\* client that leaves.
Fail(r) ==
    /\ req[r].at \in {"asleep", "attempt", "sent"}
    /\ req' = [req EXCEPT ![r] = Ended(@, "failed")]
    /\ UNCHANGED <<scenario, request_counter, limiter>>

Tick ==
    /\ config.rate_limit.enabled
    /\ UNCHANGED <<scenario, req, request_counter>>
    /\ Limiter!Tick

\* A configuration that validate refuses ends the process before it serves.
Init ==
    /\ scenario \in {s \in Scenarios : Validate(s.config)}
    /\ req = [r \in Request |-> Idle]
    /\ request_counter = 0
    /\ Limiter!Init

Next ==
    \/ \E r \in Request, in \in scenario.inputs, allowed \in BOOLEAN : Arrive(r, in, allowed)
    \/ \E r \in Request : LimiterOff(r)
    \/ \E r \in Request : LimiterBegin(r)
    \/ \E r \in Request : LimiterDecide(r)
    \/ \E r \in Request : LoadCounter(r)
    \/ \E r \in Request : Wake(r)
    \/ \E r \in Request : Attempt(r)
    \/ \E r \in Request : Retry(r)
    \/ \E r \in Request, headers \in scenario.responses : Receive(r, headers)
    \/ \E r \in Request : Fail(r)
    \/ Tick

Spec == Init /\ [][Next]_vars

\* The steps a handler takes by itself; clients keep sending.
Proceed(r) ==
    \/ LimiterOff(r) \/ LimiterBegin(r) \/ LimiterDecide(r) \/ LoadCounter(r)
    \/ Wake(r) \/ Attempt(r) \/ \E headers \in scenario.responses : Receive(r, headers)

LiveSpec ==
    /\ Spec
    /\ \A r \in Request : WF_vars(Proceed(r))
    /\ \A r \in Request :
         WF_vars(\E in \in scenario.inputs : Arrive(r, in, TRUE))

-----------------------------------------------------------------------------
\* Correctness.

\* A configuration that has been validated never sends a request to an
\* upstream that is not there, be it a canary or not; the one it is sent to is
\* one the route names, and the target one of its own that takes a share
\* (config.rs:360-409, main.rs:294-311,342-346).
UpstreamFound ==
    \A r \in Request :
        /\ req[r].outcome # "upstream config not found"
        /\ req[r].at \in {"attempt", "sent"} =>
             LET u == config.upstreams[req[r].upstream]
             IN  /\ u.name \in {Route(r).upstream, Route(r).traffic_split.canary_upstream}
                 /\ u.targets # <<>>
                 /\ req[r].at = "sent" => u.targets[req[r].target].weight > 0

\* No other route that takes the request has a prefix that says more of its
\* path; of two that say the same the later one is used (router.rs:98-106).
RouteMostSpecific ==
    \A r \in Request : req[r].route # 0 =>
        \A i \in Candidates(config.routes, req[r].in) :
            /\ IsPrefix(config.routes[i].path_prefix, Route(r).path_prefix)
            /\ config.routes[i].path_prefix = Route(r).path_prefix => i <= req[r].route

\* Of the hundred buckets exactly the configured share goes to the canary and
\* is hit by a fault, also when the share is 0 or 100 (main.rs:490-499,613-616).
SharesExact ==
    (\A r \in Request : req[r].at = "idle") =>
        \A i \in DOMAIN config.routes :
            LET route == config.routes[i]
                split == route.traffic_split
                fault == route.fault_injection
            IN  /\ split.canary_upstream \notin {Absent, route.upstream} =>
                     Cardinality({b \in 0..99 :
                        SelectUpstreamName(route, <<>>, b) = split.canary_upstream})
                     = split.canary_percentage
                /\ fault.enabled =>
                     Cardinality({b \in 0..99 : FaultHits(fault, b)})
                     = fault.probability_percent

\* The sum of the first n weights, as a number that does not wrap.
PrefixWeight(list, n) ==
    LET sum[i \in 0..n] == IF i = 0 THEN 0 ELSE sum[i - 1] + list[i].weight
    IN  sum[n]

\* From any point on, each target gets its weight's share of every full round
\* of requests, neither more nor less, and one of weight 0 gets none; unless
\* the weights or the counter wrap (pick_weighted_target, balancer.rs:56-76).
WeightedShare ==
    \A u \in DOMAIN config.upstreams :
        LET list  == config.upstreams[u].targets
            total == PrefixWeight(list, Len(list))
        IN  total < Modulus /\ request_counter + total <= Modulus =>
              \A i \in DOMAIN list :
                Cardinality({s \in request_counter..(request_counter + total - 1) :
                                PickWeighted(list, s) = i}) = list[i].weight

-----------------------------------------------------------------------------
\* Who gets in.

\* The requests security has just passed or refused.
GotIn(r) == req[r].at = "limiter"
Decided == {r \in Request : GotIn(r) \/ req[r].outcome \in Refusals}

\* What the gates would say of r's request under other settings.
LetsIn(security, r) ==
    LET identity == Authenticate(security, req[r].in)
    IN  identity.mode # "error" /\ Authorize(security, identity, Route(r).name)

\* A request that gets in shows a credential of one enabled mode that names,
\* all by itself, a role, a group and a subject bound to the route, wherever
\* the route has bindings of the kind; names from two credentials do not add
\* up (security.rs:143-165,249-294).
AccessExplained ==
    \A r \in Decided : GotIn(r) =>
        \E m \in IF config.security.enabled_modes = <<>> THEN {"anonymous"}
                 ELSE ToSet(config.security.enabled_modes) :
            LET id == AuthenticateMode(config.security, m, req[r].in)
                satisfied(bindings, names) ==
                    (\E b \in bindings : b.route = Route(r).name) =>
                    (\E b \in bindings : b.route = Route(r).name /\ b.name \in names)
            IN  /\ id.mode = m
                /\ satisfied(config.security.rbac, id.roles)
                /\ satisfied(config.security.group_rbac, id.groups)
                /\ satisfied(config.security.subject_rbac, {id.subject})

\* Naming one more role for a route that has role bindings takes access from
\* nobody; the first one gives access to nobody.  Likewise for groups and
\* subjects (security.rs:275-291).
BindingsMonotone ==
    \A r \in Decided, kind \in {"rbac", "group_rbac", "subject_rbac"},
       name \in {<<"admin">>, <<"dev">>, <<"alice">>, <<"nobody">>} :
        LET more == [config.security EXCEPT ![kind] =
                        @ \union {[name |-> name, route |-> Route(r).name]}]
        IN  IF \E b \in config.security[kind] : b.route = Route(r).name
            THEN GotIn(r) => LetsIn(more, r)
            ELSE LetsIn(more, r) => GotIn(r)

\* Enabling one more mode, after the others, changes nothing for a request
\* they accept, whether it got in or not, and locks nobody out: the first mode
\* that accepts a request decides (security.rs:153-159).
LaterModeNoEffect ==
    \A r \in Decided, mode \in AuthMode :
        LET more == [config.security EXCEPT !.enabled_modes = Append(@, mode)]
        IN  /\ config.security.enabled_modes # <<>>
            /\ req[r].outcome # "authentication failed"
            => GotIn(r) = LetsIn(more, r)

\* A consumer with a name is refused only after requests of its own, or, by a
\* rule of another scope, of its own route, service or client (main.rs:275-285,
\* rate_limit.rs:219-230).  Callers without a name, among them all that show
\* a token, share one bucket.
RefusedForOwnRequests ==
    [][\A r \in Request :
         /\ req[r].at = "locking"
         /\ req'[r].outcome = "rate limit exceeded"
         /\ thread[r].ctx.consumer \notin {Limiter!NoConsumer, Limiter!Anonymous}
         => \E i \in DOMAIN Limiter!EffectiveRules :
              LET rule == Limiter!EffectiveRules[i]
              IN  \/ rule.limit = 0 \/ rule.quota = 0
                  \/ \E ctx \in log.who : ctx[rule.scope] = thread[r].ctx[rule.scope]]_vars

\* The handlers, interleaved as they are, change the limiter only by its own
\* steps: the clock is read, then the check is made under the lock with that
\* reading and its decision is saved, and no other step of a handler touches
\* the limiter's state (main.rs:282, rate_limit.rs:130-178).
LimiterSpec == Limiter!Spec

-----------------------------------------------------------------------------
\* What upstream and client get to see.

OnTheWay == {r \in Request : req[r].at \in {"attempt", "sent"}}

\* Taking the rewritten prefix back gives the client's path and query: nothing
\* behind the prefix is lost or doubled (main.rs:541-551).
RewriteReversible ==
    \A r \in OnTheWay :
        LET replacement == Route(r).transform.request.path_prefix_rewrite
            cut == IF replacement = Absent THEN Len(Route(r).path_prefix)
                   ELSE Len(replacement)
        IN  Route(r).path_prefix \o SubSeq(req[r].path, cut + 1, Len(req[r].path))
            = req[r].in.path \o req[r].in.query

\* What the upstream reads under a name is what the route sets for it, else
\* the last of the client's values if it is not removed and not meant for the
\* gateway alone, else what the route adds (main.rs:553-600,660-672).  The
\* client never gets a header that concerns the connection to the upstream,
\* not even one the route itself puts in (main.rs:400-404).
HeadersExplained ==
    /\ \A r \in Request :
         req[r].outcome = "answered" => DOMAIN req[r].answer \intersect HopByHop = {}
    /\ \A r \in OnTheWay :
         LET t == Route(r).transform.request
             kept == DOMAIN req[r].in.headers
                     \ (t.remove_headers \union HopByHop \union {"host"})
         IN  /\ DOMAIN req[r].headers =
                  DOMAIN t.set_headers \union kept \union DOMAIN t.add_headers
             /\ \A n \in DOMAIN req[r].headers :
                  req[r].headers[n] =
                     IF n \in DOMAIN t.set_headers THEN t.set_headers[n]
                     ELSE IF n \in kept THEN <<Last(req[r].in.headers[n])>>
                     ELSE t.add_headers[n]

-----------------------------------------------------------------------------
\* least-connections sends a request to a target that has no more connections
\* open, for its weight, than any other (README.md:9).
LeastBusyChosen ==
    [][\A r \in Request :
         req[r].at = "attempt" /\ req'[r].at = "sent" =>
           LET u == req[r].upstream
               t == config.upstreams[u].targets
               open(i) == Cardinality({q \in Request : /\ req[q].at = "sent"
                                                       /\ req[q].upstream = u
                                                       /\ req[q].target = i})
           IN  \A j \in DOMAIN t : t[j].weight > 0 =>
                 open(req'[r].target) \div t[req'[r].target].weight
                 <= open(j) \div t[j].weight]_vars

\* A fault that does not hit every request does not hit a client's requests
\* for ever: as long as they come, one of them gets through now and then
\* (README.md:17 "fault-injection controls (probabilistic abort ...)").
FaultsLift ==
    /\ \A i \in DOMAIN config.routes :
         config.routes[i].fault_injection.probability_percent < 100
    /\ []<>(\E r \in Request : req[r].at = "counter")
    => []<>(\E r \in Request : req[r].at = "attempt")
====
