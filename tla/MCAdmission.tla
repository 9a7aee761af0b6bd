----------------------------- MODULE MCAdmission -----------------------------
(* Instances of Admission: families of configurations and of the requests that
   tell their members apart. *)
EXTENDS Admission

CONSTANTS r1, r2

NoHeaders == [n \in {} |-> <<>>]

T(w) == [weight |-> w, active_connections |-> 0]
Upstream(name, targets) == [name |-> name, strategy |-> "round-robin", targets |-> targets]

PlainTransform == [ add_headers |-> NoHeaders, set_headers |-> NoHeaders,
                    remove_headers |-> {}, path_prefix_rewrite |-> Absent ]
NoSplit == [canary_upstream |-> Absent, canary_percentage |-> 0, canary_header |-> Absent]
NoFault == [ enabled |-> FALSE, probability_percent |-> 100, delay_ms |-> 0,
             jitter_ms |-> 0, abort_status |-> Absent ]
PlainRoute == [ name |-> "api", path_prefix |-> <<"/">>, upstream |-> "svc",
                protocols |-> {},
                transform |-> [request |-> PlainTransform, response |-> PlainTransform],
                traffic_split |-> NoSplit, fault_injection |-> NoFault ]

Open == [ enabled_modes |-> <<>>, secret |-> [m \in TokenMode |-> TRUE],
          roles_claim |-> [m \in TokenMode |-> "roles"],
          groups_claim |-> [m \in TokenMode |-> "groups"],
          allowed_subjects |-> {}, rbac |-> {}, group_rbac |-> {}, subject_rbac |-> {} ]

Unlimited == [ enabled |-> FALSE, policy |-> "token_bucket", capacity |-> 0,
               refill_per_second |-> 0, fixed_window_seconds |-> 0,
               sliding_window_seconds |-> 0, scoped_limits |-> <<>> ]

Plain == [ routes |-> <<PlainRoute>>,
           upstreams |-> <<Upstream("svc", <<T(1)>>), Upstream("canary", <<T(1), T(1)>>)>>,
           security |-> Open, rate_limit |-> Unlimited ]

NoToken == [accepted |-> {}, claims |-> [c \in {} |-> <<>>]]
Get == [ client |-> "10.0.0.1", version |-> "HTTP/1.1", content_type |-> "text/plain",
         path |-> <<"/">>, query |-> <<>>, headers |-> NoHeaders, token |-> NoToken,
         subject |-> <<>>, roles |-> <<>>, groups |-> <<>> ]

\* One handler that serves one request, or two that serve any number.
Once(cfg, inputs) == [ config |-> cfg, inputs |-> inputs, responses |-> {NoHeaders},
                       handlers |-> {r1}, recycled |-> FALSE ]
Stream(cfg, inputs) == [Once(cfg, inputs) EXCEPT !.recycled = TRUE]

-----------------------------------------------------------------------------
\* Up to three targets of weight 0, 1, 2 or 3: the sum may wrap at Modulus.
Weights == UNION {[1..n -> 0..3] : n \in 1..3}
WeightScenario(w) ==
    Stream([Plain EXCEPT !.upstreams = <<Upstream("svc", [i \in DOMAIN w |-> T(w[i])])>>], {Get})

\* Two routes with nested prefixes, some of them for certain protocols only.
PathPrefixes == {<<"/">>, <<"/", "a">>, <<"/", "a", "b">>}
RouteRules == PathPrefixes \X {{}, {"grpc"}, {"http1", "http2"}}
RouteScenario(rules) ==
    Once([Plain EXCEPT !.routes = [i \in DOMAIN rules |->
          [PlainRoute EXCEPT !.path_prefix = rules[i][1], !.protocols = rules[i][2]]]],
      {[Get EXCEPT !.path = p, !.version = v, !.content_type = c] :
          p \in PathPrefixes \union {<<"/", "b">>}, v \in {"HTTP/1.1", "HTTP/2"},
          c \in {"application/grpc", "application/grpc-web"}})

\* Faults and canaries, for two requests that run at the same time.
Fault(p, d, j, a) ==
    [ enabled |-> TRUE, probability_percent |-> p, delay_ms |-> d, jitter_ms |-> j,
      abort_status |-> a ]
Splits == { <<Fault(20, 0, 1, 503), 50, "canary">>, <<Fault(50, 1, 0, Absent), 50, "canary">>,
            <<Fault(100, 1, 0, Absent), 0, "canary">>, <<Fault(0, 0, 0, 503), 100, "canary">>,
            <<Fault(50, 1, 0, Absent), 50, "missing">>, <<Fault(101, 0, 0, 42), 101, "canary">> }
SplitScenario(x) ==
    LET split == [ canary_upstream |-> x[3], canary_percentage |-> x[2],
                   canary_header |-> [name |-> "x-canary", value |-> "1"] ]
    IN  [Stream([Plain EXCEPT !.routes = <<[PlainRoute EXCEPT !.fault_injection = x[1],
                                                         !.traffic_split = split]>>],
           {[Get EXCEPT !.headers = h] : h \in {NoHeaders, [n \in {"x-canary"} |-> <<"1">>],
                                                [n \in {"x-canary"} |-> <<"0", "1">>]}})
         EXCEPT !.handlers = {r1, r2}]

\* All lists of up to two modes, with bindings of every kind; and modes that
\* have not been set up.
At(name, route) == [name |-> name, route |-> route]
Modes == {<<>>} \union {<<m>> : m \in AuthMode}
         \union {m \in AuthMode \X AuthMode : m[1] # m[2]}
Guards ==
    {[Open EXCEPT !.enabled_modes = m, !.rbac = r, !.group_rbac = g, !.subject_rbac = s] :
        m \in Modes, r \in {{}, {At(<<"admin">>, "api")}, {At(<<"a", "b">>, "api")}},
        g \in {{}, {At(<<"dev">>, "api")}},
        s \in {{At(<<"bob">>, "other")}, {At(<<"alice">>, "api")}}}
    \union {[Open EXCEPT !.enabled_modes = m, !.allowed_subjects = {<<"alice">>},
                         !.secret["jwt"] = FALSE] : m \in Modes}
Str(words) == [is_array |-> FALSE, strings |-> <<words>>]
Credentials ==
    LET claims == {[c \in {} |-> Str(<<>>)],
                   [c \in {"role", "groups"} |-> IF c = "role" THEN Str(<<"a", "b">>)
                                                 ELSE Str(<<"dev">>)],
                   [c \in {"roles", "role"} |-> IF c = "role" THEN [is_array |-> TRUE, strings |-> <<<<"a", "b">>>>]
                                                ELSE [is_array |-> TRUE, strings |-> <<<<"a">>, <<"b", "admin">>>>]]}
        tokens == {NoToken} \union {[accepted |-> a, claims |-> c] :
                      a \in {{"jwt"}, {"oauth2", "openid_connect"}}, c \in claims}
    IN  {[Get EXCEPT !.token = t] : t \in tokens}
        \union {[Get EXCEPT !.token = t, !.subject = <<<<n>>>>, !.roles = <<r, <<<<"admin">>>>>>,
                            !.groups = <<<<<<"dev">>>>>>] :
                  t \in tokens, n \in {"alice", "bob"}, r \in {<<>>, <<<<>>, <<"admin">>>>}}

\* A route that adds, sets and removes headers on the way in and out.
HeadersOf(names, v) == [n \in names |-> <<v>>]
Transforms ==
    {[PlainTransform EXCEPT !.add_headers = HeadersOf(a, "added"), !.set_headers = HeadersOf(s, "set"),
                            !.remove_headers = d, !.path_prefix_rewrite = p] :
        a \in SUBSET {"x-a", "te"}, s \in SUBSET {"x-a", "te"}, d \in SUBSET {"x-a"},
        p \in {Absent, <<"/", "v", "2">>}}
Sent == {[n \in names |-> IF n = "x-a" THEN v ELSE <<"1">>] :
            names \in SUBSET {"x-a", "te"} \ {{}}, v \in {<<"1">>, <<"1", "2">>}}
HeaderScenario(t) ==
    [Once([Plain EXCEPT !.routes = <<[PlainRoute EXCEPT !.path_prefix = <<"/", "a">>,
                                        !.transform = [request |-> t, response |-> t]]>>],
          {[Get EXCEPT !.headers = [n \in {"host"} |-> <<"gw">>] @@ h, !.path = <<"/", "a", "b">>,
                       !.query = <<"?", "q">>] : h \in Sent})
     EXCEPT !.responses = Sent]

\* Named consumers and one without a name, at the limiter at the same time.
Consumers == {[Get EXCEPT !.subject = s] : s \in {<<>>, <<<<"alice">>>>, <<<<"bob">>>>}}
Limited ==
    [Plain EXCEPT !.security.enabled_modes = <<"mtls", "anonymous">>,
                  !.rate_limit = [Unlimited EXCEPT !.enabled = TRUE,
                     !.scoped_limits = << [scope |-> "consumer", limit |-> 1, quota |-> -1,
                                           window |-> 2, policy |-> "sliding_window"] >>]]

MCHash ==
    [k \in ({"fault-injection", "jitter", "target", "api"}
             \X ({"api"} \X {"10.0.0.1"}) \X (0..7)) |->
        CASE k[1] = "target"          -> 5
          [] k[1] = "jitter"          -> k[3] \div 2
          [] k[1] = "fault-injection" -> 30 * k[3] + 20
          [] k[1] = "api"             -> 70 * k[3] + 20]

AllScenarios == {WeightScenario(w) : w \in Weights}
                \union {RouteScenario(x) : x \in RouteRules \X RouteRules}
                \union {SplitScenario(x) : x \in Splits}
                \union {Once([Plain EXCEPT !.security = g], Credentials) : g \in Guards}
                \union {HeaderScenario(t) : t \in Transforms}
                \union {[Once(Limited, Consumers) EXCEPT !.handlers = {r1, r2}]}

\* Two requests at a time for two equal targets.
LeastConnections ==
    {[Stream([Plain EXCEPT !.upstreams = <<[Upstream("svc", <<T(1), T(1)>>) EXCEPT
                                               !.strategy = "least-connections"]>>], {Get})
      EXCEPT !.handlers = {r1, r2}]}

\* One client of a route on which half of the requests are aborted.
HalfAborted ==
    {Stream([Plain EXCEPT !.routes = <<[PlainRoute EXCEPT
                !.fault_injection = Fault(50, 0, 0, 503)]>>], {Get})}

\* What the limiter sees.
AllConfigs == {Unlimited, Limited.rate_limit}
AllContexts == {ContextOf(Limited, PlainRoute, in) : in \in Consumers}
=============================================================================
