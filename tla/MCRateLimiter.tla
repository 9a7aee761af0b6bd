---------------------------- MODULE MCRateLimiter ----------------------------
(* Instances of RateLimiter: the contexts and the lists of rules. *)
EXTENDS RateLimiter

CONSTANTS a, b, r, svc

Ctx(client, consumer) ==
    [route |-> r, service |-> svc, consumer |-> consumer, client |-> client]

\* Two clients of one route, one of them without a subject.
TwoClients == {Ctx(a, <<a>>), Ctx(b, NoConsumer)}
OneClient == {Ctx(a, <<a>>)}

R(scope, limit, quota, window, policy) ==
    [scope |-> scope, limit |-> limit, quota |-> quota, window |-> window,
     policy |-> policy]

Config(policy, rules) ==
    [ enabled |-> TRUE, policy |-> policy, capacity |-> 1, refill_per_second |-> 1,
      fixed_window_seconds |-> 2, sliding_window_seconds |-> 2,
      scoped_limits |-> rules ]

\* The shape of examples/config.yaml: one rule per scope.
CombinedRules == << R("client", 1, Unset, 2, "default"),
                    R("route", 2, Unset, 3, "fixed_window"),
                    R("consumer", 3, 2, 1, "sliding_window") >>

BucketRules == << R("client", 2, Unset, 3, "token_bucket") >>

\* A limit per short window and one per long window, for the same clients.
SameScopeRules == << R("client", 1, Unset, 3, "sliding_window"),
                     R("client", 2, Unset, 1, "fixed_window") >>

Legacies == {Config("token_bucket", <<>>)}
Usual == Legacies \union {Config("sliding_window", CombinedRules),
                          Config("fixed_window", <<>>),
                          Config("fixed_window", BucketRules)}
SameScope == {Config("sliding_window", SameScopeRules)}
=============================================================================
