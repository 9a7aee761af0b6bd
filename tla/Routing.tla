------------------------------- MODULE Routing -------------------------------
(***************************************************************************)
(* The decisions proxy_handler takes from the configuration of a route     *)
(* (router.rs, and the helpers at the end of main.rs), and what            *)
(* GatewayConfig::validate (config.rs) demands of a configuration.         *)
(* Operators only; Admission calls them.                                   *)
(*                                                                         *)
(* A path is a sequence of characters.  Headers are a function from names, *)
(* in lower case, to the sequence of values sent under the name.  Hash is  *)
(* DefaultHasher on the namespaces, client keys and counts that occur.     *)
(***************************************************************************)
EXTENDS Integers, SequencesExt

CONSTANTS Hash, Absent        \* Absent: an Option that is None

Protocol == {"http1", "http2", "grpc"}

TrafficSplitConfig ==
    [ canary_upstream: STRING \union {Absent}, canary_percentage: Nat,
      canary_header: [name: STRING, value: STRING] \union {Absent} ]

FaultInjectionConfig ==
    [ enabled: BOOLEAN, probability_percent: Nat, delay_ms: Nat, jitter_ms: Nat,
      abort_status: Nat \union {Absent} ]

\* Route; the bodies that replace others are left out.  The headers to add and
\* to set are functions like those of a request.
IsRoute(route) ==
    /\ route.name \in STRING /\ route.upstream \in STRING
    /\ route.path_prefix \in Seq(STRING)
    /\ route.protocols \subseteq Protocol
    /\ route.transform.request.path_prefix_rewrite \in Seq(STRING) \union {Absent}
    /\ route.traffic_split \in TrafficSplitConfig
    /\ route.fault_injection \in FaultInjectionConfig

\* The media types that mean gRPC: a suffix may follow a plus sign.
GrpcMedia == {"application/grpc", "application/grpc+proto"}

\* request_protocol.  content_type is the media type of the first such header,
\* without its parameters and in lower case.
RequestProtocol(in) ==
    CASE in.version # "HTTP/2" -> "http1"
      [] in.version = "HTTP/2" /\ in.content_type \in GrpcMedia -> "grpc"
      [] OTHER -> "http2"

\* The routes that take the request.
Candidates(routes, in) ==
    {i \in DOMAIN routes :
        /\ routes[i].protocols = {} \/ RequestProtocol(in) \in routes[i].protocols
        /\ IsPrefix(routes[i].path_prefix, in.path)}

\* Mutant: the first route that takes the request.
MatchRouteFirst(routes, in) ==
    IF Candidates(routes, in) = {} THEN 0 ELSE Min(Candidates(routes, in))

\* match_route: of the longest prefixes the last (max_by_key); 0 is None.
MatchRoute(routes, in) ==
    LET c == Candidates(routes, in)
    IN  IF c = {} THEN 0
        ELSE Max({i \in c : \A j \in c :
                    Len(routes[j].path_prefix) <= Len(routes[i].path_prefix)})

\* deterministic_percentage_bucket
Bucket(namespace, client_key, count) == Hash[<<namespace, client_key, count>>] % 100

\* The first value of the canary header is the one that is asked for.
ForcesCanary(split, headers) ==
    /\ split.canary_header # Absent
    /\ split.canary_header.name \in DOMAIN headers
    /\ Head(headers[split.canary_header.name]) = split.canary_header.value

\* Mutant: <= in the comparison with the percentage.
InCanaryShareOneMore(split, bucket) == bucket <= split.canary_percentage

InCanaryShare(split, bucket) ==
    split.canary_percentage # 0 /\ bucket < split.canary_percentage

\* select_upstream_name
SelectUpstreamName(route, headers, bucket) ==
    LET split == route.traffic_split
    IN  IF /\ split.canary_upstream # Absent
           /\ ForcesCanary(split, headers) \/ InCanaryShare(split, bucket)
        THEN split.canary_upstream ELSE route.upstream

\* maybe_apply_fault_injection: whether a request is hit, ...
FaultHits(fault, bucket) == fault.enabled /\ bucket < fault.probability_percent

\* ... and whether one that is hit sleeps first.
FaultSleeps(fault, client_key, count) ==
    LET jitter == Hash[<<"jitter", client_key, count>>] % (fault.jitter_ms + 1)
    IN  fault.delay_ms + jitter > 0

\* Mutant: the query is cut off with the prefix.
RewritePathAndQueryDropsQuery(route, in) ==
    IF route.transform.request.path_prefix_rewrite = Absent THEN in.path \o in.query
    ELSE route.transform.request.path_prefix_rewrite
         \o SubSeq(in.path, Len(route.path_prefix) + 1, Len(in.path))

\* rewrite_path_and_query, for a route that takes the request.
RewritePathAndQuery(route, in) ==
    LET whole       == in.path \o in.query
        replacement == route.transform.request.path_prefix_rewrite
    IN  IF replacement = Absent \/ ~IsPrefix(route.path_prefix, in.path) THEN whole
        ELSE replacement \o SubSeq(whole, Len(route.path_prefix) + 1, Len(whole))

-----------------------------------------------------------------------------
\* Headers.

\* is_hop_by_hop_header
HopByHop == { "connection", "keep-alive", "proxy-authenticate",
              "proxy-authorization", "te", "trailer", "transfer-encoding",
              "upgrade" }

\* Headers without the names in a set.
Without(headers, names) == Restrict(headers, DOMAIN headers \ names)

\* Values inserted one after the other: the last one stays.
Inserted(headers) == [n \in DOMAIN headers |-> <<Last(headers[n])>>]

\* All of f, and of g what f has nothing for.
Over(f, g) ==
    [n \in DOMAIN f \union DOMAIN g |-> IF n \in DOMAIN f THEN f[n] ELSE g[n]]

\* Mutant: headers are set before the unwanted ones are removed.
ApplyHeaderTransformRemovesLast(headers, transform) ==
    Without(Over(transform.set_headers, Over(headers, transform.add_headers)),
            transform.remove_headers)

\* apply_header_transform: remove, add what is missing, set.
ApplyHeaderTransform(headers, transform) ==
    LET removed == Without(headers, transform.remove_headers)
        added   == Over(removed, transform.add_headers)
    IN  Over(transform.set_headers, added)

\* transform_request_headers, forwardable_headers
TransformRequestHeaders(headers, transform) ==
    ApplyHeaderTransform(Inserted(Without(headers, HopByHop \union {"host"})),
                         transform)

\* transform_response_headers, and the filter that follows it.
TransformResponseHeaders(headers, transform) ==
    Without(ApplyHeaderTransform(Inserted(headers), transform), HopByHop)

-----------------------------------------------------------------------------
\* The configuration.

UpstreamNames(config) == {config.upstreams[i].name : i \in DOMAIN config.upstreams}

\* Mutant: the upstream of the canary is not looked up.
ValidRouteAnyCanary(config, route) ==
    /\ route.upstream \in UpstreamNames(config)
    /\ route.traffic_split.canary_percentage <= 100
    /\ route.fault_injection.probability_percent <= 100

\* What validate asks of one route.
ValidRoute(config, route) ==
    /\ route.upstream \in UpstreamNames(config)
    /\ route.traffic_split.canary_upstream \in UpstreamNames(config) \union {Absent}
    /\ route.traffic_split.canary_percentage <= 100
    /\ route.fault_injection.probability_percent <= 100
    /\ route.fault_injection.abort_status \in (100..599) \union {Absent}

\* GatewayConfig::validate
Validate(config) ==
    /\ config.routes # <<>>
    /\ \A i \in DOMAIN config.routes : ValidRoute(config, config.routes[i])
    /\ \A i \in DOMAIN config.upstreams : config.upstreams[i].targets # <<>>
=============================================================================
