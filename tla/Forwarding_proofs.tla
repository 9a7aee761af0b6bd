-------------------------- MODULE Forwarding_proofs --------------------------
(***************************************************************************)
(* Proofs about where a request goes and what upstream and client get to   *)
(* see, for any configuration that validate accepts, any requests and any  *)
(* number of handlers.                                                     *)
(***************************************************************************)
EXTENDS Admission_proofs, FiniteSetTheorems, SequenceTheorems

-----------------------------------------------------------------------------
\* Routing.

\* The largest number of a set that has a bound.
LEMMA MaxOfNats ==
    ASSUME NEW S \in SUBSET Nat, NEW b \in Nat, S # {}, \A y \in S : y <= b
    PROVE  Max(S) \in S /\ \A y \in S : y <= Max(S)
  <1>1. \E x \in S : \A y \in S : y <= x
    <2>1. S \in SUBSET 0..b
      OBVIOUS
    <2>2. QED BY <2>1, LargestNat
  <1>2. \E x \in S : \A y \in S : x >= y
    BY <1>1
  <1>3. QED BY <1>2 DEF Max

\* Of two prefixes of a path the shorter is a prefix of the longer.
LEMMA PrefixesNest ==
    ASSUME NEW T, NEW s \in Seq(T), NEW t \in Seq(T), NEW path \in Seq(T),
           IsPrefix(s, path), IsPrefix(t, path), Len(s) <= Len(t)
    PROVE  IsPrefix(s, t)
  <1>1. Len(s) \in Nat /\ Len(t) \in Nat /\ Len(path) \in Nat
    OBVIOUS
  <1>2. Len(s) <= Len(path) /\ Len(t) <= Len(path)
    BY DEF IsPrefix
  <1>3. \A i \in 1..Len(s) : s[i] = path[i]
    <2>1. SubSeq(s, 1, Len(s)) = SubSeq(path, 1, Len(s))
      BY DEF IsPrefix
    <2>2. \A i \in 1..Len(s) : SubSeq(s, 1, Len(s))[i] = s[i] /\ SubSeq(path, 1, Len(s))[i] = path[i]
      BY <1>1, <1>2
    <2>3. QED BY <2>1, <2>2
  <1>4. \A i \in 1..Len(t) : t[i] = path[i]
    <2>1. SubSeq(t, 1, Len(t)) = SubSeq(path, 1, Len(t))
      BY DEF IsPrefix
    <2>2. \A i \in 1..Len(t) : SubSeq(t, 1, Len(t))[i] = t[i] /\ SubSeq(path, 1, Len(t))[i] = path[i]
      BY <1>1, <1>2
    <2>3. QED BY <2>1, <2>2
  <1>5. \A i \in 1..Len(s) : s[i] = t[i]
    BY <1>1, <1>3, <1>4
  <1>6. SubSeq(s, 1, Len(s)) = SubSeq(t, 1, Len(s))
    <2>1. SubSeq(s, 1, Len(s)) = [i \in 1..Len(s) |-> s[i]]
      BY <1>1
    <2>2. SubSeq(t, 1, Len(s)) = [i \in 1..Len(s) |-> t[i]]
      BY <1>1
    <2>3. QED BY <1>5, <2>1, <2>2
  <1>7. QED BY <1>6 DEF IsPrefix

\* Of the routes that take a request the one that is used has the longest prefix,
\* and comes last among those that have it.
LEMMA RouteMatched ==
    ASSUME NEW routes, NEW in, routes \in Seq({route \in ToSet(routes) : IsRoute(route)}),
           in.path \in Seq(STRING), MatchRoute(routes, in) # 0
    PROVE  LET m == MatchRoute(routes, in)
               c == Candidates(routes, in)
           IN  /\ m \in c /\ m \in DOMAIN routes
               /\ IsRoute(routes[m]) /\ IsPrefix(routes[m].path_prefix, in.path)
               /\ \A i \in c :
                    /\ IsPrefix(routes[i].path_prefix, routes[m].path_prefix)
                    /\ routes[i].path_prefix = routes[m].path_prefix => i <= m
  <1> DEFINE m == MatchRoute(routes, in)
             c == Candidates(routes, in)
             len(i) == Len(routes[i].path_prefix)
             longest == {i \in c : \A j \in c : len(j) <= len(i)}
  <1>1. /\ c \subseteq DOMAIN routes /\ DOMAIN routes = 1..Len(routes) /\ Len(routes) \in Nat
        /\ \A i \in c : IsPrefix(routes[i].path_prefix, in.path)
    BY DEF Candidates
  <1>2. \A i \in DOMAIN routes : IsRoute(routes[i]) /\ routes[i].path_prefix \in Seq(STRING)
    BY DEF IsRoute
  <1>3. c # {} /\ m = Max(longest)
    BY DEF MatchRoute
  <1>4. \A i \in c : len(i) \in Nat /\ len(i) <= Len(in.path)
    BY <1>1, <1>2 DEF IsPrefix
  <1>5. longest # {}
    <2> DEFINE lens == {len(i) : i \in c}
    <2>1. lens \in SUBSET Nat /\ lens # {} /\ \A y \in lens : y <= Len(in.path)
      BY <1>3, <1>4
    <2>2. \A i \in c : len(i) \in lens
      OBVIOUS
    <2>3. \A y \in lens : \E i \in c : y = len(i)
      OBVIOUS
    <2>4. Len(in.path) \in Nat
      OBVIOUS
    <2> HIDE DEF lens, len, c
    <2>5. Max(lens) \in lens /\ \A y \in lens : y <= Max(lens)
      BY <2>1, <2>4, MaxOfNats
    <2>6. PICK i \in c : Max(lens) = len(i)
      BY <2>3, <2>5
    <2>7. i \in longest
      BY <2>2, <2>5, <2>6
    <2>8. QED BY <2>7
  <1> HIDE DEF c, len, m
  <1>6. m \in longest /\ \A i \in longest : i <= m
    <2>1. longest \in SUBSET Nat /\ \A y \in longest : y <= Len(routes)
      BY <1>1
    <2> HIDE DEF longest
    <2>2. QED BY <1>1, <1>3, <1>5, <2>1, MaxOfNats
  <1>7. m \in c /\ \A i \in c : len(i) <= len(m)
    BY <1>6
  <1>8. ASSUME NEW i \in c
        PROVE  /\ IsPrefix(routes[i].path_prefix, routes[m].path_prefix)
               /\ routes[i].path_prefix = routes[m].path_prefix => i <= m
    <2>1. len(i) <= len(m)
      BY <1>7
    <2>2. IsPrefix(routes[i].path_prefix, routes[m].path_prefix)
      BY <1>1, <1>2, <1>7, <2>1, PrefixesNest DEF len
    <2>3. ASSUME routes[i].path_prefix = routes[m].path_prefix PROVE i <= m
      <3>1. len(i) = len(m)
        BY <2>3 DEF len
      <3>2. i \in longest
        BY <1>7, <3>1
      <3>3. QED BY <1>6, <3>2
    <2>4. QED BY <2>2, <2>3
  <1>9. m \in DOMAIN routes /\ IsRoute(routes[m]) /\ IsPrefix(routes[m].path_prefix, in.path)
    BY <1>1, <1>2, <1>7
  <1>10. QED BY <1>7, <1>8, <1>9 DEF m, c

-----------------------------------------------------------------------------
\* Rewriting.

\* What is cut off a sequence and put in front again gives the sequence.
LEMMA CutAndPaste ==
    ASSUME NEW T, NEW s \in Seq(T), NEW t \in Seq(T), IsPrefix(s, t)
    PROVE  s \o SubSeq(t, Len(s) + 1, Len(t)) = t
  <1> DEFINE n == Len(s)
             m == Len(t)
             u == SubSeq(t, n + 1, m)
  <1>1. n \in Nat /\ m \in Nat /\ n <= m
    BY DEF IsPrefix
  <1>2. u \in Seq(T) /\ Len(u) = m - n /\ \A i \in 1..(m - n) : u[i] = t[n + i]
    BY <1>1
  <1>3. \A i \in 1..n : s[i] = t[i]
    <2>1. SubSeq(s, 1, n) = SubSeq(t, 1, n)
      BY DEF IsPrefix
    <2>2. \A i \in 1..n : SubSeq(s, 1, n)[i] = s[i] /\ SubSeq(t, 1, n)[i] = t[i]
      BY <1>1
    <2>3. QED BY <2>1, <2>2
  <1> HIDE DEF u
  <1>4. s \o u \in Seq(T) /\ Len(s \o u) = m
    BY <1>1, <1>2
  <1>5. \A i \in 1..m : (s \o u)[i] = t[i]
    <2> SUFFICES ASSUME NEW i \in 1..m PROVE (s \o u)[i] = t[i]
      OBVIOUS
    <2>1. CASE i <= n
      BY <1>1, <1>2, <1>3, <2>1
    <2>2. CASE i > n
      <3>1. i - n \in 1..(m - n) /\ n + (i - n) = i
        BY <1>1, <2>2
      <3>2. u[i - n] = t[i]
        BY <1>2, <3>1
      <3>3. QED BY <1>1, <1>2, <2>2, <3>2
    <2>3. i <= n \/ i > n
      BY <1>1
    <2>4. QED BY <2>1, <2>2, <2>3, Zenon
  <1>6. s \o u = t
    BY <1>4, <1>5, SeqEqual
  <1>7. QED BY <1>6 DEF u

\* A prefix of the path is one of the path and what follows it.
LEMMA PrefixOfWhole ==
    ASSUME NEW T, NEW s \in Seq(T), NEW path \in Seq(T), NEW query \in Seq(T),
           IsPrefix(s, path)
    PROVE  IsPrefix(s, path \o query)
  <1> DEFINE whole == path \o query
  <1>1. Len(s) \in Nat /\ Len(path) \in Nat /\ Len(s) <= Len(path)
    BY DEF IsPrefix
  <1>2. whole \in Seq(T) /\ Len(whole) = Len(path) + Len(query) /\ Len(query) \in Nat
    OBVIOUS
  <1>3. \A i \in 1..Len(s) : whole[i] = path[i]
    BY <1>1
  <1>4. SubSeq(whole, 1, Len(s)) = SubSeq(path, 1, Len(s))
    <2>1. SubSeq(whole, 1, Len(s)) = [i \in 1..Len(s) |-> whole[i]]
      BY <1>1, <1>2
    <2>2. SubSeq(path, 1, Len(s)) = [i \in 1..Len(s) |-> path[i]]
      BY <1>1
    <2> HIDE DEF whole
    <2>3. QED BY <1>3, <2>1, <2>2
  <1> HIDE DEF whole
  <1>5. Len(s) <= Len(whole)
    BY <1>1, <1>2
  <1>6. QED BY <1>4, <1>5 DEF IsPrefix, whole

\* What follows the first part of a sequence made of two.
LEMMA CutFirst ==
    ASSUME NEW T, NEW s \in Seq(T), NEW t \in Seq(T)
    PROVE  SubSeq(s \o t, Len(s) + 1, Len(s \o t)) = t
  <1> DEFINE n == Len(s)
             m == Len(t)
             w == s \o t
             u == SubSeq(w, n + 1, Len(w))
  <1>1. n \in Nat /\ m \in Nat /\ w \in Seq(T) /\ Len(w) = n + m
    OBVIOUS
  <1>2. \A i \in 1..m : w[n + i] = t[i]
    BY <1>1
  <1> HIDE DEF w
  <1>3. u \in Seq(T) /\ Len(u) = m /\ \A i \in 1..m : u[i] = w[n + i]
    BY <1>1
  <1> HIDE DEF u
  <1>4. \A i \in 1..m : u[i] = t[i]
    BY <1>2, <1>3
  <1>5. u = t
    BY <1>3, <1>4, SeqEqual
  <1>6. QED BY <1>5 DEF u, w

\* rewrite_path_and_query loses nothing of a path that the route takes.
LEMMA RewriteUndone ==
    ASSUME NEW route, NEW in, IsRoute(route), IsPrefix(route.path_prefix, in.path),
           in.path \in Seq(STRING), in.query \in Seq(STRING)
    PROVE  LET replacement == route.transform.request.path_prefix_rewrite
               path == RewritePathAndQuery(route, in)
               cut  == IF replacement = Absent THEN Len(route.path_prefix)
                       ELSE Len(replacement)
           IN  route.path_prefix \o SubSeq(path, cut + 1, Len(path)) = in.path \o in.query
  <1> DEFINE replacement == route.transform.request.path_prefix_rewrite
             prefix == route.path_prefix
             whole == in.path \o in.query
             rest == SubSeq(whole, Len(prefix) + 1, Len(whole))
  <1>1. prefix \in Seq(STRING) /\ (replacement # Absent => replacement \in Seq(STRING))
    BY DEF IsRoute
  <1>2. whole \in Seq(STRING)
    OBVIOUS
  <1>3. IsPrefix(prefix, whole)
    BY <1>1, PrefixOfWhole
  <1>4. RewritePathAndQuery(route, in) =
          IF replacement = Absent THEN whole ELSE replacement \o rest
    BY DEF RewritePathAndQuery
  <1> HIDE DEF whole
  <1>5. prefix \o rest = whole
    BY <1>1, <1>2, <1>3, CutAndPaste
  <1>6. rest \in Seq(STRING)
    <2>1. Len(prefix) \in Nat /\ Len(whole) \in Nat
      BY <1>1, <1>2
    <2>2. QED BY <1>2, <2>1
  <1> HIDE DEF prefix, replacement
  <1>7. CASE replacement = Absent
    BY <1>4, <1>5, <1>7 DEF prefix, replacement, whole
  <1>8. CASE replacement # Absent
    <2> DEFINE path == replacement \o rest
    <2> HIDE DEF rest
    <2>1. SubSeq(path, Len(replacement) + 1, Len(path)) = rest
      BY <1>1, <1>6, <1>8, CutFirst
    <2>2. RewritePathAndQuery(route, in) = path
      BY <1>4, <1>8
    <2> HIDE DEF path
    <2>3. QED BY <1>5, <1>8, <2>1, <2>2 DEF prefix, replacement, whole, rest
  <1>9. QED BY <1>7, <1>8

-----------------------------------------------------------------------------
\* Headers.

\* What apply_header_transform makes of the headers.
LEMMA TransformMeans ==
    ASSUME NEW headers, NEW transform
    PROVE  LET kept == DOMAIN headers \ transform.remove_headers
               out  == ApplyHeaderTransform(headers, transform)
           IN  /\ DOMAIN out = DOMAIN transform.set_headers \union kept
                               \union DOMAIN transform.add_headers
               /\ \A n \in DOMAIN out :
                    out[n] = IF n \in DOMAIN transform.set_headers
                             THEN transform.set_headers[n]
                             ELSE IF n \in kept THEN headers[n]
                             ELSE transform.add_headers[n]
  <1> DEFINE kept == DOMAIN headers \ transform.remove_headers
             removed == Without(headers, transform.remove_headers)
             added == Over(removed, transform.add_headers)
             out == Over(transform.set_headers, added)
  <1>1. DOMAIN removed = kept /\ \A n \in kept : removed[n] = headers[n]
    BY DEF Without, Restrict
  <1> HIDE DEF removed
  <1>2. /\ DOMAIN added = kept \union DOMAIN transform.add_headers
        /\ \A n \in DOMAIN added :
             added[n] = IF n \in kept THEN headers[n] ELSE transform.add_headers[n]
    BY <1>1 DEF Over
  <1> HIDE DEF added
  <1>3. /\ DOMAIN out = DOMAIN transform.set_headers \union DOMAIN added
        /\ \A n \in DOMAIN out :
             out[n] = IF n \in DOMAIN transform.set_headers THEN transform.set_headers[n]
                      ELSE added[n]
    BY DEF Over
  <1> HIDE DEF out
  <1>4. ApplyHeaderTransform(headers, transform) = out
    BY DEF ApplyHeaderTransform, out, added, removed
  <1>5. QED BY <1>2, <1>3, <1>4

\* What the upstream gets of the client's headers and the route's.
LEMMA RequestHeadersMeans ==
    ASSUME NEW headers, NEW t
    PROVE  LET kept == DOMAIN headers \ (t.remove_headers \union HopByHop \union {"host"})
               out  == TransformRequestHeaders(headers, t)
           IN  /\ DOMAIN out = DOMAIN t.set_headers \union kept \union DOMAIN t.add_headers
               /\ \A n \in DOMAIN out :
                    out[n] = IF n \in DOMAIN t.set_headers THEN t.set_headers[n]
                             ELSE IF n \in kept THEN <<Last(headers[n])>>
                             ELSE t.add_headers[n]
  <1> DEFINE own == Without(headers, HopByHop \union {"host"})
             last == Inserted(own)
  <1>1. /\ DOMAIN own = DOMAIN headers \ (HopByHop \union {"host"})
        /\ \A n \in DOMAIN own : own[n] = headers[n]
    BY DEF Without, Restrict
  <1> HIDE DEF own
  <1>2. DOMAIN last = DOMAIN own /\ \A n \in DOMAIN own : last[n] = <<Last(headers[n])>>
    BY <1>1 DEF Inserted
  <1> HIDE DEF last
  <1>3. TransformRequestHeaders(headers, t) = ApplyHeaderTransform(last, t)
    BY DEF TransformRequestHeaders, last, own
  <1> DEFINE kept == DOMAIN headers \ (t.remove_headers \union HopByHop \union {"host"})
             out == ApplyHeaderTransform(last, t)
  <1>4. DOMAIN last \ t.remove_headers = kept
    BY <1>1, <1>2
  <1>5. /\ DOMAIN out = DOMAIN t.set_headers \union kept \union DOMAIN t.add_headers
        /\ \A n \in DOMAIN out :
             out[n] = IF n \in DOMAIN t.set_headers THEN t.set_headers[n]
                      ELSE IF n \in kept THEN last[n] ELSE t.add_headers[n]
    BY <1>4, TransformMeans
  <1>6. \A n \in kept : last[n] = <<Last(headers[n])>>
    BY <1>2, <1>4
  <1> HIDE DEF out, kept
  <1>7. /\ DOMAIN out = DOMAIN t.set_headers \union kept \union DOMAIN t.add_headers
        /\ \A n \in DOMAIN out :
             out[n] = IF n \in DOMAIN t.set_headers THEN t.set_headers[n]
                      ELSE IF n \in kept THEN <<Last(headers[n])>> ELSE t.add_headers[n]
    BY <1>5, <1>6
  <1>8. QED BY <1>3, <1>7 DEF out, kept

\* The client gets no header about the connection to the upstream.
LEMMA ResponseHeadersClean ==
    ASSUME NEW headers, NEW t
    PROVE  DOMAIN TransformResponseHeaders(headers, t) \intersect HopByHop = {}
  BY DEF TransformResponseHeaders, Without, Restrict

-----------------------------------------------------------------------------
\* Shares.

\* As many of the hundred buckets lie below a share as the share says.
LEMMA BucketsBelow ==
    ASSUME NEW p \in Nat, p <= 100
    PROVE  Cardinality({b \in 0..99 : b < p}) = p
  <1>1. {b \in 0..99 : b < p} = 0..(p - 1)
    OBVIOUS
  <1>2. Cardinality(0..(p - 1)) = IF 0 > p - 1 THEN 0 ELSE (p - 1) - 0 + 1
    BY FS_Interval
  <1>3. Cardinality(0..(p - 1)) = p
    BY <1>2
  <1> DEFINE below == {b \in 0..99 : b < p}
  <1> HIDE DEF below
  <1>4. Cardinality(below) = p
    BY <1>1, <1>3, Zenon DEF below
  <1>5. QED BY <1>4 DEF below

\* A route that validate accepts splits its requests as it says.
LEMMA SharesOfRoute ==
    ASSUME NEW route, NEW cfg, IsRoute(route), ValidRoute(cfg, route)
    PROVE  LET split == route.traffic_split
               fault == route.fault_injection
           IN  /\ split.canary_upstream \notin {Absent, route.upstream} =>
                    Cardinality({b \in 0..99 :
                       SelectUpstreamName(route, <<>>, b) = split.canary_upstream})
                    = split.canary_percentage
               /\ fault.enabled =>
                    Cardinality({b \in 0..99 : FaultHits(fault, b)})
                    = fault.probability_percent
  <1> DEFINE split == route.traffic_split
             fault == route.fault_injection
             canary == split.canary_upstream
             p == split.canary_percentage
             q == fault.probability_percent
  <1>1. p \in Nat /\ p <= 100 /\ q \in Nat /\ q <= 100
    <2>1. split \in TrafficSplitConfig /\ fault \in FaultInjectionConfig
      BY DEF IsRoute
    <2>2. p \in Nat /\ q \in Nat
      BY <2>1 DEF TrafficSplitConfig, FaultInjectionConfig
    <2>3. QED BY <2>2 DEF ValidRoute
  <1>2. ASSUME canary \notin {Absent, route.upstream}
        PROVE  Cardinality({b \in 0..99 : SelectUpstreamName(route, <<>>, b) = canary}) = p
    <2>1. ~ForcesCanary(split, <<>>)
      <3>1. DOMAIN <<>> = {}
        OBVIOUS
      <3>2. QED BY <3>1 DEF ForcesCanary
    <2>2. ASSUME NEW b \in 0..99
          PROVE  SelectUpstreamName(route, <<>>, b) = canary <=> b < p
      <3>1. InCanaryShare(split, b) <=> b < p
        BY <1>1 DEF InCanaryShare
      <3>2. SelectUpstreamName(route, <<>>, b)
              = IF canary # Absent /\ (ForcesCanary(split, <<>>) \/ InCanaryShare(split, b))
                THEN canary ELSE route.upstream
        BY DEF SelectUpstreamName
      <3>3. QED BY <1>2, <2>1, <3>1, <3>2
    <2>3. {b \in 0..99 : SelectUpstreamName(route, <<>>, b) = canary} = {b \in 0..99 : b < p}
      BY <2>2
    <2>4. QED BY <1>1, <2>3, BucketsBelow
  <1>3. ASSUME fault.enabled
        PROVE  Cardinality({b \in 0..99 : FaultHits(fault, b)}) = q
    <2>1. {b \in 0..99 : FaultHits(fault, b)} = {b \in 0..99 : b < q}
      BY <1>3 DEF FaultHits
    <2>2. QED BY <1>1, <2>1, BucketsBelow
  <1>4. QED BY <1>2, <1>3

-----------------------------------------------------------------------------
\* The inductive invariant: what is known of a handler's record.

Underway == {"limiter", "locking", "counter", "asleep", "attempt", "sent"}

\* The upstream is one the route names, and what it will be sent is what the route
\* makes of the request.
Aimed(h) ==
    LET route == config.routes[h.route]
    IN  /\ h.upstream \in DOMAIN config.upstreams
        /\ config.upstreams[h.upstream].name
             \in {route.upstream, route.traffic_split.canary_upstream}
        /\ h.path = RewritePathAndQuery(route, h.in)
        /\ h.headers = TransformRequestHeaders(h.in.headers, route.transform.request)

OnCourse(h) ==
    /\ IsHandler(h)
    /\ h.route # 0 => h.in \in scenario.inputs /\ h.route = MatchRoute(config.routes, h.in)
    /\ h.at \in Underway => h.route # 0
    /\ h.at # "done" => h.outcome = Absent
    /\ h.outcome # "upstream config not found"
    /\ h.outcome = "answered" => DOMAIN h.answer \intersect HopByHop = {}
    /\ h.at \in {"attempt", "sent"} => Aimed(h)
    /\ h.at = "sent" => config.upstreams[h.upstream].targets[h.target].weight > 0

Forwarded ==
    /\ scenario \in Scenarios /\ Validate(config)
    /\ DOMAIN req = Request
    /\ \A r \in Request : OnCourse(req[r])

\* What a valid configuration gives.
LEMMA ConfigTyped ==
    ASSUME Forwarded
    PROVE  /\ config.routes \in Seq({route \in ToSet(config.routes) : IsRoute(route)})
           /\ \A i \in DOMAIN config.routes : ValidRoute(config, config.routes[i])
           /\ \A i \in DOMAIN config.upstreams :
                /\ config.upstreams[i].targets # <<>>
                /\ config.upstreams[i].targets \in Seq(UpstreamTarget)
                /\ config.upstreams[i].strategy \in BalancingStrategy
           /\ DOMAIN config.upstreams \in SUBSET Nat
           /\ \A in \in scenario.inputs : in.path \in Seq(STRING) /\ in.query \in Seq(STRING)
  <1>1. /\ scenario \in Scenarios /\ config = scenario.config
        /\ Validate(config)
    BY DEF Forwarded, config
  <1>2. /\ config.routes \in Seq({route \in ToSet(config.routes) : IsRoute(route)})
        /\ config.upstreams \in Seq(ToSet(config.upstreams))
        /\ \A u \in ToSet(config.upstreams) :
             u.strategy \in BalancingStrategy /\ u.targets \in Seq(UpstreamTarget)
        /\ \A in \in scenario.inputs : in.path \in Seq(STRING) /\ in.query \in Seq(STRING)
    BY <1>1, AdmissionAssumption
  <1>3. DOMAIN config.upstreams \in SUBSET Nat
    BY <1>2
  <1>4. \A i \in DOMAIN config.upstreams : config.upstreams[i] \in ToSet(config.upstreams)
    BY DEF ToSet
  <1>5. QED BY <1>1, <1>2, <1>3, <1>4 DEF Validate

\* The route of a request on its way is one of the configuration's, and takes it.
LEMMA RouteTyped ==
    ASSUME Forwarded, NEW h, OnCourse(h), h.route # 0
    PROVE  LET route == config.routes[h.route]
           IN  /\ h.route \in DOMAIN config.routes
               /\ IsRoute(route) /\ ValidRoute(config, route)
               /\ IsPrefix(route.path_prefix, h.in.path)
               /\ h.in \in scenario.inputs
               /\ \A i \in Candidates(config.routes, h.in) :
                    /\ IsPrefix(config.routes[i].path_prefix, route.path_prefix)
                    /\ config.routes[i].path_prefix = route.path_prefix => i <= h.route
  <1>1. h.in \in scenario.inputs /\ h.route = MatchRoute(config.routes, h.in)
    BY DEF OnCourse
  <1>2. h.in.path \in Seq(STRING)
    BY <1>1, ConfigTyped
  <1>3. config.routes \in Seq({route \in ToSet(config.routes) : IsRoute(route)})
    BY ConfigTyped
  <1> DEFINE routes == config.routes
  <1> HIDE DEF routes
  <1>4. /\ h.route \in DOMAIN routes
        /\ IsRoute(routes[h.route]) /\ IsPrefix(routes[h.route].path_prefix, h.in.path)
        /\ \A i \in Candidates(routes, h.in) :
             /\ IsPrefix(routes[i].path_prefix, routes[h.route].path_prefix)
             /\ routes[i].path_prefix = routes[h.route].path_prefix => i <= h.route
    BY <1>1, <1>2, <1>3, RouteMatched DEF routes
  <1>5. ValidRoute(config, routes[h.route])
    BY <1>4, ConfigTyped DEF routes
  <1>6. QED BY <1>1, <1>4, <1>5 DEF routes

\* A handler that goes on leaves the others alone.
LEMMA HandlerMoves ==
    ASSUME Forwarded, NEW r \in Request, NEW h, OnCourse(h), UNCHANGED scenario,
           req' = [req EXCEPT ![r] = h]
    PROVE  Forwarded'
  <1>1. \A g : OnCourse(g)' <=> OnCourse(g)
    BY DEF OnCourse, Aimed, config, IsHandler
  <1>2. config' = config
    BY DEF config
  <1>3. \A q \in Request : req'[q] = IF q = r THEN h ELSE req[q]
    BY DEF Forwarded
  <1>4. \A q \in Request : OnCourse(req'[q])
    BY <1>3 DEF Forwarded
  <1>5. QED BY <1>1, <1>2, <1>4 DEF Forwarded

\* A handler that returns with an outcome that nothing is said of.
LEMMA EndsOnCourse ==
    ASSUME NEW g, OnCourse(g), NEW o, o \notin {"upstream config not found", "answered"}
    PROVE  OnCourse(Ended(g, o))
  <1> DEFINE h == Ended(g, o)
  <1>1. /\ IsHandler(h) /\ h.at = "done" /\ h.outcome = o
        /\ h.in = g.in /\ h.route = g.route
    BY DEF OnCourse, Ended, IsHandler
  <1> HIDE DEF h
  <1>2. OnCourse(h)
    BY <1>1 DEF OnCourse, Underway
  <1>3. QED BY <1>2 DEF h

\* A handler that goes on to a place where it has no upstream yet.
LEMMA WaitsOnCourse ==
    ASSUME NEW g, OnCourse(g), g.at \in Underway, NEW p \in {"locking", "counter", "asleep"},
           NEW c, NEW h, \/ h = [g EXCEPT !.at = p]
                         \/ h = [g EXCEPT !.at = p, !.count = c]
    PROVE  OnCourse(h)
  <1>1. /\ IsHandler(h) /\ h.at = p /\ h.in = g.in /\ h.route = g.route
        /\ h.outcome = g.outcome /\ h.answer = g.answer
    BY DEF OnCourse, IsHandler
  <1>2. g.at # "done"
    BY DEF Underway
  <1>3. QED BY <1>1, <1>2 DEF OnCourse, Underway

LEMMA IdleOnCourse == OnCourse(Idle)
  BY AbsentIsNoOutcome DEF OnCourse, Idle, IsHandler, Underway

\* A request comes.
LEMMA ArriveForwarded ==
    ASSUME Forwarded, NEW r \in Request, NEW in \in scenario.inputs, NEW allowed \in BOOLEAN,
           Arrive(r, in, allowed)
    PROVE  Forwarded'
  <1> DEFINE i == MatchRoute(config.routes, in)
             h == [Idle EXCEPT !.in = in, !.route = i]
             verdict == GateVerdict(in, i, allowed)
             passed == [h EXCEPT !.at = "limiter"]
             ended == Ended(h, verdict)
             g == IF verdict = "passed" THEN passed ELSE ended
  <1>1. /\ IsHandler(h) /\ h.in = in /\ h.route = i /\ h.outcome = Absent /\ h.at = "idle"
    <2> HIDE DEF i
    <2>1. QED BY DEF IsHandler, Idle
  <1>2. verdict = "passed" => i # 0
    BY DEF GateVerdict
  <1>3. verdict \notin {"upstream config not found", "answered"}
    BY DEF GateVerdict
  <1>4. UNCHANGED scenario /\ req' = [req EXCEPT ![r] = g]
    BY DEF Arrive
  <1> HIDE DEF h, verdict
  <1>5. OnCourse(h)
    BY <1>1, AbsentIsNoOutcome DEF OnCourse, Underway
  <1>6. verdict # "passed" => OnCourse(ended)
    BY <1>3, <1>5, EndsOnCourse
  <1>7. verdict = "passed" => OnCourse(passed)
    <2>1. /\ IsHandler(passed) /\ passed.at = "limiter" /\ passed.in = in
          /\ passed.route = i /\ passed.outcome = Absent
      BY <1>1 DEF IsHandler
    <2> HIDE DEF passed
    <2>2. QED BY <1>2, <2>1, AbsentIsNoOutcome DEF OnCourse, Underway
  <1> HIDE DEF passed, ended
  <1>8. OnCourse(g)
    BY <1>6, <1>7
  <1> HIDE DEF g
  <1>9. QED BY <1>4, <1>8, HandlerMoves

\* The upstream is selected; validate has seen to it that it is there.
LEMMA SelectedOnCourse ==
    ASSUME Forwarded, NEW r \in Request, req[r].at \in Underway, NEW count, NEW hit
    PROVE  OnCourse(AfterFault(r, count, hit))
  <1> DEFINE g == req[r]
             route == Route(r)
             name == SelectUpstreamName(route, g.in.headers,
                       Bucket(route.name, ClientKey(route, g.in), count))
             found == {i \in DOMAIN config.upstreams : config.upstreams[i].name = name}
             path == RewritePathAndQuery(route, g.in)
             headers == TransformRequestHeaders(g.in.headers, route.transform.request)
             ready == [g EXCEPT !.at = "attempt", !.count = 0, !.upstream = Min(found),
                                !.path = path, !.headers = headers]
             lost == Ended(g, "upstream config not found")
  <1>1. OnCourse(g) /\ g.route # 0 /\ g.outcome = Absent /\ g.at # "done"
    BY DEF Forwarded, OnCourse, Underway
  <1>2. route = config.routes[g.route]
    BY DEF Route
  <1>3. ValidRoute(config, route)
    BY <1>1, <1>2, RouteTyped
  <1>4. name \in {route.upstream, route.traffic_split.canary_upstream} /\ name \in UpstreamNames(config)
    <2> HIDE DEF route
    <2>1. \A headrs, bucket :
             LET n == SelectUpstreamName(route, headrs, bucket)
             IN  n = route.upstream \/ (n # Absent /\ n = route.traffic_split.canary_upstream)
      BY DEF SelectUpstreamName
    <2>2. name = route.upstream \/ (name # Absent /\ name = route.traffic_split.canary_upstream)
      BY <2>1
    <2> HIDE DEF name
    <2>3. QED BY <1>3, <2>2 DEF ValidRoute
  <1>5. found # {} /\ found \in SUBSET Nat
    <2> HIDE DEF name
    <2>1. QED BY <1>4, ConfigTyped DEF UpstreamNames
  <1>6. Min(found) \in found
    <2> HIDE DEF found
    <2>1. QED BY <1>5, MinOfNats
  <1>7. Min(found) \in DOMAIN config.upstreams /\ config.upstreams[Min(found)].name = name
    <2> HIDE DEF name
    <2>1. QED BY <1>6
  <1>8. Selected(r, count) = ready
    <2>1. Selected(r, count) = IF found = {} THEN lost ELSE ready
      BY DEF Selected
    <2> HIDE DEF found, ready, lost
    <2>2. QED BY <1>5, <2>1
  <1> HIDE DEF name, path, headers, found, route
  <1>9. OnCourse(ready)
    <2>1. /\ IsHandler(ready) /\ ready.at = "attempt" /\ ready.upstream = Min(found)
          /\ ready.path = path /\ ready.headers = headers
          /\ ready.in = g.in /\ ready.route = g.route /\ ready.outcome = Absent
      BY <1>1 DEF OnCourse, IsHandler
    <2> HIDE DEF ready
    <2>2. Aimed(ready)
      BY <1>2, <1>4, <1>7, <2>1 DEF Aimed, path, headers
    <2>3. QED BY <1>1, <2>1, <2>2, AbsentIsNoOutcome DEF OnCourse, Underway
  <1>10. OnCourse(Ended([g EXCEPT !.count = 0], "fault injection abort"))
    <2> DEFINE h == [g EXCEPT !.count = 0]
    <2>1. /\ IsHandler(h) /\ h.at = g.at /\ h.upstream = g.upstream /\ h.target = g.target
          /\ h.path = g.path /\ h.headers = g.headers /\ h.answer = g.answer
          /\ h.in = g.in /\ h.route = g.route /\ h.outcome = g.outcome
      BY <1>1 DEF OnCourse, IsHandler
    <2> HIDE DEF h
    <2>2. OnCourse(h)
      BY <1>1, <2>1 DEF OnCourse, Aimed
    <2>3. OnCourse(Ended(h, "fault injection abort"))
      BY <2>2, EndsOnCourse
    <2>4. QED BY <2>3 DEF h
  <1> HIDE DEF ready
  <1>11. QED BY <1>8, <1>9, <1>10 DEF AfterFault

\* A target is chosen, one of the upstream's that takes a share.
LEMMA AttemptForwarded ==
    ASSUME Forwarded, NEW r \in Request, Attempt(r)
    PROVE  Forwarded'
  <1> DEFINE g      == req[r]
             u      == config.upstreams[g.upstream]
             hash   == Hash[<<"target", ClientKey(Route(r), g.in), 0>>]
             chosen == SelectTarget(u.strategy, u.targets, hash, request_counter)
             lost   == Ended(g, "no healthy upstream target available")
             sent   == [g EXCEPT !.at = "sent", !.target = chosen]
             h      == IF chosen = None THEN lost ELSE sent
  <1>1. g.at = "attempt" /\ UNCHANGED scenario /\ req' = [req EXCEPT ![r] = h]
    BY DEF Attempt
  <1>2. OnCourse(g) /\ Aimed(g) /\ g.route # 0 /\ g.outcome = Absent
    BY <1>1 DEF Forwarded, OnCourse, Underway
  <1>3. u.targets \in Seq(UpstreamTarget) /\ u.strategy \in BalancingStrategy
    BY <1>2, ConfigTyped DEF Aimed
  <1> HIDE DEF hash
  <1>4. chosen # None => u.targets[chosen].weight > 0
    <2> DEFINE list == u.targets
               strategy == u.strategy
    <2> HIDE DEF list, strategy
    <2>1. list \in Seq(UpstreamTarget) /\ strategy \in BalancingStrategy
      BY <1>3 DEF list, strategy
    <2>2. \/ SelectTarget(strategy, list, hash, request_counter) = None
          \/ /\ SelectTarget(strategy, list, hash, request_counter) \in DOMAIN list
             /\ list[SelectTarget(strategy, list, hash, request_counter)].weight # 0
      BY <2>1, SelectTargetInList
    <2>3. \A i \in DOMAIN list : list[i].weight \in Nat
      <3>1. \A i \in DOMAIN list : list[i] \in UpstreamTarget
        BY <2>1
      <3>2. \A t \in UpstreamTarget : t.weight \in Nat
        BY DEF UpstreamTarget
      <3>3. QED BY <3>1, <3>2
    <2>4. \A i \in DOMAIN list : list[i].weight # 0 => list[i].weight > 0
      BY <2>3
    <2>5. QED BY <2>2, <2>4 DEF list, strategy
  <1> HIDE DEF chosen
  <1>5. OnCourse(lost)
    BY <1>2, EndsOnCourse
  <1>6. ASSUME chosen # None PROVE OnCourse(sent)
    <2>1. /\ IsHandler(sent) /\ sent.at = "sent" /\ sent.upstream = g.upstream
          /\ sent.target = chosen /\ sent.path = g.path /\ sent.headers = g.headers
          /\ sent.in = g.in /\ sent.route = g.route /\ sent.outcome = Absent
      BY <1>2 DEF OnCourse, IsHandler
    <2> HIDE DEF sent
    <2>2. Aimed(sent)
      BY <1>2, <2>1 DEF Aimed
    <2>3. config.upstreams[sent.upstream].targets[sent.target].weight > 0
      BY <1>4, <1>6, <2>1
    <2>4. QED BY <1>2, <2>1, <2>2, <2>3, AbsentIsNoOutcome DEF OnCourse, Underway
  <1> HIDE DEF lost, sent
  <1>7. OnCourse(h)
    BY <1>5, <1>6
  <1> HIDE DEF h
  <1>8. QED BY <1>1, <1>7, HandlerMoves

\* Every step keeps the handlers on course.
LEMMA ForwardedStep == Forwarded /\ [Next]_vars => Forwarded'
  <1> SUFFICES ASSUME Forwarded, [Next]_vars PROVE Forwarded'
    OBVIOUS
  <1>0. \A r \in Request : OnCourse(req[r])
    BY DEF Forwarded
  <1>1. ASSUME NEW r \in Request, NEW in \in scenario.inputs, NEW allowed \in BOOLEAN,
               Arrive(r, in, allowed)
        PROVE  Forwarded'
    BY <1>1, ArriveForwarded
  <1>2. ASSUME NEW r \in Request, LimiterOff(r) PROVE Forwarded'
    <2> DEFINE h == [req[r] EXCEPT !.at = "counter"]
    <2>1. req[r].at = "limiter" /\ UNCHANGED scenario /\ req' = [req EXCEPT ![r] = h]
      BY <1>2 DEF LimiterOff
    <2>2. OnCourse(h)
      BY <1>0, <2>1, WaitsOnCourse DEF Underway
    <2> HIDE DEF h
    <2>3. QED BY <2>1, <2>2, HandlerMoves
  <1>3. ASSUME NEW r \in Request, LimiterBegin(r) PROVE Forwarded'
    <2> DEFINE h == [req[r] EXCEPT !.at = "locking"]
    <2>1. req[r].at = "limiter" /\ UNCHANGED scenario /\ req' = [req EXCEPT ![r] = h]
      BY <1>3 DEF LimiterBegin
    <2>2. OnCourse(h)
      BY <1>0, <2>1, WaitsOnCourse DEF Underway
    <2> HIDE DEF h
    <2>3. QED BY <2>1, <2>2, HandlerMoves
  <1>4. ASSUME NEW r \in Request, LimiterDecide(r) PROVE Forwarded'
    <2> DEFINE counted == [req[r] EXCEPT !.at = "counter"]
               refused == Ended(req[r], "rate limit exceeded")
               h == IF log' # log THEN counted ELSE refused
    <2>1. req[r].at = "locking" /\ UNCHANGED scenario /\ req' = [req EXCEPT ![r] = h]
      BY <1>4 DEF LimiterDecide
    <2>2. OnCourse(counted)
      BY <1>0, <2>1, WaitsOnCourse DEF Underway
    <2>3. OnCourse(refused)
      BY <1>0, EndsOnCourse
    <2> HIDE DEF counted, refused
    <2>4. OnCourse(h)
      BY <2>2, <2>3
    <2> HIDE DEF h
    <2>5. QED BY <2>1, <2>4, HandlerMoves
  <1>5. ASSUME NEW r \in Request, LoadCounter(r) PROVE Forwarded'
    <2> DEFINE fault == Route(r).fault_injection
               key   == ClientKey(Route(r), req[r].in)
               hit   == FaultHits(fault, Bucket("fault-injection", key, request_counter))
               asleep == [req[r] EXCEPT !.at = "asleep", !.count = request_counter]
               after == AfterFault(r, request_counter, hit)
               h == IF hit /\ FaultSleeps(fault, key, request_counter)
                    THEN asleep ELSE after
    <2>1. req[r].at = "counter" /\ UNCHANGED scenario /\ req' = [req EXCEPT ![r] = h]
      BY <1>5 DEF LoadCounter
    <2>2. OnCourse(asleep)
      BY <1>0, <2>1, WaitsOnCourse DEF Underway
    <2>3. OnCourse(after)
      BY <2>1, SelectedOnCourse DEF Underway
    <2> HIDE DEF asleep, after, hit, fault, key
    <2>4. OnCourse(h)
      BY <2>2, <2>3
    <2> HIDE DEF h
    <2>5. QED BY <2>1, <2>4, HandlerMoves
  <1>6. ASSUME NEW r \in Request, Wake(r) PROVE Forwarded'
    <2> DEFINE h == AfterFault(r, req[r].count, TRUE)
    <2>1. req[r].at = "asleep" /\ UNCHANGED scenario /\ req' = [req EXCEPT ![r] = h]
      BY <1>6 DEF Wake
    <2>2. OnCourse(h)
      BY <2>1, SelectedOnCourse DEF Underway
    <2> HIDE DEF h
    <2>3. QED BY <2>1, <2>2, HandlerMoves
  <1>7. ASSUME NEW r \in Request, Attempt(r) PROVE Forwarded'
    BY <1>7, AttemptForwarded
  <1>8. ASSUME NEW r \in Request, Retry(r) PROVE Forwarded'
    <2> DEFINE g == req[r]
               h == [g EXCEPT !.at = "attempt", !.target = 0]
    <2>1. g.at = "sent" /\ UNCHANGED scenario
      BY <1>8 DEF Retry
    <2>2. req' = [req EXCEPT ![r] = h]
      BY <1>8 DEF Retry, Forwarded
    <2>3. OnCourse(g) /\ Aimed(g) /\ g.route # 0 /\ g.outcome = Absent
      BY <1>0, <2>1 DEF OnCourse, Underway
    <2>4. /\ IsHandler(h) /\ h.at = "attempt" /\ h.upstream = g.upstream
          /\ h.path = g.path /\ h.headers = g.headers
          /\ h.in = g.in /\ h.route = g.route /\ h.outcome = Absent
      BY <2>3 DEF OnCourse, IsHandler
    <2> HIDE DEF h, g
    <2>5. Aimed(h)
      BY <2>3, <2>4 DEF Aimed
    <2>6. OnCourse(h)
      BY <2>3, <2>4, <2>5, AbsentIsNoOutcome DEF OnCourse, Underway
    <2>7. QED BY <2>1, <2>2, <2>6, HandlerMoves
  <1>9. ASSUME NEW r \in Request, NEW headers \in scenario.responses, Receive(r, headers)
        PROVE  Forwarded'
    <2> DEFINE g == req[r]
               answer == TransformResponseHeaders(headers, Route(r).transform.response)
               e == Ended(g, "answered")
               h == [e EXCEPT !.answer = answer]
    <2>1. g.at = "sent" /\ UNCHANGED scenario /\ req' = [req EXCEPT ![r] = h]
      BY <1>9 DEF Receive
    <2>2. DOMAIN answer \intersect HopByHop = {}
      BY ResponseHeadersClean
    <2>3. /\ IsHandler(e) /\ e.at = "done" /\ e.in = g.in /\ e.route = g.route
          /\ e.outcome = "answered"
      BY <1>0 DEF OnCourse, IsHandler, Ended
    <2> HIDE DEF e, answer
    <2>4. /\ IsHandler(h) /\ h.at = "done" /\ h.in = g.in /\ h.route = g.route
          /\ h.outcome = "answered" /\ h.answer = answer
      BY <2>3 DEF IsHandler
    <2> HIDE DEF h
    <2>5. OnCourse(h)
      BY <1>0, <2>2, <2>4 DEF OnCourse, Underway
    <2>6. QED BY <2>1, <2>5, HandlerMoves
  <1>10. ASSUME NEW r \in Request, Fail(r) PROVE Forwarded'
    <2> DEFINE h == Ended(req[r], "failed")
    <2>1. UNCHANGED scenario /\ req' = [req EXCEPT ![r] = h]
      BY <1>10 DEF Fail
    <2>2. OnCourse(h)
      BY <1>0, EndsOnCourse
    <2> HIDE DEF h
    <2>3. QED BY <2>1, <2>2, HandlerMoves
  <1>11. ASSUME UNCHANGED <<scenario, req>> PROVE Forwarded'
    <2>1. \A g : OnCourse(g)' <=> OnCourse(g)
      BY <1>11 DEF OnCourse, Aimed, config, IsHandler
    <2>2. config' = config
      BY <1>11 DEF config
    <2>3. QED BY <1>11, <2>1, <2>2 DEF Forwarded
  <1>12. CASE Tick
    BY <1>11, <1>12 DEF Tick
  <1>13. CASE UNCHANGED vars
    BY <1>11, <1>13 DEF vars
  <1>14. QED
    BY <1>1, <1>2, <1>3, <1>4, <1>5, <1>6, <1>7, <1>8, <1>9, <1>10, <1>12, <1>13
       DEF Next

\* A handler keeps the request, the route and the upstream it has settled on, and
\* what it has put together for the upstream (main.rs:233-419).
THEOREM ForwardedHolds == Spec => []Forwarded
  <1>1. Init => Forwarded
    <2> SUFFICES ASSUME Init PROVE Forwarded
      OBVIOUS
    <2>1. scenario \in Scenarios /\ Validate(config)
      BY DEF Init, config
    <2>2. DOMAIN req = Request /\ \A r \in Request : req[r] = Idle
      BY DEF Init
    <2>3. QED BY <2>1, <2>2, IdleOnCourse DEF Forwarded
  <1>2. QED BY <1>1, ForwardedStep, PTL DEF Spec

-----------------------------------------------------------------------------
\* The properties.

\* With a configuration that validate accepts, no request is sent to an upstream
\* that is not there, or to a target without a weight (config.rs:360-409,
\* main.rs:294-311,342-346).
THEOREM UpstreamIsFound == Spec => []UpstreamFound
  <1>1. Forwarded => UpstreamFound
    <2> SUFFICES ASSUME Forwarded, NEW r \in Request
                 PROVE  /\ req[r].outcome # "upstream config not found"
                        /\ req[r].at \in {"attempt", "sent"} =>
                             LET u == config.upstreams[req[r].upstream]
                             IN  /\ u.name \in {Route(r).upstream,
                                                Route(r).traffic_split.canary_upstream}
                                 /\ u.targets # <<>>
                                 /\ req[r].at = "sent" => u.targets[req[r].target].weight > 0
      BY DEF UpstreamFound
    <2>1. OnCourse(req[r])
      BY DEF Forwarded
    <2>2. req[r].outcome # "upstream config not found"
      BY <2>1 DEF OnCourse
    <2>3. ASSUME req[r].at \in {"attempt", "sent"}
          PROVE  LET u == config.upstreams[req[r].upstream]
                 IN  /\ u.name \in {Route(r).upstream, Route(r).traffic_split.canary_upstream}
                     /\ u.targets # <<>>
                     /\ req[r].at = "sent" => u.targets[req[r].target].weight > 0
      <3>1. Aimed(req[r]) /\ (req[r].at = "sent" =>
                config.upstreams[req[r].upstream].targets[req[r].target].weight > 0)
        BY <2>1, <2>3 DEF OnCourse
      <3>2. config.upstreams[req[r].upstream].targets # <<>>
        BY <3>1, ConfigTyped DEF Aimed
      <3>3. QED BY <3>1, <3>2 DEF Aimed, Route
    <2>4. QED BY <2>2, <2>3
  <1>2. QED BY <1>1, ForwardedHolds, PTL

\* Among the routes that take a request the most specific is used, and the last
\* of those that are equally so (match_route, router.rs:98-106).
THEOREM RouteIsMostSpecific == Spec => []RouteMostSpecific
  <1>1. Forwarded => RouteMostSpecific
    <2> SUFFICES ASSUME Forwarded, NEW r \in Request, req[r].route # 0,
                        NEW i \in Candidates(config.routes, req[r].in)
                 PROVE  /\ IsPrefix(config.routes[i].path_prefix, Route(r).path_prefix)
                        /\ config.routes[i].path_prefix = Route(r).path_prefix =>
                             i <= req[r].route
      BY DEF RouteMostSpecific
    <2>1. OnCourse(req[r])
      BY DEF Forwarded
    <2>2. QED BY <2>1, RouteTyped DEF Route
  <1>2. QED BY <1>1, ForwardedHolds, PTL

\* Exactly the configured share of the buckets goes to the canary, or is hit by a
\* fault, for every share that validate accepts (main.rs:490-499,613-616).
THEOREM SharesAreExact == Spec => []SharesExact
  <1>1. Forwarded => SharesExact
    <2> SUFFICES ASSUME Forwarded, NEW i \in DOMAIN config.routes
                 PROVE  LET route == config.routes[i]
                            split == route.traffic_split
                            fault == route.fault_injection
                        IN  /\ split.canary_upstream \notin {Absent, route.upstream} =>
                                 Cardinality({b \in 0..99 :
                                    SelectUpstreamName(route, <<>>, b) = split.canary_upstream})
                                 = split.canary_percentage
                            /\ fault.enabled =>
                                 Cardinality({b \in 0..99 : FaultHits(fault, b)})
                                 = fault.probability_percent
      BY DEF SharesExact
    <2>1. IsRoute(config.routes[i]) /\ ValidRoute(config, config.routes[i])
      BY ConfigTyped
    <2>2. QED BY <2>1, SharesOfRoute
  <1>2. QED BY <1>1, ForwardedHolds, PTL

\* The rewritten path still holds all of the client's path and query behind the
\* prefix, whatever the prefix is replaced with (main.rs:541-551).
THEOREM RewriteIsReversible == Spec => []RewriteReversible
  <1>1. Forwarded => RewriteReversible
    <2> SUFFICES ASSUME Forwarded, NEW r \in OnTheWay
                 PROVE  LET replacement == Route(r).transform.request.path_prefix_rewrite
                            cut == IF replacement = Absent THEN Len(Route(r).path_prefix)
                                   ELSE Len(replacement)
                        IN  Route(r).path_prefix
                              \o SubSeq(req[r].path, cut + 1, Len(req[r].path))
                            = req[r].in.path \o req[r].in.query
      BY DEF RewriteReversible
    <2>1. r \in Request /\ OnCourse(req[r]) /\ req[r].at \in {"attempt", "sent"}
      BY DEF Forwarded, OnTheWay
    <2>2. Aimed(req[r]) /\ req[r].route # 0
      BY <2>1 DEF OnCourse, Underway
    <2>3. /\ IsRoute(Route(r)) /\ IsPrefix(Route(r).path_prefix, req[r].in.path)
          /\ req[r].in \in scenario.inputs
      BY <2>1, <2>2, RouteTyped DEF Route
    <2>4. req[r].in.path \in Seq(STRING) /\ req[r].in.query \in Seq(STRING)
      BY <2>3, ConfigTyped
    <2>5. req[r].path = RewritePathAndQuery(Route(r), req[r].in)
      BY <2>2 DEF Aimed, Route
    <2>6. QED BY <2>3, <2>4, <2>5, RewriteUndone
  <1>2. QED BY <1>1, ForwardedHolds, PTL

\* The upstream reads under each name what the route and the client say, in that
\* order of precedence, and the client gets no header about the connection to the
\* upstream (main.rs:400-404,553-600,660-672).
THEOREM HeadersAreExplained == Spec => []HeadersExplained
  <1>1. Forwarded => HeadersExplained
    <2> SUFFICES ASSUME Forwarded PROVE HeadersExplained
      OBVIOUS
    <2>1. ASSUME NEW r \in Request, req[r].outcome = "answered"
          PROVE  DOMAIN req[r].answer \intersect HopByHop = {}
      BY <2>1 DEF Forwarded, OnCourse
    <2>2. ASSUME NEW r \in OnTheWay
          PROVE  LET t == Route(r).transform.request
                     kept == DOMAIN req[r].in.headers
                             \ (t.remove_headers \union HopByHop \union {"host"})
                 IN  /\ DOMAIN req[r].headers =
                          DOMAIN t.set_headers \union kept \union DOMAIN t.add_headers
                     /\ \A n \in DOMAIN req[r].headers :
                          req[r].headers[n] =
                             IF n \in DOMAIN t.set_headers THEN t.set_headers[n]
                             ELSE IF n \in kept THEN <<Last(req[r].in.headers[n])>>
                             ELSE t.add_headers[n]
      <3>1. Aimed(req[r])
        BY <2>2 DEF Forwarded, OnTheWay, OnCourse
      <3>2. req[r].headers
              = TransformRequestHeaders(req[r].in.headers, Route(r).transform.request)
        BY <3>1 DEF Aimed, Route
      <3> DEFINE headers == req[r].in.headers
                 tr == Route(r).transform.request
                 out == req[r].headers
      <3> HIDE DEF headers, tr, out
      <3>3. out = TransformRequestHeaders(headers, tr)
        BY <3>2 DEF headers, tr, out
      <3> DEFINE kept == DOMAIN headers \ (tr.remove_headers \union HopByHop \union {"host"})
      <3>4. /\ DOMAIN out = DOMAIN tr.set_headers \union kept \union DOMAIN tr.add_headers
            /\ \A n \in DOMAIN out :
                 out[n] = IF n \in DOMAIN tr.set_headers THEN tr.set_headers[n]
                          ELSE IF n \in kept THEN <<Last(headers[n])>>
                          ELSE tr.add_headers[n]
        BY <3>3, RequestHeadersMeans
      <3>5. QED BY <3>4 DEF headers, tr, out
    <2>3. QED BY <2>1, <2>2 DEF HeadersExplained
  <1>2. QED BY <1>1, ForwardedHolds, PTL

-----------------------------------------------------------------------------
\* The limiter inside the handlers.

\* A handler that calls the limiter does so with a context of its own request.
LEMMA CallsWithContext ==
    ASSUME Forwarded, NEW r \in Request, req[r].at = "limiter", config.rate_limit.enabled
    PROVE  ContextOf(config, Route(r), req[r].in) \in Context
  <1>1. OnCourse(req[r]) /\ req[r].route # 0
    BY DEF Forwarded, OnCourse, Underway
  <1>2. req[r].route \in DOMAIN config.routes /\ req[r].in \in scenario.inputs
    BY <1>1, RouteTyped
  <1>3. scenario \in Scenarios /\ config = scenario.config
    BY DEF Forwarded, config
  <1>4. QED BY <1>2, <1>3, ContextAssumption DEF Route

\* Every step of the handlers is a step of the limiter or none.
LEMMA LimiterStep ==
    ASSUME Forwarded, [Next]_vars
    PROVE  [Limiter!Next]_(Limiter!vars)
  <1>1. ASSUME NEW r \in Request, LimiterBegin(r) PROVE Limiter!Next
    <2>1. /\ req[r].at = "limiter"
          /\ Limiter!Sample(r, ContextOf(config, Route(r), req[r].in))
      BY <1>1 DEF LimiterBegin
    <2>2. ContextOf(config, Route(r), req[r].in) \in Context
      BY <2>1, CallsWithContext DEF Limiter!Sample
    <2>3. QED BY <2>1, <2>2 DEF Limiter!Next
  <1>2. ASSUME NEW r \in Request, LimiterDecide(r) PROVE Limiter!Next
    BY <1>2 DEF LimiterDecide, Limiter!Next
  <1>3. ASSUME Tick PROVE Limiter!Next
    BY <1>3 DEF Tick, Limiter!Next
  <1>4. ASSUME UNCHANGED <<scenario, limiter>> PROVE UNCHANGED Limiter!vars
    BY <1>4 DEF limiter, Limiter!vars, config
  <1>5. ASSUME NEW r \in Request, NEW in \in scenario.inputs, NEW allowed \in BOOLEAN,
               Arrive(r, in, allowed)
        PROVE  UNCHANGED Limiter!vars
    BY <1>4, <1>5 DEF Arrive
  <1>6. ASSUME NEW r \in Request,
               LimiterOff(r) \/ LoadCounter(r) \/ Wake(r) \/ Attempt(r) \/ Retry(r) \/ Fail(r)
        PROVE  UNCHANGED Limiter!vars
    BY <1>4, <1>6 DEF LimiterOff, LoadCounter, Wake, Attempt, Retry, Fail
  <1>7. ASSUME NEW r \in Request, NEW headers \in scenario.responses, Receive(r, headers)
        PROVE  UNCHANGED Limiter!vars
    BY <1>4, <1>7 DEF Receive
  <1>8. ASSUME UNCHANGED vars PROVE UNCHANGED Limiter!vars
    BY <1>4, <1>8 DEF vars
  <1>9. QED
    BY <1>1, <1>2, <1>3, <1>5, <1>6, <1>7, <1>8 DEF Next

\* The handlers use the limiter only as its specification says: the clock is read,
\* then the check is made under the lock with that reading and its decision saved,
\* and no other step of a handler touches the limiter's state (main.rs:275-285).
THEOREM LimiterImplemented == Spec => LimiterSpec
  <1>1. Init => Limiter!Init
    <2> SUFFICES ASSUME Init PROVE config.rate_limit \in Configs
      BY DEF Init
    <2>1. QED BY AdmissionAssumption DEF Init, config
  <1>2. QED BY <1>1, LimiterStep, ForwardedHolds, PTL DEF Spec, LimiterSpec, Limiter!Spec

\* What is proved about the rate limiter, for the one the handlers use.
LP == INSTANCE RateLimiter_proofs WITH Thread <- Request, config <- config.rate_limit

LEMMA LimiterProvedFor == LP!LimiterAssumption
  BY ContextAssumption
     DEF Limiter!LimiterAssumption, LP!LimiterAssumption, Limiter!RateLimitConfig,
         LP!RateLimitConfig, Limiter!Rule, LP!Rule, Limiter!Unset, LP!Unset,
         Limiter!Policies, LP!Policies, Limiter!Scopes, LP!Scopes

\* It is the same limiter.
LEMMA SameLimiter ==
    /\ Limiter!Init => LP!Init
    /\ Limiter!EffectiveRules = LP!EffectiveRules
    /\ \A t : Limiter!Check(t) => LP!Check(t)
    /\ [Limiter!Next]_(Limiter!vars) => [LP!Next]_(LP!vars)
  <1>1. /\ Limiter!Unset = LP!Unset /\ Limiter!Scopes = LP!Scopes
        /\ Limiter!NoConsumer = LP!NoConsumer /\ Limiter!Anonymous = LP!Anonymous
        /\ Limiter!LimitStateDefault = LP!LimitStateDefault
    BY DEF Limiter!Unset, LP!Unset, Limiter!Scopes, LP!Scopes, Limiter!NoConsumer,
           LP!NoConsumer, Limiter!Anonymous, LP!Anonymous, Limiter!LimitStateDefault,
           LP!LimitStateDefault
  <1>2. \A s, c : Limiter!StateKey(s, c) = LP!StateKey(s, c)
    BY <1>1 DEF Limiter!StateKey, LP!StateKey, Limiter!ValueKey, LP!ValueKey
  <1>3. Limiter!StateKeys = LP!StateKeys
    BY <1>1, <1>2 DEF Limiter!StateKeys, LP!StateKeys
  <1>4. Limiter!EffectiveRules = LP!EffectiveRules
    BY <1>1 DEF Limiter!EffectiveRules, LP!EffectiveRules, Limiter!DefaultRule, LP!DefaultRule
  <1>5. \A n, m : Limiter!DurationSince(n, m) = LP!DurationSince(n, m)
    BY DEF Limiter!DurationSince, LP!DurationSince
  <1>6. \A ok, s : Limiter!Verdict(ok, s) = LP!Verdict(ok, s)
    BY DEF Limiter!Verdict, LP!Verdict
  <1>7. \A rule : Limiter!WindowOf(rule) = LP!WindowOf(rule)
    BY DEF Limiter!WindowOf, LP!WindowOf, Limiter!AtLeastOne, LP!AtLeastOne
  <1>8. \A s, now, cap, rate, unit :
          Limiter!TokenBucket(s, now, cap, rate, unit) = LP!TokenBucket(s, now, cap, rate, unit)
    BY DEF Limiter!TokenBucket, LP!TokenBucket, Limiter!Unset, LP!Unset, Limiter!Verdict,
           LP!Verdict, Limiter!DurationSince, LP!DurationSince
  <1>9. \A s, now, rule :
          Limiter!FixedWindowPolicy(s, now, rule) = LP!FixedWindowPolicy(s, now, rule)
    BY DEF Limiter!FixedWindowPolicy, LP!FixedWindowPolicy, Limiter!Unset, LP!Unset,
           Limiter!Verdict, LP!Verdict, Limiter!DurationSince, LP!DurationSince,
           Limiter!WindowOf, LP!WindowOf, Limiter!AtLeastOne, LP!AtLeastOne
  <1>10. \A hits, now, window :
          Limiter!PopExpired(hits, now, window) = LP!PopExpired(hits, now, window)
    BY DEF Limiter!PopExpired, LP!PopExpired, Limiter!DurationSince, LP!DurationSince
  <1>11. \A s, now, rule :
          Limiter!SlidingWindowPolicy(s, now, rule) = LP!SlidingWindowPolicy(s, now, rule)
    BY <1>6, <1>7, <1>10 DEF Limiter!SlidingWindowPolicy, LP!SlidingWindowPolicy
  <1>12. \A rule : Limiter!PolicyOf(rule) = LP!PolicyOf(rule)
    BY DEF Limiter!PolicyOf, LP!PolicyOf
  <1>13. \A s, now, rule : Limiter!ApplyPolicy(s, now, rule) = LP!ApplyPolicy(s, now, rule)
    BY <1>7, <1>8, <1>9, <1>11, <1>12 DEF Limiter!ApplyPolicy, LP!ApplyPolicy
  <1>14. \A s, rule : Limiter!QuotaUsedUp(s, rule) = LP!QuotaUsedUp(s, rule)
    BY <1>1 DEF Limiter!QuotaUsedUp, LP!QuotaUsedUp
  <1>15. \A rule, ctx, now : Limiter!Staged(rule, ctx, now) = LP!Staged(rule, ctx, now)
    BY <1>2, <1>13, <1>14 DEF Limiter!Staged, LP!Staged
  <1>16. \A ctx, now : Limiter!Committed(ctx, now) = LP!Committed(ctx, now)
    <2> SUFFICES ASSUME NEW ctx, NEW now
                 PROVE  Limiter!Committed(ctx, now) = LP!Committed(ctx, now)
      OBVIOUS
    <2> DEFINE mine(k) == {i \in DOMAIN LP!EffectiveRules :
                              LP!StateKey(LP!EffectiveRules[i].scope, ctx) = k}
               last(k) == CHOOSE i \in mine(k) : \A j \in mine(k) : j <= i
               stored(k) == IF mine(k) = {} THEN states[k]
                            ELSE Limiter!Staged(LP!EffectiveRules[last(k)], ctx, now).state
    <2>1. Limiter!Committed(ctx, now) = [k \in Limiter!StateKeys |-> stored(k)]
      BY DEF Limiter!Committed, Limiter!EffectiveRules, LP!EffectiveRules,
             Limiter!DefaultRule, LP!DefaultRule, Limiter!Unset, LP!Unset,
             Limiter!StateKey, LP!StateKey, Limiter!ValueKey, LP!ValueKey,
             Limiter!NoConsumer, LP!NoConsumer, Limiter!Anonymous, LP!Anonymous
    <2>2. LP!Committed(ctx, now) = [k \in LP!StateKeys |-> 
             IF mine(k) = {} THEN states[k]
             ELSE LP!Staged(LP!EffectiveRules[last(k)], ctx, now).state]
      BY DEF LP!Committed
    <2> HIDE DEF mine, last
    <2>3. QED BY <1>3, <1>15, <2>1, <2>2
  <1>17. \A ctx : Limiter!Logged(ctx) = LP!Logged(ctx)
    BY <1>2, <1>3 DEF Limiter!Logged, LP!Logged
  <1>18. \A ctx, now : Limiter!CheckScoped(ctx, now) => LP!CheckScoped(ctx, now)
    BY <1>4, <1>15, <1>16, <1>17 DEF Limiter!CheckScoped, LP!CheckScoped
  <1>19. \A ctx, now : Limiter!CheckLegacy(ctx, now) => LP!CheckLegacy(ctx, now)
    BY <1>2, <1>8, <1>17 DEF Limiter!CheckLegacy, LP!CheckLegacy
  <1>20. Limiter!Legacy <=> LP!Legacy
    BY DEF Limiter!Legacy, LP!Legacy
  <1>21. Limiter!Waiting = LP!Waiting
    BY <1>1 DEF Limiter!Waiting, LP!Waiting
  <1>22. \A t : Limiter!Check(t) => LP!Check(t)
    BY <1>1, <1>3, <1>5, <1>18, <1>19, <1>20, <1>21 DEF Limiter!Check, LP!Check
  <1>23. \A t, ctx : Limiter!Sample(t, ctx) => LP!Sample(t, ctx)
    <2>1. \A S : Limiter!Cardinality(S) = LP!Cardinality(S)
      BY DEF Limiter!Cardinality, LP!Cardinality
    <2>2. QED BY <1>21, <2>1 DEF Limiter!Sample, LP!Sample
  <1>24. Limiter!Tick => LP!Tick
    BY <1>21 DEF Limiter!Tick, LP!Tick
  <1>25. [Limiter!Next]_(Limiter!vars) => [LP!Next]_(LP!vars)
    BY <1>22, <1>23, <1>24 DEF Limiter!Next, LP!Next, Limiter!vars, LP!vars
  <1>26. Limiter!Init => LP!Init
    BY <1>1, <1>3 DEF Limiter!Init, LP!Init
  <1>27. QED BY <1>4, <1>22, <1>25, <1>26

\* What is proved of the limiter by itself holds of it inside the handlers.
LEMMA LimiterInvariant == Spec => []LP!Inv
  <1>1. Limiter!Spec => LP!Spec
    BY SameLimiter, PTL DEF Limiter!Spec, LP!Spec
  <1>2. LP!Spec => []LP!Inv
    BY LP!Invariant, LimiterProvedFor
  <1>3. QED BY <1>1, <1>2, LimiterImplemented, PTL DEF LimiterSpec

\* The limits of the configuration hold for the requests of all handlers
\* together, under every overlap of their calls (main.rs:278-286,
\* rate_limit.rs:130-178): quotas are never exceeded, and, with one rule per
\* scope, windows and buckets are kept up to the delay between clock and lock.
THEOREM LimitsHoldForHandlers ==
    ASSUME LP!OneRulePerScope
    PROVE  Spec => [](LP!QuotaExact /\ LP!WindowsKept /\ LP!TokenBucketKept)
  <1>1. Limiter!Spec => LP!Spec
    BY SameLimiter, PTL DEF Limiter!Spec, LP!Spec
  <1>2. LP!Spec => []LP!QuotaExact
    BY LP!QuotaIsExact, LimiterProvedFor
  <1>3. LP!Spec => []LP!WindowsKept
    BY LP!WindowsAreKept, LimiterProvedFor
  <1>4. LP!Spec => []LP!TokenBucketKept
    BY LP!TokenBucketIsKept, LimiterProvedFor
  <1>5. QED BY <1>1, <1>2, <1>3, <1>4, LimiterImplemented, PTL DEF LimiterSpec

\* A handler that waits for the lock leaves that state only by the limiter's verdict.
LEMMA LockingMoves ==
    ASSUME Forwarded, [Next]_vars, NEW r \in Request, req[r].at = "locking",
           req'[r] # req[r]
    PROVE  LimiterDecide(r)
  <1>0. DOMAIN req = Request
    BY DEF Forwarded
  <1>1. ASSUME NEW q \in Request, NEW in \in scenario.inputs, NEW allowed \in BOOLEAN,
               Arrive(q, in, allowed)
        PROVE  FALSE
    <2>1. /\ req[q].at # "locking"
          /\ \E h : req' = [req EXCEPT ![q] = h]
      BY <1>1 DEF Arrive
    <2>2. QED BY <1>0, <2>1
  <1>2. ASSUME NEW q \in Request,
               LimiterOff(q) \/ LimiterBegin(q) \/ LoadCounter(q) \/ Wake(q) \/ Attempt(q)
               \/ Fail(q) \/ Retry(q) \/ \E headers \in scenario.responses : Receive(q, headers)
        PROVE  FALSE
    <2>1. /\ req[q].at # "locking"
          /\ \A p \in Request : p # q => req'[p] = req[p]
      BY <1>0, <1>2
         DEF LimiterOff, LimiterBegin, LoadCounter, Wake, Attempt, Fail, Retry, Receive
    <2>2. QED BY <2>1
  <1>3. ASSUME NEW q \in Request, LimiterDecide(q) PROVE q = r
    BY <1>0, <1>3 DEF LimiterDecide
  <1>4. ~Tick /\ ~UNCHANGED vars
    BY DEF Tick, vars
  <1>5. QED BY <1>1, <1>2, <1>3, <1>4 DEF Next

\* A named consumer whose request the limiter refuses is refused because of
\* admitted requests that share its consumer name, or its route, service or client
\* if a rule of that scope refuses it, or because a rule admits nobody at all: what
\* other consumers do elsewhere cannot get it refused, also when their calls overlap
\* (main.rs:275-285, rate_limit.rs:219-230).
THEOREM RefusedForOwn == Spec => RefusedForOwnRequests
  <1> DEFINE Explained(r) ==
        \E i \in DOMAIN Limiter!EffectiveRules :
          LET rule == Limiter!EffectiveRules[i]
          IN  \/ rule.limit = 0 \/ rule.quota = 0
              \/ \E ctx \in log.who : ctx[rule.scope] = thread[r].ctx[rule.scope]
  <1>1. ASSUME Forwarded, LP!Inv, [Next]_vars, NEW r \in Request, req[r].at = "locking",
               req'[r].outcome = "rate limit exceeded",
               thread[r].ctx.consumer \notin {Limiter!NoConsumer, Limiter!Anonymous}
        PROVE  Explained(r)
    <2>1. OnCourse(req[r]) /\ req[r].outcome = Absent
      BY <1>1 DEF Forwarded, OnCourse
    <2>2. req'[r] # req[r]
      BY <1>1, <2>1, AbsentIsNoOutcome
    <2>3. LimiterDecide(r)
      BY <1>1, <2>2, LockingMoves
    <2>4. log' = log
      <3>1. req'[r] = IF log' # log THEN [req[r] EXCEPT !.at = "counter"]
                      ELSE Ended(req[r], "rate limit exceeded")
        BY <1>1, <2>3 DEF LimiterDecide, Forwarded
      <3>2. [req[r] EXCEPT !.at = "counter"].outcome = req[r].outcome
        BY <2>1 DEF OnCourse, IsHandler
      <3>3. QED BY <1>1, <2>1, <3>1, <3>2, AbsentIsNoOutcome
    <2>5. LP!Check(r)
      BY <2>3, SameLimiter DEF LimiterDecide
    <2>6. PICK i \in DOMAIN LP!EffectiveRules :
             LET rule == LP!EffectiveRules[i]
             IN  \/ rule.limit = 0 \/ rule.quota = 0
                 \/ \E ctx \in log.who :
                      LP!StateKey(rule.scope, ctx) = LP!StateKey(rule.scope, thread[r].ctx)
      BY <1>1, <2>4, <2>5, LimiterProvedFor, LP!RefusedAfterOthers
    <2>7. \A s, ctx : LP!StateKey(s, ctx) = LP!StateKey(s, thread[r].ctx)
                      => ctx[s] = thread[r].ctx[s]
      BY <1>1 DEF LP!StateKey, LP!ValueKey, LP!NoConsumer, LP!Anonymous,
                  Limiter!NoConsumer, Limiter!Anonymous
    <2>8. QED BY <2>6, <2>7, SameLimiter
  <1>2. Forwarded /\ LP!Inv /\ [Next]_vars =>
          [\A r \in Request :
             /\ req[r].at = "locking"
             /\ req'[r].outcome = "rate limit exceeded"
             /\ thread[r].ctx.consumer \notin {Limiter!NoConsumer, Limiter!Anonymous}
             => \E i \in DOMAIN Limiter!EffectiveRules :
                  LET rule == Limiter!EffectiveRules[i]
                  IN  \/ rule.limit = 0 \/ rule.quota = 0
                      \/ \E ctx \in log.who : ctx[rule.scope] = thread[r].ctx[rule.scope]]_vars
    BY <1>1
  <1>3. QED
    BY <1>2, ForwardedHolds, LimiterInvariant, PTL DEF Spec, RefusedForOwnRequests

-----------------------------------------------------------------------------
\* The shares of the targets.

\* PrefixWeight adds up all the weights of a list.
LEMMA PrefixWeightIsSum ==
    ASSUME NEW list \in Seq(UpstreamTarget)
    PROVE  \E P : /\ SumsUpTo(P, Weights(list), Len(list))
                  /\ PrefixWeight(list, Len(list)) = P[Len(list)]
                  /\ P[Len(list)] \in Nat
  <1> DEFINE n == Len(list)
             w == Weights(list)
             sum[i \in 0..Len(list)] == IF i = 0 THEN 0 ELSE sum[i - 1] + list[i].weight
  <1>1. PrefixWeight(list, Len(list)) = sum[Len(list)]
    BY DEF PrefixWeight
  <1>2. /\ n \in Nat /\ w \in [1..n -> Nat] /\ n = Len(list)
        /\ \A i \in 1..n : w[i] = list[i].weight
    BY WeightsTyped
  <1>3. PICK P : SumsUpTo(P, w, n)
    <2> HIDE DEF n, w
    <2>1. QED BY <1>2, SumsExist
  <1>4. /\ P \in [0..n -> Nat] /\ P[0] = 0
        /\ \A i \in 1..n : P[i] = P[i - 1] + w[i]
    BY <1>3 DEF SumsUpTo
  <1> HIDE DEF n, w
  <1>5. P = [i \in 0..n |-> IF i = 0 THEN 0 ELSE P[i - 1] + list[i].weight]
    <2>1. \A i \in 0..n : i # 0 => i \in 1..n
      BY <1>2
    <2>2. \A i \in 0..n : P[i] = IF i = 0 THEN 0 ELSE P[i - 1] + list[i].weight
      BY <1>2, <1>4, <2>1
    <2>3. QED BY <1>4, <2>2
  <1>6. sum = [i \in 0..n |-> IF i = 0 THEN 0 ELSE sum[i - 1] + list[i].weight]
    <2>1. \E f : f = [i \in 0..Len(list) |->
                        IF i = 0 THEN 0 ELSE f[i - 1] + list[i].weight]
      BY <1>5 DEF n
    <2>2. QED BY <2>1, Zenon DEF n
  <1> HIDE DEF sum
  <1>7. \A i \in 0..n : sum[i] = P[i]
    <2> DEFINE S == {i \in 0..n : sum[i] # P[i]}
    <2>1. S \in SUBSET Nat
      OBVIOUS
    <2>2. ASSUME S # {} PROVE FALSE
      <3>1. PICK i \in S : \A k \in S : i <= k
        <4> HIDE DEF S
        <4>1. QED BY <2>1, <2>2, SmallestNat
      <3>2. i # 0
        BY <1>2, <1>4, <1>6, <3>1
      <3>3. i - 1 \in 0..n /\ i - 1 \notin S
        BY <1>2, <3>1, <3>2
      <3>4. sum[i - 1] = P[i - 1]
        BY <3>3
      <3>5. sum[i] = sum[i - 1] + list[i].weight
        BY <1>6, <3>1, <3>2
      <3>6. P[i] = P[i - 1] + list[i].weight
        BY <1>5, <3>1, <3>2
      <3>7. QED BY <3>1, <3>4, <3>5, <3>6
    <2>3. QED BY <2>2
  <1>8. sum[n] = P[n] /\ P[n] \in Nat
    BY <1>2, <1>4, <1>7
  <1>9. QED BY <1>1, <1>2, <1>3, <1>8 DEF w

\* The counter is a number.
Counting == request_counter \in Nat

LEMMA CounterTyped == Spec => []Counting
  <1>1. Init => Counting
    BY DEF Init, Counting
  <1>2. Counting /\ [Next]_vars => Counting'
    <2> SUFFICES ASSUME Counting, [Next]_vars PROVE Counting'
      OBVIOUS
    <2>1. ASSUME NEW r \in Request, Attempt(r) PROVE Counting'
      <3>1. request_counter' = (request_counter + 1) % Modulus
        BY <2>1 DEF Attempt
      <3>2. request_counter \in Nat
        BY DEF Counting
      <3>3. request_counter' \in Nat
        BY <3>1, <3>2, ModulusIsPositive
      <3>4. QED BY <3>3 DEF Counting
    <2>2. ASSUME ~ \E r \in Request : Attempt(r) PROVE request_counter' = request_counter
      BY <2>2 DEF Next, vars, Arrive, LimiterOff, LimiterBegin, LimiterDecide, LoadCounter,
                  Wake, Retry, Receive, Fail, Tick
    <2>3. QED BY <2>1, <2>2 DEF Counting
  <1>3. QED BY <1>1, <1>2, PTL DEF Spec

\* From any value of the counter on, every full round of requests is shared among the
\* targets of an upstream exactly by their weights, whatever the weights are, as long
\* as neither they nor the counter wrap (pick_weighted_target, balancer.rs:56-76).
THEOREM WeightedShareHolds == Spec => []WeightedShare
  <1>1. ASSUME Forwarded, Counting PROVE WeightedShare
    <2> SUFFICES ASSUME NEW u \in DOMAIN config.upstreams
                 PROVE  LET list  == config.upstreams[u].targets
                            total == PrefixWeight(list, Len(list))
                        IN  total < Modulus /\ request_counter + total <= Modulus =>
                              \A i \in DOMAIN list :
                                Cardinality({s \in request_counter..(request_counter + total - 1) :
                                                PickWeighted(list, s) = i}) = list[i].weight
      BY DEF WeightedShare
    <2> DEFINE list  == config.upstreams[u].targets
               total == PrefixWeight(list, Len(list))
    <2>1. list \in Seq(UpstreamTarget)
      BY <1>1, ConfigTyped
    <2> HIDE DEF list
    <2>2. PICK P : /\ SumsUpTo(P, Weights(list), Len(list))
                   /\ total = P[Len(list)] /\ P[Len(list)] \in Nat
      BY <2>1, PrefixWeightIsSum
    <2> HIDE DEF total
    <2>3. ASSUME total < Modulus, request_counter + total <= Modulus, NEW i \in DOMAIN list
          PROVE  Cardinality({s \in request_counter..(request_counter + total - 1) :
                                PickWeighted(list, s) = i}) = list[i].weight
      <3> DEFINE q == request_counter
      <3>1. q \in Nat
        BY <1>1 DEF Counting
      <3> HIDE DEF q
      <3>2. P[Len(list)] < Modulus /\ q + P[Len(list)] <= Modulus
        BY <2>2, <2>3 DEF q
      <3>3. Cardinality({s \in q..(q + P[Len(list)] - 1) : PickWeighted(list, s) = i})
            = list[i].weight
        BY <2>1, <2>2, <2>3, <3>1, <3>2, RoundIsShared
      <3>4. QED BY <2>2, <3>3 DEF q
    <2>4. QED BY <2>3 DEF list, total
  <1>2. QED BY <1>1, ForwardedHolds, CounterTyped, PTL
=============================================================================
