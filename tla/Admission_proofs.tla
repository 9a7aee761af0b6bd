-------------------------- MODULE Admission_proofs --------------------------
(***************************************************************************)
(* Proofs about who gets in, for any configuration, any requests and any   *)
(* number of handlers.  The argument has two parts: a request that is past *)
(* the gates, or refused by them, still is what the gates decided on (the  *)
(* invariant Remembered), and what authenticate and authorize say of it    *)
(* changes as stated when the configuration does (the lemmas).             *)
(***************************************************************************)
EXTENDS Admission, SelectTarget_proofs

-----------------------------------------------------------------------------
\* Authentication.

\* An identity has the mode that gave it, or is an error.
LEMMA ModeOrError ==
    ASSUME NEW cfg, NEW in, NEW m \in AuthMode
    PROVE  AuthenticateMode(cfg, m, in).mode \in {m, "error"}
  BY DEF AuthenticateMode, Identity, AuthError, AuthMode, TokenMode

\* Whoever is authenticated is so by the first mode that accepts the request.
LEMMA FirstAccepting ==
    ASSUME NEW cfg, NEW in,
           cfg.enabled_modes \in Seq(AuthMode), cfg.enabled_modes # <<>>,
           Authenticate(cfg, in).mode # "error"
    PROVE  LET i == Min(Accepting(cfg, in))
           IN  /\ i \in Accepting(cfg, in)
               /\ \A j \in Accepting(cfg, in) : i <= j
               /\ i \in DOMAIN cfg.enabled_modes
               /\ Authenticate(cfg, in) = AuthenticateMode(cfg, cfg.enabled_modes[i], in)
               /\ Authenticate(cfg, in).mode = cfg.enabled_modes[i]
  <1> DEFINE i == Min(Accepting(cfg, in))
  <1>1. Accepting(cfg, in) # {}
    BY DEF Authenticate, AuthError, Identity
  <1>2. Accepting(cfg, in) \in SUBSET Nat
    BY DEF Accepting
  <1>3. i \in Accepting(cfg, in) /\ \A j \in Accepting(cfg, in) : i <= j
    BY <1>1, <1>2, MinOfNats
  <1>4. i \in DOMAIN cfg.enabled_modes
    BY <1>3 DEF Accepting
  <1>5. Authenticate(cfg, in) = AuthenticateMode(cfg, cfg.enabled_modes[i], in)
    BY <1>1 DEF Authenticate
  <1>6. cfg.enabled_modes[i] \in AuthMode
    BY <1>4
  <1>7. Authenticate(cfg, in).mode = cfg.enabled_modes[i]
    BY <1>5, <1>6, ModeOrError
  <1>8. QED BY <1>3, <1>4, <1>5, <1>7

\* An identity is what one enabled mode gives for the request; without modes
\* the caller is anonymous.
LEMMA ByOneMode ==
    ASSUME NEW cfg, NEW in,
           cfg.enabled_modes \in Seq(AuthMode),
           Authenticate(cfg, in).mode # "error"
    PROVE  LET id == Authenticate(cfg, in)
           IN  /\ AuthenticateMode(cfg, id.mode, in) = id
               /\ id.mode \in IF cfg.enabled_modes = <<>> THEN {"anonymous"}
                              ELSE ToSet(cfg.enabled_modes)
  <1>1. CASE cfg.enabled_modes = <<>>
    <2>1. AuthenticateMode(cfg, "anonymous", in) = Identity("anonymous", {}, {}, NoName)
      BY DEF AuthenticateMode, TokenMode
    <2>2. Authenticate(cfg, in) = Identity("anonymous", {}, {}, NoName)
      BY <1>1 DEF Authenticate
    <2>3. Identity("anonymous", {}, {}, NoName).mode = "anonymous"
      BY DEF Identity
    <2>4. QED BY <1>1, <2>1, <2>2, <2>3
  <1>2. CASE cfg.enabled_modes # <<>>
    <2> DEFINE i == Min(Accepting(cfg, in))
    <2>1. /\ i \in DOMAIN cfg.enabled_modes
          /\ Authenticate(cfg, in) = AuthenticateMode(cfg, cfg.enabled_modes[i], in)
          /\ Authenticate(cfg, in).mode = cfg.enabled_modes[i]
      BY <1>2, FirstAccepting
    <2> HIDE DEF i
    <2>2. QED BY <1>2, <2>1 DEF ToSet
  <1>3. QED BY <1>1, <1>2

\* Two configurations that agree on what a mode looks at agree on the mode.
LEMMA SameMode ==
    ASSUME NEW cfg, NEW more, NEW in, NEW m,
           more.secret = cfg.secret,
           more.roles_claim = cfg.roles_claim, more.groups_claim = cfg.groups_claim,
           more.allowed_subjects = cfg.allowed_subjects
    PROVE  AuthenticateMode(more, m, in) = AuthenticateMode(cfg, m, in)
  BY DEF AuthenticateMode, TokenAccepted

\* Bindings play no part in authentication.
LEMMA SameIdentity ==
    ASSUME NEW cfg, NEW more, NEW in,
           more.enabled_modes = cfg.enabled_modes, more.secret = cfg.secret,
           more.roles_claim = cfg.roles_claim, more.groups_claim = cfg.groups_claim,
           more.allowed_subjects = cfg.allowed_subjects
    PROVE  Authenticate(more, in) = Authenticate(cfg, in)
  <1>1. \A m : AuthenticateMode(more, m, in) = AuthenticateMode(cfg, m, in)
    BY SameMode
  <1>2. Accepting(more, in) = Accepting(cfg, in)
    BY <1>1 DEF Accepting
  <1>3. QED BY <1>1, <1>2 DEF Authenticate

-----------------------------------------------------------------------------
\* Authorisation.

\* The three kinds of bindings allow an identity to use a route.
Bound(cfg, identity, route_name) ==
    /\ Allowed(cfg.rbac, route_name, identity.roles)
    /\ Allowed(cfg.group_rbac, route_name, identity.groups)
    /\ Allowed(cfg.subject_rbac, route_name, SubjectNames(identity))

\* The mode of an identity that authenticate gives back is always enabled, so
\* that only the bindings decide.
LEMMA BindingsDecide ==
    ASSUME NEW cfg, NEW in, NEW route_name,
           cfg.enabled_modes \in Seq(AuthMode),
           Authenticate(cfg, in).mode # "error"
    PROVE  LET identity == Authenticate(cfg, in)
           IN  Authorize(cfg, identity, route_name) <=> Bound(cfg, identity, route_name)
  <1>1. CASE cfg.enabled_modes = <<>>
    BY <1>1 DEF Authorize, Bound
  <1>2. CASE cfg.enabled_modes # <<>>
    <2>1. Authenticate(cfg, in).mode \in ToSet(cfg.enabled_modes)
      BY <1>2, FirstAccepting DEF ToSet
    <2>2. QED BY <2>1 DEF Authorize, Bound
  <1>3. QED BY <1>1, <1>2

\* One more binding for a route that has some opens it further, ...
LEMMA AllowedMore ==
    ASSUME NEW bindings, NEW b, NEW names,
           \E c \in bindings : c.route = b.route,
           Allowed(bindings, b.route, names)
    PROVE  Allowed(bindings \union {b}, b.route, names)
  BY DEF Allowed

\* ... and the first one closes it.
LEMMA AllowedFirst ==
    ASSUME NEW bindings, NEW b, NEW names,
           ~ \E c \in bindings : c.route = b.route
    PROVE  Allowed(bindings, b.route, names)
  BY DEF Allowed

-----------------------------------------------------------------------------
\* The handlers remember what the gates decided on.

\* A handler's record has the fields of Idle.
IsHandler(h) ==
    {"at", "in", "route", "count", "upstream", "target", "headers", "path",
     "answer", "outcome"} \subseteq DOMAIN h

\* A record that is past the gates and not one of a refusal.
Through(h) == IsHandler(h) /\ h.at # "limiter" /\ h.outcome \notin Refusals

\* What holds of one handler: until it calls the limiter, and after a refusal,
\* the gates would decide its request in the same way again.
Faithful(h) ==
    /\ IsHandler(h)
    /\ h.at = "limiter" => GateVerdict(h.in, h.route, TRUE) = "passed"
    /\ h.outcome \in Refusals =>
         h.at = "done" /\ GateVerdict(h.in, h.route, TRUE) = h.outcome

\* The inductive invariant.
Remembered ==
    /\ scenario \in Scenarios
    /\ DOMAIN req = Request
    /\ \A r \in Request : Faithful(req[r])

\* A handler that is served anew or goes on leaves the others alone.
LEMMA OneHandler ==
    ASSUME Remembered, NEW r \in Request, NEW h,
           Faithful(h), UNCHANGED scenario, req' = [req EXCEPT ![r] = h]
    PROVE  Remembered'
  <1>1. \A g : Faithful(g)' <=> Faithful(g)
    BY DEF Faithful, GateVerdict, config, IsHandler
  <1>2. QED BY <1>1 DEF Remembered

\* A handler past the gates that goes on, or ends otherwise than by a refusal.
LEMMA GoesOn ==
    ASSUME Remembered, NEW r \in Request, NEW h,
           Through(h),
           UNCHANGED scenario, req' = [req EXCEPT ![r] = h]
    PROVE  Remembered'
  BY OneHandler DEF Faithful, Through

\* The record of a handler that returns.
LEMMA EndedKept ==
    ASSUME NEW h, IsHandler(h), NEW outcome
    PROVE  LET e == Ended(h, outcome)
           IN  IsHandler(e) /\ e.at = "done" /\ e.outcome = outcome
  BY DEF IsHandler, Ended

\* The record of a handler after a fault, when its upstream has been selected.
LEMMA SelectedKept ==
    ASSUME NEW r, NEW count, NEW hit, IsHandler(req[r]), req[r].outcome \notin Refusals
    PROVE  Through(AfterFault(r, count, hit))
  <1>1. Through(Selected(r, count))
    <2> DEFINE name == SelectUpstreamName(Route(r), req[r].in.headers,
                         Bucket(Route(r).name, ClientKey(Route(r), req[r].in), count))
               found == {i \in DOMAIN config.upstreams : config.upstreams[i].name = name}
               path == RewritePathAndQuery(Route(r), req[r].in)
               headers == TransformRequestHeaders(req[r].in.headers,
                                                  Route(r).transform.request)
               ready == [req[r] EXCEPT !.at = "attempt", !.count = 0,
                           !.upstream = Min(found), !.path = path, !.headers = headers]
               lost == Ended(req[r], "upstream config not found")
    <2>1. Selected(r, count) = IF found = {} THEN lost ELSE ready
      BY DEF Selected
    <2>2. Through(ready)
      <3> HIDE DEF found, path, headers
      <3>1. QED BY DEF Through, IsHandler
    <2>3. Through(lost)
      BY EndedKept DEF Through, Refusals
    <2> HIDE DEF ready, lost
    <2>4. QED BY <2>1, <2>2, <2>3
  <1>2. Through(Ended([req[r] EXCEPT !.count = 0], "fault injection abort"))
    <2> DEFINE h == [req[r] EXCEPT !.count = 0]
    <2>1. IsHandler(h)
      BY DEF IsHandler
    <2> HIDE DEF h
    <2>2. Through(Ended(h, "fault injection abort"))
      BY <2>1, EndedKept DEF Through, Refusals
    <2>3. QED BY <2>2 DEF h
  <1>3. QED BY <1>1, <1>2 DEF AfterFault

\* A handler that is in the middle of a request has not been refused.
LEMMA InProgress ==
    ASSUME Remembered, NEW r \in Request, req[r].at # "done"
    PROVE  IsHandler(req[r]) /\ req[r].outcome \notin Refusals
  BY DEF Remembered, Faithful

\* A handler is idle with a record of its own.
LEMMA IdleIsFaithful == Faithful(Idle)
  BY AbsentIsNoOutcome DEF Faithful, Idle, IsHandler

\* What comes out of the gates is faithful: a handler is refused, or passed, on
\* the request it then keeps.
LEMMA ArriveKept ==
    ASSUME Remembered, NEW r \in Request, NEW in, NEW allowed \in BOOLEAN,
           Arrive(r, in, allowed)
    PROVE  Remembered'
  <1> DEFINE i == MatchRoute(config.routes, in)
             h == [Idle EXCEPT !.in = in, !.route = i]
             verdict == GateVerdict(in, i, allowed)
             passed == [h EXCEPT !.at = "limiter"]
             ended == Ended(h, verdict)
  <1>1. /\ IsHandler(h) /\ h.in = in /\ h.route = i
        /\ h.outcome = Absent
    <2> HIDE DEF i
    <2>1. QED BY DEF IsHandler, Idle
  <1>2. verdict \in Refusals \union {"passed"} => GateVerdict(in, i, TRUE) = verdict
    BY DEF GateVerdict, Refusals
  <1>3. ASSUME verdict = "passed"
        PROVE  Faithful(passed)
    <2> HIDE DEF h, verdict, i
    <2>1. /\ IsHandler(passed) /\ passed.at = "limiter" /\ passed.in = in
          /\ passed.route = i /\ passed.outcome = Absent
      BY <1>1 DEF IsHandler
    <2> HIDE DEF passed
    <2>2. QED BY <1>2, <1>3, <2>1, AbsentIsNoOutcome DEF Faithful
  <1>4. ASSUME verdict # "passed"
        PROVE  Faithful(ended)
    <2> HIDE DEF h, verdict, i
    <2>1. /\ IsHandler(ended) /\ ended.at = "done" /\ ended.in = in
          /\ ended.route = i /\ ended.outcome = verdict
      BY <1>1 DEF IsHandler, Ended
    <2> HIDE DEF ended
    <2>2. QED BY <1>2, <2>1 DEF Faithful
  <1>5. /\ UNCHANGED scenario
        /\ req' = [req EXCEPT ![r] = IF verdict = "passed" THEN passed ELSE ended]
    BY DEF Arrive
  <1> DEFINE g == IF verdict = "passed" THEN passed ELSE ended
  <1> HIDE DEF passed, ended, verdict
  <1>6. Faithful(g)
    BY <1>3, <1>4
  <1> HIDE DEF g
  <1>7. req' = [req EXCEPT ![r] = g]
    BY <1>5 DEF g
  <1>8. QED BY <1>5, <1>6, <1>7, OneHandler

\* A handler that moves on, or returns, after the gates.
LEMMA MovesOn ==
    ASSUME Remembered, NEW r \in Request, req[r].at # "done", UNCHANGED scenario,
           NEW h,
           \/ \E p : p # "limiter" /\ h = [req[r] EXCEPT !.at = p]
           \/ \E p, c : p # "limiter" /\ h = [req[r] EXCEPT !.at = p, !.count = c]
           \/ \E p, t : p # "limiter" /\ h = [req[r] EXCEPT !.at = p, !.target = t]
           \/ \E o : o \notin Refusals /\ h = Ended(req[r], o),
           req' = [req EXCEPT ![r] = h]
    PROVE  Remembered'
  <1>1. IsHandler(req[r]) /\ req[r].outcome \notin Refusals
    BY InProgress
  <1>2. Through(h)
    BY <1>1 DEF Through, IsHandler, Ended
  <1>3. QED BY <1>2, GoesOn

\* Every step keeps what is remembered.
LEMMA RememberedStep == Remembered /\ [Next]_vars => Remembered'
  <1> SUFFICES ASSUME Remembered, [Next]_vars
               PROVE  Remembered'
    OBVIOUS
  <1> USE DEF Refusals
  <1>1. ASSUME NEW r \in Request, NEW in \in scenario.inputs, NEW allowed \in BOOLEAN,
               Arrive(r, in, allowed)
        PROVE  Remembered'
    BY <1>1, ArriveKept
  <1>2. ASSUME NEW r \in Request, LimiterOff(r)
        PROVE  Remembered'
    <2> DEFINE h == [req[r] EXCEPT !.at = "counter"]
    <2>1. /\ req[r].at # "done" /\ UNCHANGED scenario
          /\ req' = [req EXCEPT ![r] = h]
      BY <1>2 DEF LimiterOff
    <2>2. \E p : p # "limiter" /\ h = [req[r] EXCEPT !.at = p]
      OBVIOUS
    <2> HIDE DEF h
    <2>3. QED BY <2>1, <2>2, MovesOn
  <1>3. ASSUME NEW r \in Request, LimiterBegin(r)
        PROVE  Remembered'
    <2> DEFINE h == [req[r] EXCEPT !.at = "locking"]
    <2>1. /\ req[r].at # "done" /\ UNCHANGED scenario
          /\ req' = [req EXCEPT ![r] = h]
      BY <1>3 DEF LimiterBegin
    <2>2. \E p : p # "limiter" /\ h = [req[r] EXCEPT !.at = p]
      OBVIOUS
    <2> HIDE DEF h
    <2>3. QED BY <2>1, <2>2, MovesOn
  <1>4. ASSUME NEW r \in Request, LimiterDecide(r)
        PROVE  Remembered'
    <2> DEFINE counted == [req[r] EXCEPT !.at = "counter"]
               refused == Ended(req[r], "rate limit exceeded")
               h == IF log' # log THEN counted ELSE refused
    <2>1. /\ req[r].at # "done" /\ UNCHANGED scenario
          /\ req' = [req EXCEPT ![r] = h]
      BY <1>4 DEF LimiterDecide
    <2>2. \E p : p # "limiter" /\ counted = [req[r] EXCEPT !.at = p]
      OBVIOUS
    <2>3. \E o : o \notin Refusals /\ refused = Ended(req[r], o)
      OBVIOUS
    <2> HIDE DEF counted, refused
    <2>4. h = counted \/ h = refused
      OBVIOUS
    <2> HIDE DEF h
    <2>5. QED BY <2>1, <2>2, <2>3, <2>4, MovesOn
  <1>5. ASSUME NEW r \in Request, LoadCounter(r)
        PROVE  Remembered'
    <2> DEFINE fault == Route(r).fault_injection
               key   == ClientKey(Route(r), req[r].in)
               hit   == FaultHits(fault, Bucket("fault-injection", key, request_counter))
               asleep == [req[r] EXCEPT !.at = "asleep", !.count = request_counter]
               after == AfterFault(r, request_counter, hit)
               h == IF hit /\ FaultSleeps(fault, key, request_counter)
                    THEN asleep ELSE after
    <2>1. /\ req[r].at # "done" /\ UNCHANGED scenario
          /\ req' = [req EXCEPT ![r] = h]
      BY <1>5 DEF LoadCounter
    <2>2. IsHandler(req[r]) /\ req[r].outcome \notin Refusals
      BY <2>1, InProgress
    <2>3. Through(asleep)
      BY <2>2 DEF Through, IsHandler
    <2>4. Through(after)
      BY <2>2, SelectedKept
    <2> HIDE DEF asleep, after, hit, fault, key
    <2>5. Through(h)
      BY <2>3, <2>4
    <2> HIDE DEF h
    <2>6. QED BY <2>1, <2>5, GoesOn
  <1>6. ASSUME NEW r \in Request, Wake(r)
        PROVE  Remembered'
    <2> DEFINE h == AfterFault(r, req[r].count, TRUE)
    <2>1. /\ req[r].at # "done" /\ UNCHANGED scenario
          /\ req' = [req EXCEPT ![r] = h]
      BY <1>6 DEF Wake
    <2>2. Through(h)
      BY <2>1, InProgress, SelectedKept
    <2> HIDE DEF h
    <2>3. QED BY <2>1, <2>2, GoesOn
  <1>7. ASSUME NEW r \in Request, Attempt(r)
        PROVE  Remembered'
    <2> DEFINE u      == config.upstreams[req[r].upstream]
               hash   == Hash[<<"target", ClientKey(Route(r), req[r].in), 0>>]
               chosen == SelectTarget(u.strategy, u.targets, hash, request_counter)
               lost   == Ended(req[r], "no healthy upstream target available")
               sent   == [req[r] EXCEPT !.at = "sent", !.target = chosen]
               h      == IF chosen = None THEN lost ELSE sent
    <2>1. /\ req[r].at # "done" /\ UNCHANGED scenario
          /\ req' = [req EXCEPT ![r] = h]
      BY <1>7 DEF Attempt
    <2> HIDE DEF chosen
    <2>2. \E o : o \notin Refusals /\ lost = Ended(req[r], o)
      OBVIOUS
    <2>3. \E p, t : p # "limiter" /\ sent = [req[r] EXCEPT !.at = p, !.target = t]
      OBVIOUS
    <2> HIDE DEF lost, sent
    <2>4. h = lost \/ h = sent
      OBVIOUS
    <2> HIDE DEF h
    <2>5. QED BY <2>1, <2>2, <2>3, <2>4, MovesOn
  <1>8. ASSUME NEW r \in Request, Retry(r)
        PROVE  Remembered'
    <2> DEFINE h == [req[r] EXCEPT !.at = "attempt", !.target = 0]
    <2>1. req[r].at # "done" /\ UNCHANGED scenario
      BY <1>8 DEF Retry
    <2>2. req' = [req EXCEPT ![r] = h]
      BY <1>8 DEF Retry, Remembered
    <2>3. \E p, t : p # "limiter" /\ h = [req[r] EXCEPT !.at = p, !.target = t]
      OBVIOUS
    <2> HIDE DEF h
    <2>4. QED BY <2>1, <2>2, <2>3, MovesOn
  <1>9. ASSUME NEW r \in Request, NEW headers \in scenario.responses,
               Receive(r, headers)
        PROVE  Remembered'
    <2> DEFINE answer == TransformResponseHeaders(headers, Route(r).transform.response)
               e == Ended(req[r], "answered")
               h == [e EXCEPT !.answer = answer]
    <2>1. /\ req[r].at # "done" /\ UNCHANGED scenario
          /\ req' = [req EXCEPT ![r] = h]
      BY <1>9 DEF Receive
    <2>2. IsHandler(e) /\ e.at = "done" /\ e.outcome = "answered"
      BY <2>1, InProgress, EndedKept
    <2> HIDE DEF e, answer
    <2>3. Through(h)
      BY <2>2 DEF Through, IsHandler
    <2> HIDE DEF h
    <2>4. QED BY <2>1, <2>3, GoesOn
  <1>10. ASSUME NEW r \in Request, Fail(r)
         PROVE  Remembered'
    <2> DEFINE h == Ended(req[r], "failed")
    <2>1. /\ req[r].at # "done" /\ UNCHANGED scenario
          /\ req' = [req EXCEPT ![r] = h]
      BY <1>10 DEF Fail
    <2>2. \E o : o \notin Refusals /\ h = Ended(req[r], o)
      OBVIOUS
    <2> HIDE DEF h
    <2>3. QED BY <2>1, <2>2, MovesOn
  <1>11. ASSUME UNCHANGED <<scenario, req>>
         PROVE  Remembered'
    <2>1. \A g : Faithful(g)' <=> Faithful(g)
      BY <1>11 DEF Faithful, GateVerdict, config, IsHandler
    <2>2. QED BY <1>11, <2>1 DEF Remembered
  <1>12. CASE Tick
    BY <1>11, <1>12 DEF Tick
  <1>13. CASE UNCHANGED vars
    BY <1>11, <1>13 DEF vars
  <1>14. QED
    BY <1>1, <1>2, <1>3, <1>4, <1>5, <1>6, <1>7, <1>8, <1>9, <1>10, <1>12, <1>13
       DEF Next

\* Whatever handlers do, one that is at the limiter, or refused by security,
\* keeps the request and the route it was judged by (main.rs:233-273).
THEOREM RememberedHolds == Spec => []Remembered
  <1>1. Init => Remembered
    BY IdleIsFaithful DEF Init, Remembered
  <1>2. QED BY <1>1, RememberedStep, PTL DEF Spec

-----------------------------------------------------------------------------
\* The properties.

\* The settings in force are those of a configuration file.
LEMMA SecurityTyped ==
    ASSUME Remembered
    PROVE  config.security \in SecurityConfig
  BY AdmissionAssumption DEF Remembered, config

\* The verdict on a decided request is what its gates would say again.
LEMMA DecidedByGates ==
    ASSUME Remembered, NEW r \in Decided
    PROVE  /\ GotIn(r) <=> LetsIn(config.security, r)
           /\ req[r].outcome # "authentication failed" =>
                Authenticate(config.security, req[r].in).mode # "error"
  <1>1. r \in Request /\ (GotIn(r) \/ req[r].outcome \in Refusals)
    BY DEF Decided
  <1>2. Faithful(req[r])
    BY <1>1 DEF Remembered
  <1>3. CASE GotIn(r)
    <2>1. GateVerdict(req[r].in, req[r].route, TRUE) = "passed"
      BY <1>2, <1>3 DEF Faithful, GotIn
    <2>2. QED BY <1>3, <2>1 DEF GateVerdict, LetsIn, Route
  <1>4. CASE ~GotIn(r)
    <2>1. /\ req[r].outcome \in Refusals
          /\ GateVerdict(req[r].in, req[r].route, TRUE) = req[r].outcome
      BY <1>1, <1>2, <1>4 DEF Faithful
    <2>2. QED BY <1>4, <2>1 DEF GateVerdict, LetsIn, Route, Refusals
  <1>5. QED BY <1>3, <1>4

\* Whoever gets in shows one credential that satisfies every kind of binding
\* of the route by itself (authenticate and authorize, security.rs:143-165,
\* 249-294).
THEOREM AccessExplainedHolds == Spec => []AccessExplained
  <1>1. Remembered => AccessExplained
    <2> SUFFICES ASSUME Remembered, NEW r \in Decided, GotIn(r)
                 PROVE  \E m \in IF config.security.enabled_modes = <<>> THEN {"anonymous"}
                                 ELSE ToSet(config.security.enabled_modes) :
                          LET id == AuthenticateMode(config.security, m, req[r].in)
                              satisfied(bindings, names) ==
                                (\E b \in bindings : b.route = Route(r).name) =>
                                (\E b \in bindings : b.route = Route(r).name /\ b.name \in names)
                          IN  /\ id.mode = m
                              /\ satisfied(config.security.rbac, id.roles)
                              /\ satisfied(config.security.group_rbac, id.groups)
                              /\ satisfied(config.security.subject_rbac, {id.subject})
      BY DEF AccessExplained
    <2> DEFINE cfg == config.security
               id == Authenticate(cfg, req[r].in)
    <2>1. cfg.enabled_modes \in Seq(AuthMode)
      BY SecurityTyped DEF SecurityConfig
    <2>2. id.mode # "error" /\ Authorize(cfg, id, Route(r).name)
      BY DecidedByGates DEF LetsIn
    <2>3. /\ AuthenticateMode(cfg, id.mode, req[r].in) = id
          /\ id.mode \in IF cfg.enabled_modes = <<>> THEN {"anonymous"}
                          ELSE ToSet(cfg.enabled_modes)
      BY <2>1, <2>2, ByOneMode
    <2>4. Bound(cfg, id, Route(r).name)
      BY <2>1, <2>2, BindingsDecide
    <2> HIDE DEF cfg, id
    <2>5. /\ Allowed(cfg.rbac, Route(r).name, id.roles)
          /\ Allowed(cfg.group_rbac, Route(r).name, id.groups)
          /\ Allowed(cfg.subject_rbac, Route(r).name, SubjectNames(id))
          /\ SubjectNames(id) \subseteq {id.subject}
      BY <2>4 DEF Bound, SubjectNames
    <2>6. /\ (\E b \in cfg.rbac : b.route = Route(r).name) =>
               (\E b \in cfg.rbac : b.route = Route(r).name /\ b.name \in id.roles)
          /\ (\E b \in cfg.group_rbac : b.route = Route(r).name) =>
               (\E b \in cfg.group_rbac : b.route = Route(r).name /\ b.name \in id.groups)
          /\ (\E b \in cfg.subject_rbac : b.route = Route(r).name) =>
               (\E b \in cfg.subject_rbac : b.route = Route(r).name /\ b.name \in {id.subject})
      BY <2>5 DEF Allowed
    <2>7. QED
      <3> USE <2>3 DEF cfg
      <3> WITNESS id.mode \in IF config.security.enabled_modes = <<>> THEN {"anonymous"}
                               ELSE ToSet(config.security.enabled_modes)
      <3>1. QED BY <2>6
  <1>2. QED BY <1>1, RememberedHolds, PTL

\* What the gates say of a request depends on who it is from and on the
\* bindings only.
LEMMA LetsInMeans ==
    ASSUME NEW cfg, NEW r, cfg.enabled_modes \in Seq(AuthMode)
    PROVE  LET id == Authenticate(cfg, req[r].in)
           IN  LetsIn(cfg, r) <=> id.mode # "error" /\ Bound(cfg, id, Route(r).name)
  BY BindingsDecide DEF LetsIn

\* A binding more for a route that has one of its kind takes access from
\* nobody, and the first one gives access to nobody (authorize,
\* security.rs:275-291).
THEOREM BindingsMonotoneHolds == Spec => []BindingsMonotone
  <1>1. Remembered => BindingsMonotone
    <2> DEFINE cfg == config.security
    <2> SUFFICES ASSUME Remembered, NEW r \in Decided,
                        NEW kind \in {"rbac", "group_rbac", "subject_rbac"},
                        NEW name \in {<<"admin">>, <<"dev">>, <<"alice">>, <<"nobody">>}
                 PROVE  LET more == [cfg EXCEPT ![kind] =
                                       @ \union {[name |-> name, route |-> Route(r).name]}]
                        IN  IF \E b \in cfg[kind] : b.route = Route(r).name
                            THEN GotIn(r) => LetsIn(more, r)
                            ELSE LetsIn(more, r) => GotIn(r)
      BY DEF BindingsMonotone
    <2> DEFINE new == [name |-> name, route |-> Route(r).name]
               more == [cfg EXCEPT ![kind] = @ \union {new}]
               id == Authenticate(cfg, req[r].in)
    <2>1. cfg \in SecurityConfig
      BY SecurityTyped
    <2>2. GotIn(r) <=> LetsIn(cfg, r)
      BY DecidedByGates
    <2>3. new.route = Route(r).name
      OBVIOUS
    <2> HIDE DEF cfg, new
    <2>4. cfg.enabled_modes \in Seq(AuthMode)
      BY <2>1 DEF SecurityConfig
    <2>5. /\ more.enabled_modes = cfg.enabled_modes /\ more.secret = cfg.secret
          /\ more.roles_claim = cfg.roles_claim /\ more.groups_claim = cfg.groups_claim
          /\ more.allowed_subjects = cfg.allowed_subjects
      BY <2>1 DEF SecurityConfig
    <2>6. /\ more.rbac = IF kind = "rbac" THEN cfg.rbac \union {new} ELSE cfg.rbac
          /\ more.group_rbac = IF kind = "group_rbac" THEN cfg.group_rbac \union {new}
                              ELSE cfg.group_rbac
          /\ more.subject_rbac = IF kind = "subject_rbac" THEN cfg.subject_rbac \union {new}
                                ELSE cfg.subject_rbac
      BY <2>1 DEF SecurityConfig
    <2>7. cfg[kind] = CASE kind = "rbac" -> cfg.rbac
                        [] kind = "group_rbac" -> cfg.group_rbac
                        [] kind = "subject_rbac" -> cfg.subject_rbac
      BY <2>1 DEF SecurityConfig
    <2> HIDE DEF more
    <2>8. Authenticate(more, req[r].in) = id
      BY <2>5, SameIdentity
    <2>9. /\ LetsIn(cfg, r) <=> id.mode # "error" /\ Bound(cfg, id, Route(r).name)
          /\ LetsIn(more, r) <=> id.mode # "error" /\ Bound(more, id, Route(r).name)
      BY <2>4, <2>5, <2>8, LetsInMeans
    <2> HIDE DEF id
    <2>10. CASE \E b \in cfg[kind] : b.route = Route(r).name
      <3>1. Bound(cfg, id, Route(r).name) => Bound(more, id, Route(r).name)
        <4>1. \A names : Allowed(cfg[kind], Route(r).name, names) =>
                          Allowed(cfg[kind] \union {new}, Route(r).name, names)
          BY <2>3, <2>10, AllowedMore
        <4>2. QED BY <2>6, <2>7, <4>1 DEF Bound
      <3>2. QED BY <2>2, <2>9, <2>10, <3>1 DEF more, new
    <2>11. CASE ~ \E b \in cfg[kind] : b.route = Route(r).name
      <3>1. Bound(more, id, Route(r).name) => Bound(cfg, id, Route(r).name)
        <4>1. \A names : Allowed(cfg[kind], Route(r).name, names)
          BY <2>3, <2>11, AllowedFirst
        <4>2. QED BY <2>6, <2>7, <4>1 DEF Bound
      <3>2. QED BY <2>2, <2>9, <2>11, <3>1 DEF more, new
    <2>12. QED BY <2>10, <2>11
  <1>2. QED BY <1>1, RememberedHolds, PTL

\* A list of modes with one more at its end.
LEMMA OneMoreMode ==
    ASSUME NEW modes \in Seq(AuthMode), NEW mode \in AuthMode
    PROVE  LET longer == Append(modes, mode)
           IN  /\ longer \in Seq(AuthMode) /\ longer # <<>>
               /\ DOMAIN longer = DOMAIN modes \union {Len(modes) + 1}
               /\ \A j \in DOMAIN modes : longer[j] = modes[j]
               /\ DOMAIN modes = 1..Len(modes) /\ Len(modes) \in Nat
  <1> DEFINE longer == Append(modes, mode)
  <1>1. DOMAIN modes = 1..Len(modes) /\ Len(modes) \in Nat
    OBVIOUS
  <1>2. longer \in Seq(AuthMode)
    OBVIOUS
  <1>3. Len(longer) = Len(modes) + 1 /\ DOMAIN longer = 1..(Len(modes) + 1)
    OBVIOUS
  <1>4. longer # <<>>
    BY <1>1, <1>3
  <1>5. DOMAIN longer = DOMAIN modes \union {Len(modes) + 1}
    BY <1>1, <1>3
  <1>6. \A j \in DOMAIN modes : longer[j] = modes[j]
    BY <1>1
  <1>7. QED BY <1>1, <1>2, <1>4, <1>5, <1>6

\* One more mode, after the others, changes nothing for a request that one of
\* them accepts: the first mode that does so decides (authenticate,
\* security.rs:153-159).
LEMMA LaterModeSameIdentity ==
    ASSUME NEW cfg \in SecurityConfig, NEW in, NEW mode \in AuthMode,
           cfg.enabled_modes # <<>>, Authenticate(cfg, in).mode # "error"
    PROVE  Authenticate([cfg EXCEPT !.enabled_modes = Append(@, mode)], in)
           = Authenticate(cfg, in)
  <1> DEFINE more == [cfg EXCEPT !.enabled_modes = Append(@, mode)]
             i == Min(Accepting(cfg, in))
             k == Min(Accepting(more, in))
  <1>1. /\ more.enabled_modes = Append(cfg.enabled_modes, mode)
        /\ more.secret = cfg.secret
        /\ more.roles_claim = cfg.roles_claim /\ more.groups_claim = cfg.groups_claim
        /\ more.allowed_subjects = cfg.allowed_subjects
        /\ cfg.enabled_modes \in Seq(AuthMode)
    BY DEF SecurityConfig
  <1> HIDE DEF more
  <1>2. \A m : AuthenticateMode(more, m, in) = AuthenticateMode(cfg, m, in)
    BY <1>1, SameMode
  <1>3. /\ i \in Accepting(cfg, in)
        /\ \A j \in Accepting(cfg, in) : i <= j
        /\ i \in DOMAIN cfg.enabled_modes
        /\ Authenticate(cfg, in) = AuthenticateMode(cfg, cfg.enabled_modes[i], in)
    BY <1>1, FirstAccepting
  <1> HIDE DEF i
  <1>4. /\ DOMAIN more.enabled_modes = DOMAIN cfg.enabled_modes
                                      \union {Len(cfg.enabled_modes) + 1}
        /\ \A j \in DOMAIN cfg.enabled_modes :
             more.enabled_modes[j] = cfg.enabled_modes[j]
        /\ DOMAIN cfg.enabled_modes = 1..Len(cfg.enabled_modes)
        /\ Len(cfg.enabled_modes) \in Nat
        /\ more.enabled_modes # <<>>
    BY <1>1, OneMoreMode
  <1>5. Accepting(more, in) \subseteq Accepting(cfg, in) \union {Len(cfg.enabled_modes) + 1}
    BY <1>2, <1>4 DEF Accepting
  <1>6. i \in Accepting(more, in)
    BY <1>2, <1>3, <1>4 DEF Accepting
  <1>7. \A j \in Accepting(more, in) : i <= j
    BY <1>3, <1>4, <1>5
  <1>8. k \in Accepting(more, in) /\ \A j \in Accepting(more, in) : k <= j
    <2>1. Accepting(more, in) \in SUBSET Nat
      BY <1>4 DEF Accepting
    <2>2. QED BY <1>6, <2>1, MinOfNats
  <1> HIDE DEF k
  <1>9. k = i
    <2>1. i \in Nat /\ k \in Nat
      BY <1>3, <1>4, <1>5, <1>8 DEF Accepting
    <2>2. QED BY <1>6, <1>7, <1>8, <2>1
  <1>10. Authenticate(more, in) = AuthenticateMode(more, more.enabled_modes[k], in)
    BY <1>4, <1>6 DEF Authenticate, k
  <1>11. QED BY <1>2, <1>3, <1>4, <1>9, <1>10 DEF more

\* Whether a request that the enabled modes accept got in or not, it would fare
\* the same with one more mode behind them (authenticate and authorize,
\* security.rs:153-159,249-294).
THEOREM LaterModeNoEffectHolds == Spec => []LaterModeNoEffect
  <1>1. Remembered => LaterModeNoEffect
    <2> DEFINE cfg == config.security
    <2> SUFFICES ASSUME Remembered, NEW r \in Decided, NEW mode \in AuthMode,
                        cfg.enabled_modes # <<>>,
                        req[r].outcome # "authentication failed"
                 PROVE  GotIn(r) =
                        LetsIn([cfg EXCEPT !.enabled_modes = Append(@, mode)], r)
      BY DEF LaterModeNoEffect
    <2> DEFINE more == [cfg EXCEPT !.enabled_modes = Append(@, mode)]
               id == Authenticate(cfg, req[r].in)
    <2>1. cfg \in SecurityConfig
      BY SecurityTyped
    <2>2. (GotIn(r) <=> LetsIn(cfg, r)) /\ id.mode # "error"
      BY DecidedByGates
    <2> HIDE DEF cfg
    <2>3. Authenticate(more, req[r].in) = id
      BY <2>1, <2>2, LaterModeSameIdentity
    <2>4. /\ cfg.enabled_modes \in Seq(AuthMode) /\ more.enabled_modes \in Seq(AuthMode)
          /\ more.rbac = cfg.rbac /\ more.group_rbac = cfg.group_rbac
          /\ more.subject_rbac = cfg.subject_rbac
      <3> DEFINE longer == Append(cfg.enabled_modes, mode)
      <3>1. cfg.enabled_modes \in Seq(AuthMode)
        BY <2>1 DEF SecurityConfig
      <3>2. longer \in Seq(AuthMode)
        BY <3>1, OneMoreMode
      <3> HIDE DEF longer
      <3>3. more = [cfg EXCEPT !.enabled_modes = longer]
        BY DEF longer
      <3>4. QED BY <2>1, <3>1, <3>2, <3>3 DEF SecurityConfig
    <2> HIDE DEF more
    <2>5. /\ LetsIn(cfg, r) <=> id.mode # "error" /\ Bound(cfg, id, Route(r).name)
          /\ LetsIn(more, r) <=> id.mode # "error" /\ Bound(more, id, Route(r).name)
      BY <2>3, <2>4, LetsInMeans
    <2>6. Bound(more, id, Route(r).name) <=> Bound(cfg, id, Route(r).name)
      BY <2>4 DEF Bound
    <2>7. QED BY <2>2, <2>5, <2>6 DEF more, GotIn, LetsIn
  <1>2. QED BY <1>1, RememberedHolds, PTL

=============================================================================
