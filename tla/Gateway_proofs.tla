---------------------------- MODULE Gateway_proofs ----------------------------
(***************************************************************************)
(* Proofs about the life of proxied requests, for any finite number of     *)
(* requests in progress, any list of targets and any configuration of      *)
(* retries, timeouts and thresholds.                                       *)
(*                                                                         *)
(* A handler is mostly alone: what one of its steps does is said by its    *)
(* record before and after it.  Sound collects what holds of each record   *)
(* at each place, and the invariant adds what the handlers have in common, *)
(* the registry and the count of those that hold a guard.                  *)
(***************************************************************************)
EXTENDS Gateway, SelectTarget_proofs, FiniteSetTheorems, SequenceTheorems

-----------------------------------------------------------------------------
\* One handler.

\* Before the retry loop nothing has been tried, waited for or recorded.
NotYet == {"idle", "enter", "gates", "fault", "body"}

\* How a handler may end: not behind the retry loop.
Ending == {"none", "draining", "not found", "denied", "limited", "aborted",
           "bad body", "timed out", "no target", "answered", "blocked",
           "send failed", "cancelled"}

\* Where it waits with a timer running.
Timed == {"sent", "backoff"}

\* What holds of the record of a handler, wherever it is.
Sound(h) ==
    /\ h \in Handler
    /\ h.at \in NotYet =>
         h.attempt = 0 /\ h.failures = 0 /\ h.elapsed = 0 /\ h.waited = 0
    /\ h.at # "done" => h.outcome = "none"
    /\ h.at \in InLoop => h.attempt >= 1
    /\ h.attempt <= MaxAttempts(h.method)
    /\ h.at = "backoff" => h.attempt < MaxAttempts(h.method)
    /\ h.at = "sent" => h.target \in Target
    /\ h.outcome # "retries exhausted"
    \* time
    /\ h.at = "pick" => h.elapsed < RequestTimeout
    /\ h.at = "sent" => h.waited <= ReadTimeout /\ h.elapsed < RequestTimeout + h.waited
    /\ h.at = "backoff" => /\ h.waited <= BackoffMs
                           /\ h.elapsed < RequestTimeout + ReadTimeout + h.waited
    /\ h.elapsed = 0 \/ h.elapsed < RequestTimeout + ReadTimeout + BackoffMs

\* The variables of the process other than the count.
ProcessOK ==
    /\ draining \in BOOLEAN
    /\ request_counter \in 0..(CounterModulus - 1)
    /\ metrics \in [Counter -> 0..(MetricModulus - 1)]
    /\ checker \in {-1, 0} \union Target
    /\ shutdown \in [phase: {"running", "draining", "stopped"},
                     elapsed: 0..DrainTimeout]

\* The inductive invariant.
Inv ==
    /\ ProcessOK
    /\ DOMAIN req = Request /\ req = [r \in Request |-> req[r]]
    /\ \A r \in Request : Sound(req[r])
    /\ InFlightExact

\* The places of a list are numbers.
LEMMA TargetsNumbered ==
    /\ Target = 1..Len(Targets) /\ Len(Targets) \in Nat
    /\ Len(Targets) >= 1
    /\ 0 \notin Target /\ -1 \notin Target
  <1>1. Targets \in Seq(UpstreamTarget) /\ Targets # <<>>
    BY GatewayAssumption
  <1>2. QED BY <1>1 DEF Target

\* At least one attempt is made.
LEMMA MaxAttemptsPositive ==
    ASSUME NEW method
    PROVE  MaxAttempts(method) \in Nat /\ MaxAttempts(method) >= 1
  BY GatewayAssumption DEF MaxAttempts

\* The timeouts are numbers.
LEMMA TimeoutsAreNats ==
    /\ BackoffMs \in Nat /\ ReadTimeout \in Nat /\ RequestTimeout \in Nat
    /\ DrainTimeout \in Nat /\ RecycleIds \in BOOLEAN
  BY GatewayAssumption

\* A handler without a request.
LEMMA IdleIsHandler == Idle \in Handler
  <1>1. <<>> \in Seq(Target) /\ 0 \in Target \union {0}
    OBVIOUS
  <1>2. "none" \in Outcome /\ "idle" \in Place
    BY DEF Outcome, Place
  <1>3. QED BY <1>1, <1>2 DEF Idle, Handler

\* The fields of a handler.
LEMMA HandlerFields ==
    ASSUME NEW h \in Handler
    PROVE  /\ h.at \in Place /\ h.method \in {"GET", "PUT", "POST"} /\ h.outcome \in Outcome
           /\ h.attempt \in Nat /\ h.elapsed \in Nat /\ h.waited \in Nat
           /\ h.seed \in Nat /\ h.next \in Nat /\ h.failures \in Nat
           /\ h.available \in Seq(Target) /\ h.target \in Target \union {0}
  BY DEF Handler

\* The updates whose new values are computed.
LEMMA HandlerUpdates ==
    ASSUME NEW h \in Handler, NEW m \in Nat, NEW n \in Nat
    PROVE  /\ [h EXCEPT !.failures = n] \in Handler
           /\ [h EXCEPT !.elapsed = m, !.waited = n] \in Handler
  BY DEF Handler

\* What a handler is that has not tried anything, or not any more.
LEMMA UntriedSound ==
    ASSUME NEW h \in Handler, h.at \in NotYet \union {"done"},
           h.at # "done" => h.outcome = "none",
           h.outcome \in Ending,
           h.attempt = 0, h.failures = 0, h.elapsed = 0, h.waited = 0
    PROVE  Sound(h)
  <1>1. MaxAttempts(h.method) \in Nat /\ MaxAttempts(h.method) >= 1
    BY MaxAttemptsPositive
  <1>2. h.attempt <= MaxAttempts(h.method)
    BY <1>1
  <1>3. h.outcome # "retries exhausted"
    BY DEF Ending
  <1>4. QED BY <1>2, <1>3 DEF Sound, NotYet, InLoop

-----------------------------------------------------------------------------
\* Steps.

\* A step of r's handler that leaves it with the record h, and the count in
\* agreement with whether r holds a guard.
Moves(r, h) ==
    /\ Sound(h)
    /\ req' = [req EXCEPT ![r] = h]
    /\ in_flight' = CASE req[r].at \notin Guarded /\ h.at \in Guarded -> in_flight + 1
                       [] req[r].at \in Guarded /\ h.at \notin Guarded -> in_flight - 1
                       [] OTHER -> in_flight

\* Such a step keeps the invariant.
LEMMA MovesKeepsInv ==
    ASSUME Inv, NEW r \in Request, NEW h, Moves(r, h), ProcessOK'
    PROVE  Inv'
  <1> DEFINE holders == {q \in Request : req[q].at \in Guarded}
  <1>1. IsFiniteSet(holders)
    BY FS_Subset, GatewayAssumption
  <1>2. in_flight = Cardinality(holders)
    BY DEF Inv, InFlightExact
  <1>3. /\ DOMAIN req' = Request /\ req' = [q \in Request |-> req'[q]]
        /\ req'[r] = h
        /\ \A q \in Request \ {r} : req'[q] = req[q]
    BY DEF Inv, Moves
  <1>4. \A q \in Request : Sound(req'[q])
    BY <1>3 DEF Inv, Moves
  <1>5. holders' = IF h.at \in Guarded THEN holders \union {r} ELSE holders \ {r}
    BY <1>3
  <1>6. Cardinality(holders) \in Nat
    BY <1>1, FS_CardinalityType
  <1>7. in_flight' = Cardinality(holders')
    <2>1. r \in holders <=> req[r].at \in Guarded
      OBVIOUS
    <2> HIDE DEF holders
    <2>2. Cardinality(holders \union {r}) = IF r \in holders THEN Cardinality(holders)
                                            ELSE Cardinality(holders) + 1
      BY <1>1, FS_AddElement
    <2>3. Cardinality(holders \ {r}) = IF r \in holders THEN Cardinality(holders) - 1
                                       ELSE Cardinality(holders)
      BY <1>1, FS_RemoveElement
    <2>4. QED BY <1>2, <1>5, <2>1, <2>2, <2>3 DEF Moves
  <1>8. InFlightExact'
    BY <1>7 DEF InFlightExact
  <1>9. \A q \in Request : Sound(req[q])'
    BY <1>4
  <1>10. QED BY <1>3, <1>8, <1>9 DEF Inv

\* Counting keeps the metrics within their width.
LEMMA CountedInRange ==
    ASSUME metrics \in [Counter -> 0..(MetricModulus - 1)], NEW cs
    PROVE  Counted(cs) \in [Counter -> 0..(MetricModulus - 1)]
  <1>1. \A n \in Nat : n % MetricModulus \in 0..(MetricModulus - 1)
    BY GatewayAssumption
  <1>2. \A c \in Counter : metrics[c] \in 0..(MetricModulus - 1) /\ metrics[c] + 1 \in Nat
    BY GatewayAssumption
  <1>3. \A c \in Counter : (metrics[c] + 1) % MetricModulus \in 0..(MetricModulus - 1)
    BY <1>1, <1>2
  <1>4. QED BY <1>2, <1>3 DEF Counted

\* The record a handler leaves when it returns.
LEMMA ReturnedSound ==
    ASSUME NEW r, Sound(req[r]),
           NEW outcome \in Ending
    PROVE  Sound(Returned(r, outcome)) /\ Returned(r, outcome).at = "done"
  <1> DEFINE h == Returned(r, outcome)
  <1>0. "done" \in Place /\ outcome \in Outcome
    BY DEF Place, Ending, Outcome
  <1>1. CASE RecycleIds
    <2>1. h = [Idle EXCEPT !.at = "done"]
      BY <1>1 DEF Returned
    <2>2. h \in Handler
      BY <1>0, <2>1, IdleIsHandler DEF Handler
    <2>3. /\ h.at = "done" /\ h.outcome = "none" /\ h.attempt = 0 /\ h.failures = 0
          /\ h.elapsed = 0 /\ h.waited = 0 /\ h.outcome \in Ending
      BY <2>1 DEF Idle, Ending
    <2> HIDE DEF h
    <2>4. Sound(h)
      BY <2>2, <2>3, UntriedSound
    <2>5. QED BY <2>3, <2>4 DEF h
  <1>2. CASE ~RecycleIds
    <2>0. /\ req[r].method \in {"GET", "PUT", "POST"} /\ req[r].attempt \in Nat
          /\ req[r].elapsed \in Nat /\ req[r].failures \in Nat
      BY HandlerFields DEF Sound
    <2>1. h = [Idle EXCEPT !.at = "done", !.method = req[r].method,
                           !.attempt = req[r].attempt, !.elapsed = req[r].elapsed,
                           !.failures = req[r].failures, !.outcome = outcome]
      BY <1>2 DEF Returned
    <2>2. h \in Handler
      BY <1>0, <2>0, <2>1, IdleIsHandler DEF Handler
    <2>3. /\ h.at = "done" /\ h.outcome = outcome /\ h.attempt = req[r].attempt
          /\ h.method = req[r].method /\ h.elapsed = req[r].elapsed
      BY <2>1 DEF Idle
    <2>6. outcome # "retries exhausted"
      BY DEF Ending
    <2> HIDE DEF h
    <2>4. Sound(h)
      BY <2>2, <2>3, <2>6 DEF Sound, NotYet, InLoop
    <2>5. QED BY <2>3, <2>4 DEF h
  <1>3. QED BY <1>1, <1>2, TimeoutsAreNats

\* A return from inside the guard.
LEMMA ReturnMoves ==
    ASSUME Inv, NEW r \in Request, req[r].at \in Guarded, NEW cs,
           NEW outcome \in Ending,
           Return(r, outcome, cs)
    PROVE  /\ Moves(r, Returned(r, outcome))
           /\ metrics' \in [Counter -> 0..(MetricModulus - 1)]
  <1>1. Sound(Returned(r, outcome)) /\ Returned(r, outcome).at = "done"
    BY ReturnedSound DEF Inv
  <1>2. "done" \notin Guarded
    BY DEF Guarded, InLoop
  <1>3. Moves(r, Returned(r, outcome))
    BY <1>1, <1>2 DEF Moves, Return
  <1>4. metrics' \in [Counter -> 0..(MetricModulus - 1)]
    BY CountedInRange DEF Return, Inv, ProcessOK
  <1>5. QED BY <1>3, <1>4

-----------------------------------------------------------------------------
\* The invariant is kept: one lemma per action.

\* Arrive, main.rs:220-224.
LEMMA ArriveKeepsInv ==
    ASSUME Inv, NEW r \in Request, NEW method \in Method, Arrive(r, method)
    PROVE  Inv'
  <1> DEFINE h == IF draining
                  THEN [Idle EXCEPT !.at = "done", !.method = method,
                                    !.outcome = "draining"]
                  ELSE [Idle EXCEPT !.at = "enter", !.method = method]
  <1>1. method \in {"GET", "PUT", "POST"}
    BY GatewayAssumption
  <1>2. "done" \in Place /\ "enter" \in Place /\ "draining" \in Outcome
    BY DEF Place, Outcome
  <1>3. h \in Handler
    BY <1>1, <1>2, IdleIsHandler DEF Handler
  <1>4. /\ h.at \in {"done", "enter"} /\ h.outcome \in {"none", "draining"}
        /\ h.at # "done" => h.outcome = "none"
        /\ h.attempt = 0 /\ h.failures = 0 /\ h.elapsed = 0 /\ h.waited = 0
    BY DEF Idle
  <1>5. req' = [req EXCEPT ![r] = h] /\ in_flight' = in_flight
    BY DEF Arrive
  <1> HIDE DEF h
  <1>6. Sound(h)
    BY <1>3, <1>4, UntriedSound DEF NotYet, Ending
  <1>7. req[r].at \notin Guarded /\ h.at \notin Guarded
    BY <1>4 DEF Arrive, Guarded, InLoop
  <1>8. Moves(r, h)
    BY <1>5, <1>6, <1>7 DEF Moves
  <1>9. ProcessOK'
    BY CountedInRange DEF Arrive, Inv, ProcessOK
  <1>10. QED BY <1>8, <1>9, MovesKeepsInv

\* A step inside the guard that changes nothing but the handler's record.
LEMMA InsideKeepsInv ==
    ASSUME Inv, NEW r \in Request, NEW h, Sound(h),
           req[r].at \in Guarded, h.at \in Guarded,
           req' = [req EXCEPT ![r] = h], UNCHANGED in_flight, ProcessOK'
    PROVE  Inv'
  <1>1. Moves(r, h)
    BY DEF Moves
  <1>2. QED BY <1>1, MovesKeepsInv

\* A return keeps the invariant.
LEMMA ReturnKeepsInv ==
    ASSUME Inv, NEW r \in Request, req[r].at \in Guarded, NEW cs, NEW outcome \in Ending,
           Return(r, outcome, cs),
           (metrics' \in [Counter -> 0..(MetricModulus - 1)]) => ProcessOK'
    PROVE  Inv'
  BY ReturnMoves, MovesKeepsInv

\* Where a handler is allowed to be between two steps before the retry loop.
LEMMA ForwardSound ==
    ASSUME NEW h, Sound(h), h.at \in NotYet, NEW place \in NotYet
    PROVE  Sound([h EXCEPT !.at = place])
  <1> DEFINE g == [h EXCEPT !.at = place]
  <1>1. place \in Place
    BY DEF NotYet, Place
  <1>2. g \in Handler
    BY <1>1 DEF Sound, Handler
  <1>3. /\ g.at = place /\ g.outcome = h.outcome /\ g.attempt = h.attempt
        /\ g.failures = h.failures /\ g.elapsed = h.elapsed /\ g.waited = h.waited
    BY DEF Sound, Handler
  <1>4. h.at # "done"
    BY DEF NotYet
  <1>5. /\ h.outcome = "none" /\ h.attempt = 0 /\ h.failures = 0
        /\ h.elapsed = 0 /\ h.waited = 0
    BY <1>4 DEF Sound
  <1> HIDE DEF g
  <1>6. Sound(g)
    BY <1>2, <1>3, <1>5, UntriedSound DEF Ending
  <1>7. QED BY <1>6 DEF g

\* InFlightGuard::new
LEMMA EnterKeepsInv ==
    ASSUME Inv, NEW r \in Request, Enter(r)
    PROVE  Inv'
  <1> DEFINE h == [req[r] EXCEPT !.at = "gates"]
  <1>1. Sound(h)
    BY ForwardSound DEF Inv, Enter, NotYet
  <1>2. req' = [req EXCEPT ![r] = h] /\ in_flight' = in_flight + 1
    BY DEF Enter
  <1>3. h.at = "gates"
    BY DEF Inv, Sound, Handler
  <1> HIDE DEF h
  <1>4. req[r].at \notin Guarded /\ h.at \in Guarded
    BY <1>3 DEF Enter, Guarded, InLoop
  <1>5. Moves(r, h)
    BY <1>1, <1>2, <1>4 DEF Moves
  <1>6. ProcessOK'
    BY DEF Enter, Inv, ProcessOK
  <1>7. QED BY <1>5, <1>6, MovesKeepsInv

\* The step from one place before the loop to the next.
LEMMA ForwardKeepsInv ==
    ASSUME Inv, NEW r \in Request, req[r].at \in {"gates", "fault"},
           NEW place \in {"fault", "body"}, req' = [req EXCEPT ![r].at = place],
           UNCHANGED <<in_flight, draining, request_counter, metrics, checker, shutdown>>
    PROVE  Inv'
  <1> DEFINE h == [req[r] EXCEPT !.at = place]
  <1>1. Sound(h)
    BY ForwardSound DEF Inv, NotYet
  <1>2. h.at = place
    BY DEF Inv, Sound, Handler
  <1>3. req' = [req EXCEPT ![r] = h]
    OBVIOUS
  <1> HIDE DEF h
  <1>4. req[r].at \in Guarded /\ h.at \in Guarded
    BY <1>2 DEF Guarded, InLoop
  <1>5. ProcessOK'
    BY DEF Inv, ProcessOK
  <1>6. QED BY <1>1, <1>3, <1>4, <1>5, InsideKeepsInv

\* The gates, main.rs:226-297.
LEMMA GateKeepsInv ==
    ASSUME Inv, NEW r \in Request, Gate(r)
    PROVE  Inv'
  <1>1. /\ req[r].at = "gates" /\ req[r].at \in Guarded
        /\ UNCHANGED <<draining, request_counter, checker, shutdown>>
    BY DEF Gate, Guarded
  <1>2. (metrics' \in [Counter -> 0..(MetricModulus - 1)]) => ProcessOK'
    BY <1>1 DEF Inv, ProcessOK
  <1>3. CASE req' = [req EXCEPT ![r].at = "fault"] /\ UNCHANGED <<in_flight, metrics>>
    BY <1>1, <1>3, ForwardKeepsInv
  <1>4. CASE Return(r, "not found", {})
    BY <1>1, <1>2, <1>4, ReturnKeepsInv DEF Ending
  <1>5. CASE Return(r, "denied", {"unauthorized"})
    BY <1>1, <1>2, <1>5, ReturnKeepsInv DEF Ending
  <1>6. CASE Return(r, "limited", {"rate_limited"})
    BY <1>1, <1>2, <1>6, ReturnKeepsInv DEF Ending
  <1>7. QED BY <1>3, <1>4, <1>5, <1>6 DEF Gate

\* Fault injection.
LEMMA FaultKeepsInv ==
    ASSUME Inv, NEW r \in Request, Fault(r)
    PROVE  Inv'
  <1>1. /\ req[r].at = "fault" /\ req[r].at \in Guarded
        /\ UNCHANGED <<draining, request_counter, checker, shutdown>>
    BY DEF Fault, Guarded
  <1>2. (metrics' \in [Counter -> 0..(MetricModulus - 1)]) => ProcessOK'
    BY <1>1 DEF Inv, ProcessOK
  <1>3. CASE req' = [req EXCEPT ![r].at = "body"] /\ UNCHANGED <<in_flight, metrics>>
    BY <1>1, <1>3, ForwardKeepsInv
  <1>4. CASE Return(r, "aborted", {})
    BY <1>1, <1>2, <1>4, ReturnKeepsInv DEF Ending
  <1>5. QED BY <1>3, <1>4 DEF Fault

\* Reading the body; the loop starts with its first attempt.
LEMMA ReadBodyKeepsInv ==
    ASSUME Inv, NEW r \in Request, ReadBody(r)
    PROVE  Inv'
  <1>1. /\ req[r].at = "body" /\ req[r].at \in Guarded
        /\ UNCHANGED <<draining, request_counter, checker, shutdown>>
    BY DEF ReadBody, Guarded
  <1>2. (metrics' \in [Counter -> 0..(MetricModulus - 1)]) => ProcessOK'
    BY <1>1 DEF Inv, ProcessOK
  <1>3. CASE /\ req' = [req EXCEPT ![r].at = "attempt", ![r].attempt = 1]
             /\ UNCHANGED <<in_flight, metrics>>
    <2> DEFINE h == [req[r] EXCEPT !.at = "attempt", !.attempt = 1]
    <2>1. Sound(req[r])
      BY DEF Inv
    <2>2. "attempt" \in Place
      BY DEF Place
    <2>3. h \in Handler
      BY <2>1, <2>2 DEF Sound, Handler
    <2>4. /\ h.at = "attempt" /\ h.attempt = 1 /\ h.outcome = req[r].outcome
          /\ h.failures = req[r].failures /\ h.elapsed = req[r].elapsed
          /\ h.method = req[r].method
      BY <2>1 DEF Sound, Handler
    <2>5. req' = [req EXCEPT ![r] = h]
      BY <1>3 DEF Inv
    <2>6. req[r].outcome = "none" /\ req[r].failures = 0 /\ req[r].elapsed = 0
      BY <1>1, <2>1 DEF Sound, NotYet
    <2>7. MaxAttempts(h.method) \in Nat /\ MaxAttempts(h.method) >= 1
      BY MaxAttemptsPositive
    <2> HIDE DEF h
    <2>8. Sound(h)
      BY <2>3, <2>4, <2>6, <2>7 DEF Sound, NotYet, InLoop
    <2>9. h.at \in Guarded
      BY <2>4 DEF Guarded, InLoop
    <2>10. ProcessOK'
      BY <1>2, <1>3 DEF Inv, ProcessOK
    <2>11. QED BY <1>1, <1>3, <2>5, <2>8, <2>9, <2>10, InsideKeepsInv
  <1>4. CASE Return(r, "bad body", {"errors"})
    BY <1>1, <1>2, <1>4, ReturnKeepsInv DEF Ending
  <1>5. QED BY <1>3, <1>4 DEF ReadBody

\* The head of the retry loop, main.rs:336-342.
LEMMA StartAttemptKeepsInv ==
    ASSUME Inv, NEW r \in Request, StartAttempt(r)
    PROVE  Inv'
  <1> DEFINE h == [req[r] EXCEPT !.at = "pick", !.seed = request_counter, !.next = 1]
  <1>1. /\ req[r].at = "attempt" /\ req[r].at \in Guarded
        /\ UNCHANGED <<draining, checker, shutdown>>
    BY DEF StartAttempt, Guarded, InLoop
  <1>2. Sound(req[r]) /\ request_counter \in Nat
    BY GatewayAssumption DEF Inv, ProcessOK
  <1>3. /\ req[r].attempt \in Nat /\ MaxAttempts(req[r].method) \in Nat
        /\ req[r].elapsed \in Nat /\ req[r].attempt <= MaxAttempts(req[r].method)
    BY <1>2, HandlerFields, MaxAttemptsPositive DEF Sound
  <1>4. \/ /\ Return(r, "timed out", {"upstream_failures"})
           /\ UNCHANGED request_counter
        \/ /\ ~(req[r].elapsed >= RequestTimeout)
           /\ request_counter' = (request_counter + 1) % CounterModulus
           /\ req' = [req EXCEPT ![r] = h]
           /\ UNCHANGED <<in_flight, metrics>>
    <2>1. ~(req[r].attempt > MaxAttempts(req[r].method))
      BY <1>3
    <2> HIDE DEF h
    <2>2. CASE req[r].elapsed >= RequestTimeout
      BY <1>3, <2>1, <2>2 DEF StartAttempt
    <2>3. CASE ~(req[r].elapsed >= RequestTimeout)
      BY <1>3, <2>1, <2>3 DEF StartAttempt, h
    <2>4. QED BY <2>2, <2>3
  <1>5. CASE Return(r, "timed out", {"upstream_failures"}) /\ UNCHANGED request_counter
    <2>1. (metrics' \in [Counter -> 0..(MetricModulus - 1)]) => ProcessOK'
      BY <1>1, <1>5 DEF Inv, ProcessOK
    <2>2. QED BY <1>1, <1>5, <2>1, ReturnKeepsInv DEF Ending
  <1>6. CASE /\ ~(req[r].elapsed >= RequestTimeout)
             /\ request_counter' = (request_counter + 1) % CounterModulus
             /\ req' = [req EXCEPT ![r] = h]
             /\ UNCHANGED <<in_flight, metrics>>
    <2>1. "pick" \in Place
      BY DEF Place
    <2>2. h \in Handler
      BY <1>2, <2>1 DEF Sound, Handler
    <2>3. /\ h.at = "pick" /\ h.attempt = req[r].attempt /\ h.outcome = req[r].outcome
          /\ h.failures = req[r].failures /\ h.elapsed = req[r].elapsed
          /\ h.method = req[r].method
      BY <1>2 DEF Sound, Handler
    <2>4. req[r].elapsed < RequestTimeout
      BY <1>3, <1>6, TimeoutsAreNats
    <2>5. req' = [req EXCEPT ![r] = h]
      BY <1>6
    <2> HIDE DEF h
    <2>6. Sound(h)
      BY <1>1, <1>2, <1>3, <2>2, <2>3, <2>4 DEF Sound, NotYet, InLoop
    <2>7. h.at \in Guarded
      BY <2>3 DEF Guarded, InLoop
    <2>8. (request_counter + 1) % CounterModulus \in 0..(CounterModulus - 1)
      BY <1>2, GatewayAssumption
    <2>9. ProcessOK'
      BY <1>1, <1>6, <2>8 DEF Inv, ProcessOK
    <2>10. QED BY <1>1, <1>6, <2>5, <2>6, <2>7, <2>9, InsideKeepsInv
  <1>7. QED BY <1>4, <1>5, <1>6

\* pick_target, first half.
LEMMA FilterKeepsInv ==
    ASSUME Inv, NEW r \in Request, Filter(r)
    PROVE  Inv'
  <1> DEFINE t == req[r].next
             available == IF Admits(targets[t]) THEN Append(req[r].available, t)
                                                ELSE req[r].available
             h == [req[r] EXCEPT !.next = t + 1, !.available = available]
  <1>1. /\ req[r].at = "pick" /\ req[r].at \in Guarded /\ t \in Target
        /\ UNCHANGED process
    BY DEF Filter, Guarded, InLoop
  <1>2. Sound(req[r])
    BY DEF Inv
  <1>3. t + 1 \in Nat /\ available \in Seq(Target)
    <2>1. req[r].next \in Nat /\ req[r].available \in Seq(Target)
      BY <1>2, HandlerFields DEF Sound
    <2>2. QED BY <1>1, <2>1
  <1>4. req' = [req EXCEPT ![r] = h]
    BY DEF Filter
  <1>5. h \in Handler
    BY <1>2, <1>3 DEF Sound, Handler
  <1>6. /\ h.at = "pick" /\ h.attempt = req[r].attempt /\ h.outcome = req[r].outcome
        /\ h.failures = req[r].failures /\ h.elapsed = req[r].elapsed
        /\ h.method = req[r].method
    BY <1>1, <1>2 DEF Sound, Handler
  <1> HIDE DEF h
  <1>7. Sound(h)
    BY <1>1, <1>2, <1>5, <1>6 DEF Sound, NotYet, InLoop
  <1>8. h.at \in Guarded
    BY <1>1, <1>6
  <1>9. ProcessOK' /\ UNCHANGED in_flight
    BY <1>1 DEF Inv, ProcessOK, process
  <1>10. QED BY <1>1, <1>4, <1>7, <1>8, <1>9, InsideKeepsInv

\* What select_target is given and what it answers: a place of the list.
LEMMA ChosenIsTarget ==
    ASSUME NEW available \in Seq(Target), NEW hash, NEW seed
    PROVE  LET list   == [i \in DOMAIN available |-> Targets[available[i]]]
               chosen == SelectTarget(Strategy, list, hash, seed)
           IN  chosen # None => available[chosen] \in Target
  <1> DEFINE list   == [i \in DOMAIN available |-> Targets[available[i]]]
             chosen == SelectTarget(Strategy, list, hash, seed)
  <1>1. DOMAIN available = 1..Len(available) /\ Len(available) \in Nat
    OBVIOUS
  <1>2. \A i \in DOMAIN available : available[i] \in Target
    OBVIOUS
  <1>3. \A t \in Target : Targets[t] \in UpstreamTarget
    BY GatewayAssumption DEF Target
  <1>4. list \in [1..Len(available) -> UpstreamTarget]
    BY <1>1, <1>2, <1>3
  <1>5. list \in Seq(UpstreamTarget) /\ DOMAIN list = DOMAIN available
    <2> HIDE DEF list
    <2>1. list \in Seq(UpstreamTarget)
      BY <1>1, <1>4, IsASeq
    <2>2. DOMAIN list = DOMAIN available
      BY <1>1, <1>4
    <2>3. QED BY <2>1, <2>2
  <1>6. Strategy \in BalancingStrategy
    BY GatewayAssumption
  <1> HIDE DEF list
  <1>7. chosen = None \/ chosen \in DOMAIN list
    BY <1>5, <1>6, SelectTargetInList
  <1> HIDE DEF chosen
  <1>8. chosen # None => available[chosen] \in Target
    BY <1>2, <1>5, <1>7
  <1>9. QED BY <1>8 DEF chosen, list

\* pick_target, second half.
LEMMA SelectKeepsInv ==
    ASSUME Inv, NEW r \in Request, Select(r)
    PROVE  Inv'
  <1> DEFINE list   == [i \in DOMAIN req[r].available |-> Targets[req[r].available[i]]]
             chosen == SelectTarget(Strategy, list, HashOf[r], req[r].seed)
             t == req[r].available[chosen]
             h == [req[r] EXCEPT !.at = "sent", !.seed = 0, !.next = 0,
                                 !.available = <<>>, !.waited = 0, !.target = t]
  <1>1. /\ req[r].at = "pick" /\ req[r].at \in Guarded
        /\ UNCHANGED <<draining, request_counter, checker, shutdown>>
    BY DEF Select, Guarded, InLoop
  <1>2. Sound(req[r])
    BY DEF Inv
  <1>3. req[r].available \in Seq(Target)
    BY <1>2, HandlerFields DEF Sound
  <1>4. chosen # None => t \in Target
    BY <1>3, ChosenIsTarget
  <1>5. \/ Return(r, "no target", {"errors"})
        \/ /\ chosen # None
           /\ req' = [req EXCEPT ![r] = h]
           /\ UNCHANGED <<in_flight, metrics>>
    BY DEF Select
  <1> HIDE DEF chosen, t
  <1>6. (metrics' \in [Counter -> 0..(MetricModulus - 1)]) => ProcessOK'
    BY <1>1 DEF Inv, ProcessOK
  <1>7. CASE Return(r, "no target", {"errors"})
    BY <1>1, <1>6, <1>7, ReturnKeepsInv DEF Ending
  <1>8. CASE /\ chosen # None
             /\ req' = [req EXCEPT ![r] = h]
             /\ UNCHANGED <<in_flight, metrics>>
    <2>1. "sent" \in Place /\ <<>> \in Seq(Target) /\ t \in Target \union {0}
      BY <1>4, <1>8 DEF Place
    <2>2. h \in Handler
      BY <1>2, <2>1 DEF Sound, Handler
    <2>3. /\ h.at = "sent" /\ h.attempt = req[r].attempt /\ h.outcome = req[r].outcome
          /\ h.failures = req[r].failures /\ h.elapsed = req[r].elapsed
          /\ h.method = req[r].method /\ h.waited = 0 /\ h.target = t
      BY <1>2 DEF Sound, Handler
    <2>4. req' = [req EXCEPT ![r] = h]
      BY <1>8
    <2>5. /\ req[r].elapsed \in Nat /\ req[r].elapsed < RequestTimeout
          /\ req[r].outcome = "none" /\ req[r].attempt >= 1
          /\ req[r].attempt <= MaxAttempts(req[r].method)
      BY <1>1, <1>2, HandlerFields DEF Sound, InLoop
    <2> HIDE DEF h
    <2>6. Sound(h)
      BY <1>4, <1>8, <2>2, <2>3, <2>5, TimeoutsAreNats DEF Sound, NotYet, InLoop
    <2>7. h.at \in Guarded
      BY <2>3 DEF Guarded, InLoop
    <2>8. ProcessOK'
      BY <1>6, <1>8 DEF Inv, ProcessOK
    <2>9. QED BY <1>1, <1>8, <2>4, <2>6, <2>7, <2>8, InsideKeepsInv
  <1>9. QED BY <1>5, <1>7, <1>8

\* Counting a failed send.
LEMMA OneMoreFailureType ==
    ASSUME NEW r, Sound(req[r])
    PROVE  OneMoreFailure(r) \in Nat /\ req[r].failures \in Nat
  <1>1. req[r].failures \in Nat
    BY HandlerFields DEF Sound
  <1>2. QED BY <1>1 DEF OneMoreFailure

\* The record a handler leaves when its last send has failed.
LEMMA GiveUpKeepsInv ==
    ASSUME Inv, NEW r \in Request, req[r].at = "sent", NEW n \in Nat,
           GiveUp(r, n), ProcessOK'
    PROVE  Inv'
  <1> DEFINE g == Returned(r, "send failed")
             h == [g EXCEPT !.failures = n]
  <1>1. Sound(req[r]) /\ req[r].at \in Guarded
    BY DEF Inv, Guarded, InLoop
  <1>2. Sound(g) /\ g.at = "done"
    BY <1>1, ReturnedSound DEF Ending
  <1>3. req' = [req EXCEPT ![r] = h] /\ in_flight' = in_flight - 1
    BY DEF GiveUp
  <1> HIDE DEF g
  <1>4. h \in Handler
    BY <1>2, HandlerUpdates DEF Sound
  <1>5. /\ h.at = "done" /\ h.outcome = g.outcome /\ h.attempt = g.attempt
        /\ h.method = g.method /\ h.elapsed = g.elapsed
    BY <1>2 DEF Sound, Handler
  <1> HIDE DEF h
  <1>6. Sound(h)
    BY <1>2, <1>4, <1>5 DEF Sound, NotYet, InLoop
  <1>7. h.at \notin Guarded
    BY <1>5 DEF Guarded, InLoop
  <1>8. Moves(r, h)
    BY <1>1, <1>3, <1>6, <1>7 DEF Moves
  <1>9. QED BY <1>8, MovesKeepsInv

\* Going to sleep before the next attempt.
LEMMA SleepKeepsInv ==
    ASSUME Inv, NEW r \in Request, req[r].at = "sent", CanRetry(r),
           NEW n \in Nat, SleepBeforeRetry(r, n), ProcessOK'
    PROVE  Inv'
  <1> DEFINE h == [req[r] EXCEPT !.at = "backoff", !.target = 0, !.waited = 0,
                                 !.failures = n]
  <1>1. Sound(req[r]) /\ req[r].at \in Guarded
    BY DEF Inv, Guarded, InLoop
  <1>2. req[r].attempt \in Nat /\ req[r].elapsed \in Nat /\ req[r].waited \in Nat
    BY <1>1, HandlerFields DEF Sound
  <1>3. "backoff" \in Place /\ 0 \in Target \union {0}
    BY DEF Place
  <1>4. h \in Handler
    BY <1>1, <1>3 DEF Sound, Handler
  <1>5. /\ h.at = "backoff" /\ h.attempt = req[r].attempt /\ h.outcome = req[r].outcome
        /\ h.elapsed = req[r].elapsed
        /\ h.method = req[r].method /\ h.waited = 0
    BY <1>1 DEF Sound, Handler
  <1>6. req' = [req EXCEPT ![r] = h] /\ UNCHANGED in_flight
    BY DEF SleepBeforeRetry
  <1>7. /\ req[r].outcome = "none" /\ req[r].attempt >= 1
        /\ req[r].attempt < MaxAttempts(req[r].method)
        /\ req[r].waited <= ReadTimeout
        /\ req[r].elapsed < RequestTimeout + req[r].waited
    BY <1>1 DEF Sound, InLoop, CanRetry
  <1>8. /\ req[r].elapsed < RequestTimeout + ReadTimeout
        /\ req[r].elapsed < RequestTimeout + ReadTimeout + BackoffMs
    BY <1>2, <1>7, TimeoutsAreNats
  <1>9. req[r].attempt <= MaxAttempts(req[r].method)
    BY <1>1 DEF Sound
  <1> HIDE DEF h
  <1>10. Sound(h)
    BY <1>2, <1>4, <1>5, <1>7, <1>8, <1>9, TimeoutsAreNats DEF Sound, NotYet, InLoop
  <1>11. h.at \in Guarded
    BY <1>5 DEF Guarded, InLoop
  <1>12. QED BY <1>1, <1>6, <1>10, <1>11, InsideKeepsInv

\* send().await returned, main.rs:364-419.
LEMMA ReceiveKeepsInv ==
    ASSUME Inv, NEW r \in Request, NEW answer, Receive(r, answer)
    PROVE  Inv'
  <1>1. req[r].at = "sent" /\ UNCHANGED <<draining, request_counter, checker, shutdown>>
    BY DEF Receive
  <1>2. (metrics' \in [Counter -> 0..(MetricModulus - 1)]) => ProcessOK'
    BY <1>1 DEF Inv, ProcessOK
  <1>3. /\ metrics \in [Counter -> 0..(MetricModulus - 1)]
        /\ Counted({"upstream_failures"}) \in [Counter -> 0..(MetricModulus - 1)]
    BY CountedInRange DEF Inv, ProcessOK
  <1>4. Sound(req[r])
    BY DEF Inv
  <1>5. \/ /\ CanRetry(r) /\ \E n \in Nat : SleepBeforeRetry(r, n)
           /\ metrics' \in {metrics, Counted({"upstream_failures"})}
        \/ /\ \E n \in Nat : GiveUp(r, n)
           /\ metrics' = Counted({"upstream_failures"})
        \/ \E outcome \in {"answered", "blocked"} : Return(r, outcome, {})
    BY <1>4, OneMoreFailureType DEF Receive, SendFailed, StatusReceived
  <1>6. CASE /\ CanRetry(r) /\ \E n \in Nat : SleepBeforeRetry(r, n)
             /\ metrics' \in {metrics, Counted({"upstream_failures"})}
    <2>1. ProcessOK'
      BY <1>2, <1>3, <1>6
    <2>2. QED BY <1>1, <1>6, <2>1, SleepKeepsInv
  <1>7. CASE /\ \E n \in Nat : GiveUp(r, n)
             /\ metrics' = Counted({"upstream_failures"})
    <2>1. ProcessOK'
      BY <1>2, <1>3, <1>7
    <2>2. QED BY <1>1, <1>7, <2>1, GiveUpKeepsInv
  <1>8. CASE \E outcome \in {"answered", "blocked"} : Return(r, outcome, {})
    <2>1. req[r].at \in Guarded
      BY <1>1 DEF Guarded, InLoop
    <2>2. QED BY <1>2, <1>8, <2>1, ReturnKeepsInv DEF Ending
  <1>9. QED BY <1>5, <1>6, <1>7, <1>8

\* sleep(backoff_ms).await returned.
LEMMA WakeKeepsInv ==
    ASSUME Inv, NEW r \in Request, Wake(r)
    PROVE  Inv'
  <1> DEFINE h == [req[r] EXCEPT !.at = "attempt", !.waited = 0,
                                 !.attempt = req[r].attempt + 1]
  <1>1. /\ req[r].at = "backoff" /\ req[r].at \in Guarded
        /\ UNCHANGED process
    BY DEF Wake, Guarded, InLoop
  <1>2. Sound(req[r])
    BY DEF Inv
  <1>3. /\ req[r].attempt \in Nat /\ req[r].elapsed \in Nat
        /\ MaxAttempts(req[r].method) \in Nat
    BY <1>2, HandlerFields, MaxAttemptsPositive DEF Sound
  <1>4. "attempt" \in Place /\ req[r].attempt + 1 \in Nat
    BY <1>3 DEF Place
  <1>5. h \in Handler
    BY <1>2, <1>4 DEF Sound, Handler
  <1>6. /\ h.at = "attempt" /\ h.attempt = req[r].attempt + 1
        /\ h.outcome = req[r].outcome
        /\ h.failures = req[r].failures /\ h.elapsed = req[r].elapsed
        /\ h.method = req[r].method
    BY <1>2 DEF Sound, Handler
  <1>7. req' = [req EXCEPT ![r] = h]
    BY DEF Wake
  <1>8. /\ req[r].outcome = "none" /\ req[r].attempt < MaxAttempts(req[r].method)
        /\ \/ req[r].elapsed = 0
           \/ req[r].elapsed < RequestTimeout + ReadTimeout + BackoffMs
    BY <1>1, <1>2 DEF Sound
  <1>9. req[r].attempt + 1 <= MaxAttempts(req[r].method)
    BY <1>3, <1>8
  <1> HIDE DEF h
  <1>10. Sound(h)
    BY <1>3, <1>5, <1>6, <1>8, <1>9 DEF Sound, NotYet, InLoop
  <1>11. h.at \in Guarded
    BY <1>6 DEF Guarded, InLoop
  <1>12. ProcessOK' /\ UNCHANGED in_flight
    BY <1>1 DEF Inv, ProcessOK, process
  <1>13. QED BY <1>1, <1>7, <1>10, <1>11, <1>12, InsideKeepsInv

\* A client that goes away.
LEMMA LeaveKeepsInv ==
    ASSUME Inv, NEW r \in Request, Leave(r)
    PROVE  Inv'
  <1>1. /\ req[r].at \in Guarded /\ Return(r, "cancelled", {})
        /\ UNCHANGED <<draining, request_counter, checker, shutdown>>
    BY DEF Leave, Awaiting, Guarded, InLoop
  <1>2. (metrics' \in [Counter -> 0..(MetricModulus - 1)]) => ProcessOK'
    BY <1>1 DEF Inv, ProcessOK
  <1>3. QED BY <1>1, <1>2, ReturnKeepsInv DEF Ending

\* A step of another task leaves the handlers and their count alone.
LEMMA OthersKeepInv ==
    ASSUME Inv, UNCHANGED <<req, in_flight>>, ProcessOK'
    PROVE  Inv'
  BY DEF Inv, InFlightExact

\* The tasks that are not handlers.
LEMMA TasksKeepInv ==
    ASSUME Inv,
           \/ CheckerTick \/ CtrlC \/ CtrlCUnavailable \/ DrainPoll
           \/ \E healthy \in BOOLEAN : CheckerResult(healthy)
    PROVE  Inv'
  <1>1. /\ draining \in BOOLEAN /\ request_counter \in 0..(CounterModulus - 1)
        /\ metrics \in [Counter -> 0..(MetricModulus - 1)]
        /\ checker \in {-1, 0} \union Target
        /\ shutdown \in [phase: {"running", "draining", "stopped"},
                         elapsed: 0..DrainTimeout]
    BY DEF Inv, ProcessOK
  <1>2. CASE CheckerTick
    <2>1. checker' \in {-1, 0} \union Target
      BY <1>2, TargetsNumbered DEF CheckerTick
    <2>2. ProcessOK' /\ UNCHANGED <<req, in_flight>>
      BY <1>1, <1>2, <2>1 DEF CheckerTick, ProcessOK
    <2>3. QED BY <2>2, OthersKeepInv
  <1>3. CASE CtrlC
    <2>1. shutdown' \in [phase: {"running", "draining", "stopped"}, elapsed: 0..DrainTimeout]
      BY <1>3, TimeoutsAreNats DEF CtrlC
    <2>2. ProcessOK' /\ UNCHANGED <<req, in_flight>>
      BY <1>1, <1>3, <2>1 DEF CtrlC, ProcessOK
    <2>3. QED BY <2>2, OthersKeepInv
  <1>4. CASE CtrlCUnavailable \/ DrainPoll
    <2>1. shutdown' \in [phase: {"running", "draining", "stopped"}, elapsed: 0..DrainTimeout]
      BY <1>1, <1>4 DEF CtrlCUnavailable, DrainPoll
    <2>2. ProcessOK' /\ UNCHANGED <<req, in_flight>>
      BY <1>1, <1>4, <2>1 DEF CtrlCUnavailable, DrainPoll, ProcessOK
    <2>3. QED BY <2>2, OthersKeepInv
  <1>5. ASSUME NEW healthy \in BOOLEAN, CheckerResult(healthy)
        PROVE  Inv'
    <2>1. checker' \in {-1, 0} \union Target
      BY <1>5 DEF CheckerResult
    <2>2. ProcessOK' /\ UNCHANGED <<req, in_flight>>
      BY <1>1, <1>5, <2>1 DEF CheckerResult, ProcessOK
    <2>3. QED BY <2>2, OthersKeepInv
  <1>6. QED BY <1>2, <1>3, <1>4, <1>5

\* Time passes for a handler that waits, and no timer of its runs over.
LEMMA WaitingSound ==
    ASSUME NEW h, Sound(h), h.at \in Timed,
           h.at = "sent" => h.waited < ReadTimeout,
           h.at = "backoff" => h.waited < BackoffMs
    PROVE  LET g == [h EXCEPT !.elapsed = h.elapsed + 1, !.waited = h.waited + 1]
           IN  Sound(g) /\ g.at = h.at
  <1> DEFINE g == [h EXCEPT !.elapsed = h.elapsed + 1, !.waited = h.waited + 1]
  <1>1. /\ h.elapsed \in Nat /\ h.waited \in Nat /\ h.attempt \in Nat
        /\ h.failures \in Nat
    BY HandlerFields DEF Sound
  <1>2. g \in Handler
    <2>1. h.elapsed + 1 \in Nat /\ h.waited + 1 \in Nat
      BY <1>1
    <2>2. QED BY <2>1, HandlerUpdates DEF Sound
  <1>3. /\ g.at = h.at /\ g.elapsed = h.elapsed + 1 /\ g.waited = h.waited + 1
        /\ g.attempt = h.attempt /\ g.method = h.method
        /\ g.outcome = h.outcome /\ g.target = h.target
    BY DEF Sound, Handler
  <1>4. /\ h.outcome = "none" /\ h.attempt >= 1 /\ h.attempt <= MaxAttempts(h.method)
        /\ h.at = "sent" =>
             /\ h.target \in Target
             /\ h.elapsed < RequestTimeout + h.waited
        /\ h.at = "backoff" =>
             /\ h.attempt < MaxAttempts(h.method)
             /\ h.elapsed < RequestTimeout + ReadTimeout + h.waited
    BY DEF Sound, InLoop, Timed
  <1> HIDE DEF g
  <1>5. h.at = "sent" =>
          /\ g.waited <= ReadTimeout /\ g.elapsed < RequestTimeout + g.waited
          /\ g.elapsed < RequestTimeout + ReadTimeout + BackoffMs
    BY <1>1, <1>3, <1>4, TimeoutsAreNats
  <1>6. h.at = "backoff" =>
          /\ g.waited <= BackoffMs /\ g.elapsed < RequestTimeout + ReadTimeout + g.waited
          /\ g.elapsed < RequestTimeout + ReadTimeout + BackoffMs
    BY <1>1, <1>3, <1>4, TimeoutsAreNats
  <1>7. Sound(g)
    <2>1. CASE h.at = "sent"
      BY <1>2, <1>3, <1>4, <1>5, <2>1 DEF Sound, NotYet, InLoop
    <2>2. CASE h.at = "backoff"
      BY <1>2, <1>3, <1>4, <1>6, <2>2 DEF Sound, NotYet, InLoop
    <2>3. QED BY <2>1, <2>2 DEF Timed
  <1>8. QED BY <1>3, <1>7 DEF g

\* A tick.
LEMMA TickKeepsInv ==
    ASSUME Inv, Tick
    PROVE  Inv'
  <1>1. /\ DOMAIN req' = Request /\ req' = [q \in Request |-> req'[q]]
        /\ \A q \in Request : req'[q] =
             IF req[q].at \in {"sent", "backoff"}
             THEN [req[q] EXCEPT !.elapsed = req[q].elapsed + 1,
                                 !.waited = req[q].waited + 1]
             ELSE req[q]
    BY DEF Tick
  <1>2. \A q \in Request : Sound(req'[q]) /\ req'[q].at = req[q].at
    <2>1. SUFFICES ASSUME NEW q \in Request
                   PROVE  Sound(req'[q]) /\ req'[q].at = req[q].at
      OBVIOUS
    <2>2. Sound(req[q])
      BY DEF Inv
    <2>3. CASE req[q].at \in {"sent", "backoff"}
      BY <1>1, <2>2, <2>3, WaitingSound DEF Tick, TimersPending, Timed
    <2>4. CASE ~(req[q].at \in {"sent", "backoff"})
      BY <1>1, <2>2, <2>4
    <2>5. QED BY <2>3, <2>4
  <1>3. InFlightExact'
    <2>1. {q \in Request : req'[q].at \in Guarded} = {q \in Request : req[q].at \in Guarded}
      BY <1>2
    <2>2. in_flight' = Cardinality({q \in Request : req'[q].at \in Guarded})
      BY <2>1 DEF Tick, Inv, InFlightExact
    <2>3. QED BY <2>2 DEF InFlightExact
  <1>4. shutdown' \in [phase: {"running", "draining", "stopped"}, elapsed: 0..DrainTimeout]
    <2> DEFINE elapsed == IF shutdown.phase = "draining" /\ shutdown.elapsed < DrainTimeout
                          THEN shutdown.elapsed + 1 ELSE shutdown.elapsed
    <2>1. shutdown \in [phase: {"running", "draining", "stopped"}, elapsed: 0..DrainTimeout]
      BY DEF Inv, ProcessOK
    <2>2. elapsed \in 0..DrainTimeout
      BY <2>1, TimeoutsAreNats
    <2>3. shutdown' = [shutdown EXCEPT !.elapsed = elapsed]
      BY DEF Tick
    <2> HIDE DEF elapsed
    <2>4. QED BY <2>1, <2>2, <2>3
  <1>5. ProcessOK'
    BY <1>4 DEF Tick, Inv, ProcessOK
  <1>6. \A q \in Request : Sound(req[q])'
    BY <1>2
  <1>7. QED BY <1>1, <1>3, <1>5, <1>6 DEF Inv

-----------------------------------------------------------------------------
\* The specification.

\* The invariant holds initially.
LEMMA InitInv == Init => Inv
  <1> SUFFICES ASSUME Init PROVE Inv
    OBVIOUS
  <1>1. /\ DOMAIN req = Request /\ req = [r \in Request |-> req[r]]
        /\ \A r \in Request : req[r] = Idle
    BY DEF Init
  <1>2. /\ Idle.at = "idle" /\ Idle.outcome = "none" /\ Idle.attempt = 0
        /\ Idle.failures = 0 /\ Idle.elapsed = 0 /\ Idle.waited = 0
    BY DEF Idle
  <1>3. Sound(Idle)
    BY <1>2, IdleIsHandler, UntriedSound DEF NotYet, Ending
  <1>4. InFlightExact
    <2>1. {r \in Request : req[r].at \in Guarded} = {}
      BY <1>1, <1>2 DEF Guarded, InLoop
    <2>2. QED BY <2>1, FS_EmptySet DEF InFlightExact, Init
  <1>5. ProcessOK
    <2>1. request_counter \in 0..(CounterModulus - 1)
      BY GatewayAssumption DEF Init
    <2>6. draining \in BOOLEAN
      BY DEF Init
    <2>2. metrics \in [Counter -> 0..(MetricModulus - 1)]
      BY GatewayAssumption DEF Init
    <2>3. checker \in {-1, 0} \union Target
      BY DEF Init
    <2>4. shutdown \in [phase: {"running", "draining", "stopped"}, elapsed: 0..DrainTimeout]
      BY TimeoutsAreNats DEF Init
    <2>5. QED BY <2>1, <2>2, <2>3, <2>4, <2>6 DEF ProcessOK
  <1>6. QED BY <1>1, <1>3, <1>4, <1>5 DEF Inv

\* Every step keeps it.
LEMMA NextInv == Inv /\ [Next]_vars => Inv'
  <1> SUFFICES ASSUME Inv, [Next]_vars PROVE Inv'
    OBVIOUS
  <1>1. CASE Next
    <2>1. ASSUME NEW r \in Request, NEW method \in Method, Arrive(r, method) PROVE Inv'
      BY <2>1, ArriveKeepsInv
    <2>2. ASSUME NEW r \in Request, NEW answer \in Answer, Receive(r, answer) PROVE Inv'
      BY <2>2, ReceiveKeepsInv
    <2>3. ASSUME NEW r \in Request, Enter(r) \/ Gate(r) \/ Fault(r) \/ ReadBody(r)
          PROVE  Inv'
      BY <2>3, EnterKeepsInv, GateKeepsInv, FaultKeepsInv, ReadBodyKeepsInv
    <2>4. ASSUME NEW r \in Request, StartAttempt(r) \/ Filter(r) \/ Select(r)
          PROVE  Inv'
      BY <2>4, StartAttemptKeepsInv, FilterKeepsInv, SelectKeepsInv
    <2>5. ASSUME NEW r \in Request, Wake(r) \/ Leave(r)
          PROVE  Inv'
      BY <2>5, WakeKeepsInv, LeaveKeepsInv
    <2>6. CASE \/ CheckerTick \/ CtrlC \/ CtrlCUnavailable \/ DrainPoll
               \/ \E healthy \in BOOLEAN : CheckerResult(healthy)
      BY <2>6, TasksKeepInv
    <2>7. CASE Tick
      BY <2>7, TickKeepsInv
    <2>8. QED BY <1>1, <2>1, <2>2, <2>3, <2>4, <2>5, <2>6, <2>7 DEF Next
  <1>2. CASE UNCHANGED vars
    <2>1. UNCHANGED <<req, in_flight, draining, request_counter, metrics, checker, shutdown>>
      BY <1>2 DEF vars, process
    <2>2. ProcessOK'
      BY <2>1 DEF Inv, ProcessOK
    <2>3. QED BY <2>1, <2>2, OthersKeepInv
  <1>3. QED BY <1>1, <1>2

\* The inductive invariant of the request path: what the handlers' locals, the
\* guards, the counters and the drain loop agree on (main.rs:211-426,644-658).
THEOREM Invariant == Spec => []Inv
  BY InitInv, NextInv, PTL DEF Spec

\* The drain loop polls the exact number of handlers that hold a guard, for
\* any number of concurrent requests and every way they may end
\* (InFlightGuard, main.rs:55-70).
THEOREM InFlightCounted == Spec => []InFlightExact
  <1>1. Inv => InFlightExact
    BY DEF Inv
  <1>2. QED BY <1>1, Invariant, PTL

\* A method that may not be repeated is tried once, however many attempts the
\* configuration allows (should_retry_method, main.rs).
THEOREM UnsafeTriedOnce == Spec => []UnsafeSentOnce
  <1>1. Inv => UnsafeSentOnce
    <2> SUFFICES ASSUME Inv, NEW r \in Request, IdempotentOnly,
                        \/ req[r].method = "POST"
                        \/ req[r].method = "PUT" /\ ~RetryUnsafeMethods
                 PROVE  req[r].attempt <= 1
      BY DEF UnsafeSentOnce
    <2>1. ~ShouldRetryMethod(req[r].method)
      BY GatewayAssumption DEF ShouldRetryMethod
    <2>2. MaxAttempts(req[r].method) = 1
      BY <2>1 DEF MaxAttempts
    <2>3. QED BY <2>2 DEF Inv, Sound
  <1>2. QED BY <1>1, Invariant, PTL

\* The code after the retry loop is not reached (main.rs:422-425).
THEOREM LoopAlwaysReturns == Spec => []LoopReturns
  <1>1. Inv => LoopReturns
    BY DEF Inv, Sound, LoopReturns
  <1>2. QED BY <1>1, Invariant, PTL

\* However the attempts of a request go, the time it spends waiting for
\* targets and between attempts stays below request_timeout_ms plus one
\* attempt and one backoff (main.rs:336-340,364,373).
THEOREM OverrunBounded == Spec => []BoundedOverrun
  <1>1. Inv => BoundedOverrun
    BY DEF Inv, Sound, BoundedOverrun
  <1>2. QED BY <1>1, Invariant, PTL

\* A drain that ends before its deadline leaves only requests that have not
\* been counted yet (main.rs:222-226,652-655): the count it polls is exact.
THEOREM DrainIsComplete == Spec => DrainLeavesOnlyEntering
  <1> DEFINE A == /\ shutdown.phase = "draining" /\ shutdown'.phase = "stopped"
                  /\ shutdown.elapsed < DrainTimeout
                  => \A r \in Request : req[r].at \in {"idle", "enter", "done"}
  <1>1. ASSUME Inv, [Next]_vars PROVE [A]_vars
    <2> SUFFICES ASSUME Next, shutdown.phase = "draining", shutdown'.phase = "stopped",
                        shutdown.elapsed < DrainTimeout, NEW r \in Request
                 PROVE  req[r].at \in {"idle", "enter", "done"}
      BY <1>1
    <2>1. shutdown.elapsed \in Nat /\ shutdown \in [phase: {"running", "draining", "stopped"},
                         elapsed: 0..DrainTimeout]
      BY <1>1 DEF Inv, ProcessOK
    <2>2. DrainPoll
      <3>1. shutdown' # shutdown
        BY <2>1
      <3>2. ~Tick
        BY <2>1 DEF Tick
      <3>3. QED
        BY <3>1, <3>2 DEF Next, Arrive, Enter, Gate, Fault, ReadBody, StartAttempt, Filter,
           Select, Receive, Wake, Leave, CheckerTick, CheckerResult, CtrlC,
           CtrlCUnavailable, process
    <2>3. in_flight = 0
      BY <2>1, <2>2, TimeoutsAreNats DEF DrainPoll
    <2>4. {q \in Request : req[q].at \in Guarded} = {}
      <3>1. IsFiniteSet({q \in Request : req[q].at \in Guarded})
        BY FS_Subset, GatewayAssumption
      <3>2. QED BY <1>1, <2>3, <3>1, FS_EmptySet DEF Inv, InFlightExact
    <2>5. req[r].at \in Place /\ req[r].at \notin Guarded
      BY <1>1, <2>4, HandlerFields DEF Inv, Sound
    <2>6. QED BY <2>5 DEF Place, Guarded, InLoop
  <1>2. QED BY <1>1, Invariant, PTL DEF Spec, DrainLeavesOnlyEntering

-----------------------------------------------------------------------------
\* The registry inside the gateway.

RP == INSTANCE Resilience_proofs WITH Key <- Target

\* Every call on the registry is made for one of its targets, with the
\* handlers where the invariant says they are.
LEMMA RegistryStep ==
    ASSUME Inv, [Next]_vars
    PROVE  [Registry!Next]_(Registry!vars)
  <1>1. ASSUME NEW r \in Request, NEW answer \in Answer, Receive(r, answer)
        PROVE  Registry!Next
    <2>1. req[r].target \in Target
      BY <1>1 DEF Inv, Sound, Receive
    <2>2. Registry!RecordFailure(req[r].target) \/ Registry!RecordSuccess(req[r].target)
      BY <1>1 DEF Receive, SendFailed, StatusReceived
    <2>3. QED BY <2>1, <2>2 DEF Registry!Next
  <1>2. ASSUME NEW r \in Request, Filter(r)
        PROVE  Registry!Next
    BY <1>2 DEF Filter, Registry!Next
  <1>3. ASSUME NEW healthy \in BOOLEAN, CheckerResult(healthy)
        PROVE  Registry!Next
    BY <1>3 DEF CheckerResult, Registry!Next
  <1>4. CASE Tick
    BY <1>4 DEF Tick, Registry!Next
  <1>5. CASE \/ \E r \in Request, method \in Method : Arrive(r, method)
             \/ \E r \in Request : Enter(r) \/ Gate(r) \/ Fault(r) \/ ReadBody(r)
             \/ \E r \in Request : StartAttempt(r) \/ Select(r) \/ Wake(r) \/ Leave(r)
             \/ CheckerTick \/ CtrlC \/ CtrlCUnavailable \/ DrainPoll
             \/ UNCHANGED vars
    <2>1. UNCHANGED registry
      BY <1>5 DEF Arrive, Enter, Gate, Fault, ReadBody, StartAttempt, Select, Wake,
         Leave, CheckerTick, CtrlC, CtrlCUnavailable, DrainPoll, vars
    <2>2. QED BY <2>1 DEF registry, Registry!vars
  <1>6. QED BY <1>1, <1>2, <1>3, <1>4, <1>5 DEF Next

\* Whatever the handlers and the checker do, the registry they share sees its
\* own operations on its own targets (main.rs:193,364-392,448-472): what is
\* proved about the registry with arbitrary callers holds in the gateway.
THEOREM RegistryImplemented == Spec => RegistrySpec
  <1>1. Init => Registry!Init
    BY DEF Init
  <1>2. QED BY <1>1, RegistryStep, Invariant, PTL DEF Spec, RegistrySpec, Registry!Spec

\* The two instances of the registry's module are the same module.
LEMMA SameRegistry ==
    /\ Registry!TypeOK <=> RP!TypeOK
    /\ Registry!Init => RP!Init
    /\ [Registry!Next]_(Registry!vars) => [RP!Next]_(RP!vars)
  <1>1. Registry!TypeOK <=> RP!TypeOK
    BY DEF Registry!TypeOK, RP!TypeOK, Registry!Runtime, RP!Runtime, Registry!Circuit, RP!Circuit
  <1>2. Registry!Init => RP!Init
    BY DEF Registry!Init, RP!Init, Registry!DefaultRuntime, RP!DefaultRuntime
  <1>3. \A s : RP!Admits(s) = Registry!Admits(s)
    BY DEF RP!Admits, Registry!Admits
  <1>4. \A s : RP!AfterIsAvailable(s) = Registry!AfterIsAvailable(s)
    BY <1>3 DEF RP!AfterIsAvailable, Registry!AfterIsAvailable
  <1>5. \A s : RP!AfterSuccess(s) = Registry!AfterSuccess(s)
    BY DEF RP!AfterSuccess, Registry!AfterSuccess, RP!SaturatingInc, Registry!SaturatingInc
  <1>6. \A s : RP!AfterFailure(s) = Registry!AfterFailure(s)
    BY DEF RP!AfterFailure, Registry!AfterFailure, RP!SaturatingInc, Registry!SaturatingInc
  <1>7. \A s : RP!AfterTick(s) = Registry!AfterTick(s)
    BY DEF RP!AfterTick, Registry!AfterTick
  <1>8. \A s, b : RP!AfterSetActiveHealth(s, b) = Registry!AfterSetActiveHealth(s, b)
    BY DEF RP!AfterSetActiveHealth, Registry!AfterSetActiveHealth
  <1>9. \A s, g : RP!GrantsAfter(s, g) = Registry!GrantsAfter(s, g)
    BY <1>3 DEF RP!GrantsAfter, Registry!GrantsAfter
  <1>10. [Registry!Next]_(Registry!vars) => [RP!Next]_(RP!vars)
    BY <1>4, <1>5, <1>6, <1>7, <1>8, <1>9
    DEF Registry!Next, RP!Next, Registry!vars, RP!vars, Registry!IsAvailable, RP!IsAvailable,
        Registry!SetActiveHealth, RP!SetActiveHealth, Registry!RecordSuccess, RP!RecordSuccess,
        Registry!RecordFailure, RP!RecordFailure, Registry!Tick, RP!Tick
  <1>11. QED BY <1>1, <1>2, <1>10

\* The registry of the gateway behaves as the registry of Resilience_proofs.
LEMMA RegistryIsProved == Spec => RP!Spec
  <1>1. Init => RP!Init
    BY SameRegistry DEF Init
  <1>2. ASSUME Inv, [Next]_vars PROVE [RP!Next]_(RP!vars)
    BY <1>2, RegistryStep, SameRegistry
  <1>3. QED BY <1>1, <1>2, Invariant, PTL DEF Spec, RP!Spec

\* Type correctness of the whole gateway: in_flight never goes below zero, and
\* the registry's counters stay in their width (main.rs:45-70, resilience.rs).
THEOREM TypeCorrect == Spec => []TypeOK
  <1>1. RP!Spec => []RP!TypeOK
    BY RP!TypeCorrect, ThresholdsAreU32
  <1>2. Inv /\ Registry!TypeOK => TypeOK
    <2> SUFFICES ASSUME Inv, Registry!TypeOK PROVE TypeOK
      OBVIOUS
    <2>1. req \in [Request -> Handler]
      BY DEF Inv, Sound
    <2>2. in_flight \in 0..Cardinality(Request)
      <3> DEFINE holders == {r \in Request : req[r].at \in Guarded}
      <3>1. /\ Cardinality(holders) \in Nat /\ Cardinality(Request) \in Nat
            /\ Cardinality(holders) <= Cardinality(Request)
        BY FS_Subset, FS_CardinalityType, GatewayAssumption
      <3>2. in_flight = Cardinality(holders)
        BY DEF Inv, InFlightExact
      <3>3. QED BY <3>1, <3>2
    <2>3. \A r \in Request : req[r].at = "sent" => req[r].target \in Target
      BY DEF Inv, Sound
    <2>4. QED BY <2>1, <2>2, <2>3 DEF TypeOK, Inv, ProcessOK
  <1>3. QED BY <1>1, <1>2, SameRegistry, RegistryIsProved, Invariant, PTL

\* Each target's circuit behaves as a circuit breaker under the traffic of
\* the gateway: retries, late answers, clients that leave and the checker
\* (main.rs:157-198,342-392, resilience.rs).
THEOREM CircuitsAreBreakers == Spec => RP!BreakerSpec
  <1>1. RP!Spec => RP!BreakerSpec
    BY RP!BreakerImplemented, ThresholdsAreU32
  <1>2. QED BY <1>1, RegistryIsProved, PTL
-----------------------------------------------------------------------------
\* Verdicts on the targets.

\* What the verdicts left is not touched by the registry's other operations.
LEMMA ViewKept ==
    ASSUME NEW s \in Registry!Runtime, NEW b
    PROVE  /\ PassiveView(Registry!AfterIsAvailable(s)) = PassiveView(s)
           /\ PassiveView(Registry!AfterSetActiveHealth(s, b)) = PassiveView(s)
           /\ PassiveView(Registry!AfterTick(s)) = PassiveView(s)
  <1>1. PassiveView(Registry!AfterIsAvailable(s)) = PassiveView(s)
    <2> DEFINE n == s.remaining_attempts - 1
    <2>1. Registry!AfterIsAvailable(s) \in
            {s, [s EXCEPT !.circuit = "HalfOpen", !.elapsed = 0,
                          !.remaining_attempts = HalfOpenMaxRequests],
             [s EXCEPT !.remaining_attempts = n]}
      BY DEF Registry!AfterIsAvailable
    <2> HIDE DEF n
    <2>2. QED BY <2>1 DEF PassiveView, Registry!Runtime
  <1>2. PassiveView(Registry!AfterSetActiveHealth(s, b)) = PassiveView(s)
    BY DEF PassiveView, Registry!AfterSetActiveHealth, Registry!Runtime
  <1>3. PassiveView(Registry!AfterTick(s)) = PassiveView(s)
    <2> DEFINE n == s.elapsed + 1
    <2>1. Registry!AfterTick(s) \in {s, [s EXCEPT !.elapsed = n]}
      BY DEF Registry!AfterTick
    <2> HIDE DEF n
    <2>2. QED BY <2>1 DEF PassiveView, Registry!Runtime
  <1>4. QED BY <1>1, <1>2, <1>3

\* The verdicts the registry records are the ones of TargetRuntime.
LEMMA SameVerdicts ==
    ASSUME NEW s
    PROVE  /\ Registry!AfterSuccess(s) = AfterSuccess(s)
           /\ Registry!AfterFailure(s) = AfterFailure(s)
  BY DEF Registry!AfterSuccess, AfterSuccess, Registry!AfterFailure, AfterFailure,
     Registry!SaturatingInc, SaturatingInc

\* What a step has to do to the record of target t.
Heard(t) ==
    LET ending == {r \in Request : /\ req[r].at = "sent"
                                   /\ req[r].target = t
                                   /\ req'[r].at # "sent"}
    IN  /\ \A r \in ending :
             /\ \/ req'[r].at = "backoff"
                \/ req'[r].outcome = "send failed"
                => targets'[t] = AfterFailure(targets[t])
             /\ req'[r].outcome \in {"answered", "blocked"}
                => targets'[t] \in {AfterSuccess(targets[t]),
                                   AfterFailure(targets[t])}
             /\ req'[r].outcome = "cancelled"
                => targets'[t] = targets[t]
        /\ ending = {}
           => PassiveView(targets'[t]) = PassiveView(targets[t])

\* A handler that returns is marked with its outcome or, if its id is to be
\* used again, with none.
LEMMA ReturnedAs ==
    ASSUME NEW r, NEW outcome
    PROVE  /\ Returned(r, outcome).at = "done"
           /\ Returned(r, outcome).outcome \in {outcome, "none"}
  BY DEF Returned, Idle

\* A step that ends no attempt and leaves no trace of one.
LEMMA NothingHeard ==
    ASSUME \A r \in Request : req[r].at = "sent" => req'[r].at = "sent",
           NEW t \in Target, PassiveView(targets'[t]) = PassiveView(targets[t])
    PROVE  Heard(t)
  BY DEF Heard

\* A step that ends the attempt of r.
LEMMA AttemptHeard ==
    ASSUME Inv, Registry!TypeOK, NEW r \in Request, req[r].at = "sent",
           NEW h, req' = [req EXCEPT ![r] = h], h.at # "sent",
           NEW s, targets' = [targets EXCEPT ![req[r].target] = s],
           LET u == targets[req[r].target]
           IN  /\ h.at = "backoff" \/ h.outcome = "send failed" => s = AfterFailure(u)
               /\ h.outcome \in {"answered", "blocked"} =>
                    s \in {AfterSuccess(u), AfterFailure(u)}
               /\ h.outcome = "cancelled" => s = u,
           NEW t \in Target
    PROVE  Heard(t)
  <1>1. /\ DOMAIN req = Request /\ req'[r] = h
        /\ \A q \in Request \ {r} : req'[q] = req[q]
    BY DEF Inv
  <1>2. DOMAIN targets = Target
    BY DEF Registry!TypeOK
  <1>3. CASE t = req[r].target
    <2>1. targets'[t] = s
      BY <1>2, <1>3
    <2>2. QED BY <1>1, <1>3, <2>1 DEF Heard
  <1>4. CASE t # req[r].target
    <2>1. targets'[t] = targets[t]
      BY <1>2, <1>4
    <2>2. QED BY <1>1, <1>4, <2>1 DEF Heard
  <1>5. QED BY <1>3, <1>4

\* send().await returned.
LEMMA ReceiveHeard ==
    ASSUME Inv, Registry!TypeOK, NEW r \in Request, NEW answer, Receive(r, answer),
           NEW t \in Target
    PROVE  Heard(t)
  <1> DEFINE u == targets[req[r].target]
  <1>1. /\ Sound(req[r]) /\ req[r].at = "sent" /\ req[r].outcome = "none"
        /\ req[r] \in Handler
    BY DEF Inv, Sound, Receive
  <1>2. /\ Registry!RecordFailure(req[r].target) =>
             targets' = [targets EXCEPT ![req[r].target] = AfterFailure(u)]
        /\ Registry!RecordSuccess(req[r].target) =>
             targets' = [targets EXCEPT ![req[r].target] = AfterSuccess(u)]
    BY SameVerdicts DEF Registry!RecordFailure, Registry!RecordSuccess
  <1> HIDE DEF u
  <1>3. ASSUME NEW n, Registry!RecordFailure(req[r].target), SleepBeforeRetry(r, n)
        PROVE  Heard(t)
    <2> DEFINE h == [req[r] EXCEPT !.at = "backoff", !.target = 0, !.waited = 0,
                                   !.failures = n]
    <2>1. req' = [req EXCEPT ![r] = h]
      BY <1>3 DEF SleepBeforeRetry
    <2>2. h.at = "backoff" /\ h.outcome = "none"
      BY <1>1 DEF Handler
    <2> HIDE DEF h
    <2>3. QED BY <1>1, <1>2, <1>3, <2>1, <2>2, AttemptHeard DEF u
  <1>4. ASSUME NEW n, Registry!RecordFailure(req[r].target), GiveUp(r, n)
        PROVE  Heard(t)
    <2> DEFINE g == Returned(r, "send failed")
               h == [g EXCEPT !.failures = n]
    <2>1. req' = [req EXCEPT ![r] = h]
      BY <1>4 DEF GiveUp
    <2>2. h.at = "done" /\ h.outcome \in {"send failed", "none"}
      <3>1. CASE RecycleIds
        BY <3>1 DEF Returned, Idle
      <3>2. CASE ~RecycleIds
        BY <3>2 DEF Returned, Idle
      <3>3. QED BY <3>1, <3>2
    <2> HIDE DEF h
    <2>3. QED BY <1>1, <1>2, <1>4, <2>1, <2>2, AttemptHeard DEF u
  <1>5. ASSUME NEW outcome \in {"answered", "blocked"}, Return(r, outcome, {}),
               \/ Registry!RecordFailure(req[r].target)
               \/ Registry!RecordSuccess(req[r].target)
        PROVE  Heard(t)
    <2> DEFINE h == Returned(r, outcome)
    <2>1. req' = [req EXCEPT ![r] = h]
      BY <1>5 DEF Return
    <2>2. h.at = "done" /\ h.outcome \in {outcome, "none"}
      BY ReturnedAs
    <2> HIDE DEF h
    <2>3. CASE Registry!RecordFailure(req[r].target)
      BY <1>1, <1>2, <1>5, <2>1, <2>2, <2>3, AttemptHeard DEF u
    <2>4. CASE Registry!RecordSuccess(req[r].target)
      BY <1>1, <1>2, <1>5, <2>1, <2>2, <2>4, AttemptHeard DEF u
    <2>5. QED BY <1>5, <2>3, <2>4
  <1>6. QED BY <1>3, <1>4, <1>5 DEF Receive, SendFailed, StatusReceived

\* A client that leaves while its attempt is out.
LEMMA LeaveHeard ==
    ASSUME Inv, Registry!TypeOK, NEW r \in Request, Leave(r), NEW t \in Target
    PROVE  Heard(t)
  <1> DEFINE h == Returned(r, "cancelled")
  <1>1. req' = [req EXCEPT ![r] = h] /\ UNCHANGED targets
    BY DEF Leave, Return, registry
  <1>2. h.at = "done" /\ h.outcome \in {"cancelled", "none"}
    BY ReturnedAs
  <1> HIDE DEF h
  <1>3. DOMAIN req = Request /\ DOMAIN targets = Target
        /\ targets = [k \in Target |-> targets[k]]
    BY DEF Inv, Registry!TypeOK
  <1>4. CASE req[r].at = "sent"
    <2>1. targets' = [targets EXCEPT ![req[r].target] = targets[req[r].target]]
      BY <1>1, <1>3
    <2>2. QED BY <1>1, <1>2, <1>4, <2>1, AttemptHeard
  <1>5. CASE req[r].at # "sent"
    <2>1. \A q \in Request : req[q].at = "sent" => req'[q].at = "sent"
      BY <1>1, <1>3, <1>5
    <2>2. QED BY <1>1, <2>1, NothingHeard
  <1>6. QED BY <1>4, <1>5

\* A step of a handler that has no attempt out.
LEMMA ElsewhereSentStays ==
    ASSUME Inv, NEW r \in Request,
           \/ \E method \in Method : Arrive(r, method)
           \/ Enter(r) \/ Gate(r) \/ Fault(r) \/ ReadBody(r)
           \/ StartAttempt(r) \/ Filter(r) \/ Select(r) \/ Wake(r)
    PROVE  \A q \in Request : req[q].at = "sent" => req'[q].at = "sent"
  <1>1. req[r].at # "sent"
    BY DEF Arrive, Enter, Gate, Fault, ReadBody, StartAttempt, Filter, Select, Wake
  <1>2. DOMAIN req = Request
    BY DEF Inv
  <1>3. \A q \in Request \ {r} : req'[q] = req[q]
    <2>1. CASE \E method \in Method : Arrive(r, method)
      BY <1>2, <2>1 DEF Arrive
    <2>2. CASE Enter(r)
      BY <1>2, <2>2 DEF Enter
    <2>3. CASE Gate(r)
      BY <1>2, <2>3 DEF Gate, Return
    <2>4. CASE Fault(r)
      BY <1>2, <2>4 DEF Fault, Return
    <2>5. CASE ReadBody(r)
      BY <1>2, <2>5 DEF ReadBody, Return
    <2>6. CASE StartAttempt(r)
      BY <1>2, <2>6 DEF StartAttempt, Return
    <2>7. CASE Filter(r)
      BY <1>2, <2>7 DEF Filter
    <2>8. CASE Select(r)
      BY <1>2, <2>8 DEF Select, Return
    <2>9. CASE Wake(r)
      BY <1>2, <2>9 DEF Wake
    <2>10. QED BY <2>1, <2>2, <2>3, <2>4, <2>5, <2>6, <2>7, <2>8, <2>9
  <1>4. QED BY <1>1, <1>3

\* Every step does to each record what Heard says.
LEMMA NextHeard ==
    ASSUME Inv, Registry!TypeOK, Next, NEW t \in Target
    PROVE  Heard(t)
  <1>1. /\ targets[t] \in Registry!Runtime /\ DOMAIN targets = Target
        /\ targets = [k \in Target |-> targets[k]]
    BY DEF Registry!TypeOK
  <1>2. ASSUME NEW r \in Request, NEW answer \in Answer, Receive(r, answer)
        PROVE  Heard(t)
    BY <1>2, ReceiveHeard
  <1>3. ASSUME NEW r \in Request, Leave(r)
        PROVE  Heard(t)
    BY <1>3, LeaveHeard
  <1>4. ASSUME NEW r \in Request, Filter(r)
        PROVE  Heard(t)
    <2>1. targets'[t] \in {targets[t], Registry!AfterIsAvailable(targets[t])}
      BY <1>1, <1>4 DEF Filter, Registry!IsAvailable
    <2>2. QED BY <1>1, <1>4, <2>1, ViewKept, ElsewhereSentStays, NothingHeard
  <1>5. ASSUME NEW r \in Request,
               \/ \E method \in Method : Arrive(r, method)
               \/ Enter(r) \/ Gate(r) \/ Fault(r) \/ ReadBody(r)
               \/ StartAttempt(r) \/ Select(r) \/ Wake(r)
        PROVE  Heard(t)
    <2>1. UNCHANGED targets
      BY <1>5 DEF Arrive, Enter, Gate, Fault, ReadBody, StartAttempt, Select, Wake, registry
    <2>2. QED BY <1>5, <2>1, ElsewhereSentStays, NothingHeard
  <1>6. ASSUME NEW healthy \in BOOLEAN, CheckerResult(healthy)
        PROVE  Heard(t)
    <2>1. targets'[t] \in {targets[t], Registry!AfterSetActiveHealth(targets[t], healthy)}
      BY <1>1, <1>6 DEF CheckerResult, Registry!SetActiveHealth
    <2>2. UNCHANGED req
      BY <1>6 DEF CheckerResult
    <2>3. QED BY <1>1, <2>1, <2>2, ViewKept, NothingHeard
  <1>7. CASE CheckerTick \/ CtrlC \/ CtrlCUnavailable \/ DrainPoll
    <2>1. UNCHANGED targets /\ UNCHANGED req
      BY <1>7 DEF CheckerTick, CtrlC, CtrlCUnavailable, DrainPoll, registry
    <2>2. QED BY <2>1, NothingHeard
  <1>8. CASE Tick
    <2>1. targets'[t] = Registry!AfterTick(targets[t])
      BY <1>8 DEF Tick, Registry!Tick
    <2>2. \A q \in Request : req[q] \in Handler
      BY DEF Inv, Sound
    <2>3. \A q \in Request : req'[q].at = req[q].at
      BY <1>8, <2>2 DEF Tick, Handler
    <2>4. QED BY <1>1, <2>1, <2>3, ViewKept, NothingHeard
  <1>9. QED BY <1>2, <1>3, <1>4, <1>5, <1>6, <1>7, <1>8 DEF Next

\* Each attempt is answered for exactly once, in the record of the target it
\* was sent to: one failure when it failed or is repeated, one success or one
\* failure when its answer is passed on, nothing when the client left; and no
\* other step of a handler, of the checker or of the clock changes what the
\* verdicts on a target amount to (main.rs:364-392).
THEOREM VerdictsCounted == Spec => OneVerdictPerAttempt
  <1> DEFINE A == \A t \in Target :
         LET ending == {r \in Request : /\ req[r].at = "sent"
                                       /\ req[r].target = t
                                       /\ req'[r].at # "sent"}
         IN  /\ \A r \in ending :
                  /\ \/ req'[r].at = "backoff"
                     \/ req'[r].outcome = "send failed"
                     => targets'[t] = AfterFailure(targets[t])
                  /\ req'[r].outcome \in {"answered", "blocked"}
                     => targets'[t] \in {AfterSuccess(targets[t]),
                                        AfterFailure(targets[t])}
                  /\ req'[r].outcome = "cancelled"
                     => targets'[t] = targets[t]
             /\ ending = {}
                => PassiveView(targets'[t]) = PassiveView(targets[t])
  <1>1. TypeOK => Registry!TypeOK
    BY DEF TypeOK
  <1>2. ASSUME Inv, Registry!TypeOK, [Next]_vars PROVE [A]_vars
    <2>1. Next => \A t \in Target : Heard(t)
      BY <1>2, NextHeard
    <2>2. Next => A
      BY <2>1 DEF Heard
    <2>3. QED BY <1>2, <2>2
  <1>3. QED BY <1>1, <1>2, Invariant, TypeCorrect, PTL DEF Spec, OneVerdictPerAttempt
-----------------------------------------------------------------------------
\* The counters, while every id stands for one request.

\* The requests that have ended in one of these ways.
Ended(outcomes) == {r \in Request : req[r].outcome \in outcomes}

\* The sends that have failed, as pairs of a request and a number.
FailedSends == UNION {{r} \X (1..req[r].failures) : r \in Request}

\* The counters are explained, and there are finitely many failures to count.
CountInv == CountersExplained /\ IsFiniteSet(FailedSends)

\* The counters, one by one.
LEMMA CountInvParts ==
    CountInv <=>
      /\ IsFiniteSet(FailedSends)
      /\ metrics["requests"] =
           Cardinality({r \in Request : req[r].at # "idle"}) % MetricModulus
      /\ metrics["errors"] = Cardinality(Ended({"bad body", "no target"})) % MetricModulus
      /\ metrics["unauthorized"] = Cardinality(Ended({"denied"})) % MetricModulus
      /\ metrics["rate_limited"] = Cardinality(Ended({"limited"})) % MetricModulus
      /\ metrics["upstream_failures"] =
           (Cardinality(FailedSends) + Cardinality(Ended({"timed out"}))) % MetricModulus
  BY DEF CountInv, CountersExplained, Ended, FailedSends

\* Counting goes on behind the place where a counter wraps.
LEMMA CountOne ==
    ASSUME NEW n \in Nat
    PROVE  ((n % MetricModulus) + 1) % MetricModulus = (n + 1) % MetricModulus
  <1> DEFINE M == MetricModulus
             m == n % M
  <1>1. M \in Nat \ {0}
    BY GatewayAssumption
  <1> HIDE DEF M
  <1>2. \A a \in Nat, b \in Nat \ {0} :
          /\ a % b \in Nat /\ a % b < b
          /\ a < b => a % b = a
    OBVIOUS
  <1>3. m \in Nat /\ m < M
    BY <1>1, <1>2
  <1>4. CASE M = 1
    <2>1. (m + 1) % M \in Nat /\ (m + 1) % M < 1 /\ (n + 1) % M \in Nat /\ (n + 1) % M < 1
      <3>1. m + 1 \in Nat /\ n + 1 \in Nat
        BY <1>3
      <3>2. QED BY <1>1, <1>2, <1>4, <3>1
    <2>2. QED BY <2>1 DEF M
  <1>5. CASE M # 1
    <2> DEFINE s == n + 1
    <2>1. s \in n..(n + M - 1) /\ s - n = 1
      BY <1>1, <1>5
    <2> HIDE DEF s
    <2>2. s % M = LET x == s - n + (n % M) IN IF x < M THEN x ELSE x - M
      BY <1>1, <2>1, RowModulo
    <2> HIDE DEF m
    <2>3. s % M = LET x == 1 + m IN IF x < M THEN x ELSE x - M
      BY <2>1, <2>2 DEF m
    <2>4. s % M = IF m + 1 < M THEN m + 1 ELSE m + 1 - M
      BY <1>1, <1>3, <2>3
    <2>5. (n + 1) % M = IF m + 1 < M THEN m + 1 ELSE m + 1 - M
      BY <2>4 DEF s
    <2>6. (m + 1) % M = IF m + 1 < M THEN m + 1 ELSE 0
      <3>1. CASE m + 1 < M
        BY <1>1, <1>2, <1>3, <3>1
      <3>2. CASE ~(m + 1 < M)
        <4>1. m + 1 = M
          BY <1>1, <1>3, <3>2
        <4>2. M % M = 0
          BY <1>1
        <4>3. QED BY <3>2, <4>1, <4>2
      <3>3. QED BY <3>1, <3>2
    <2>7. m + 1 < M \/ m + 1 - M = 0
      BY <1>1, <1>3
    <2>8. (m + 1) % M = (n + 1) % M
      BY <2>5, <2>6, <2>7
    <2>9. QED BY <2>8 DEF M, m
  <1>6. QED BY <1>4, <1>5

\* A set of requests that one more request joins.
LEMMA OneMoreRequest ==
    ASSUME NEW S \in SUBSET Request, NEW r \in Request \ S
    PROVE  /\ Cardinality(S) \in Nat
           /\ Cardinality(S \union {r}) = Cardinality(S) + 1
  <1>1. IsFiniteSet(S)
    BY GatewayAssumption, FS_Subset
  <1>2. QED BY <1>1, FS_AddElement, FS_CardinalityType

\* The failed sends after a step: as many as before, or one more.
LEMMA FailuresStep ==
    ASSUME Inv, IsFiniteSet(FailedSends), NEW r \in Request,
           \A q \in Request \ {r} : req'[q].failures = req[q].failures,
           NEW b \in {0, 1}, req'[r].failures = req[r].failures + b
    PROVE  /\ IsFiniteSet(FailedSends')
           /\ Cardinality(FailedSends) \in Nat
           /\ Cardinality(FailedSends') = Cardinality(FailedSends) + b
  <1> DEFINE n == req[r].failures
             p == <<r, n + 1>>
  <1>1. \A q \in Request : req[q].failures \in Nat
    BY HandlerFields DEF Inv, Sound
  <1>2. Cardinality(FailedSends) \in Nat
    BY FS_CardinalityType
  <1>3. CASE b = 0
    <2>1. \A q \in Request : req'[q].failures = req[q].failures
      BY <1>1, <1>3
    <2>2. FailedSends' = FailedSends
      BY <2>1 DEF FailedSends
    <2>3. QED BY <1>2, <1>3, <2>2
  <1>4. CASE b = 1
    <2>1. n \in Nat /\ req'[r].failures = n + 1
      BY <1>1, <1>4
    <2>2. 1..(n + 1) = (1..n) \union {n + 1}
      BY <2>1
    <2>3. FailedSends' = FailedSends \union {p}
      <3>1. \A x : x \in FailedSends <=>
                     \E q \in Request : \E k \in 1..req[q].failures : x = <<q, k>>
        BY DEF FailedSends
      <3>2. \A x : x \in FailedSends' <=>
                     \E q \in Request : \E k \in 1..req'[q].failures : x = <<q, k>>
        BY DEF FailedSends
      <3>3. n + 1 \in 1..(n + 1)
        BY <2>1
      <3> HIDE DEF n
      <3>4. ASSUME NEW x \in FailedSends' PROVE x \in FailedSends \union {p}
        <4>1. PICK q \in Request : \E k \in 1..req'[q].failures : x = <<q, k>>
          BY <3>2, <3>4
        <4>2. PICK k \in 1..req'[q].failures : x = <<q, k>>
          BY <4>1
        <4>3. CASE q = r
          BY <2>1, <2>2, <3>1, <4>2, <4>3 DEF n
        <4>4. CASE q # r
          BY <3>1, <4>2, <4>4
        <4>5. QED BY <4>3, <4>4
      <3>5. ASSUME NEW x \in FailedSends PROVE x \in FailedSends'
        <4>1. PICK q \in Request : \E k \in 1..req[q].failures : x = <<q, k>>
          BY <3>1, <3>5
        <4>2. PICK k \in 1..req[q].failures : x = <<q, k>>
          BY <4>1
        <4>3. k \in 1..req'[q].failures
          BY <2>1, <2>2, <4>2 DEF n
        <4>4. QED BY <3>2, <4>2, <4>3
      <3>6. p \in FailedSends'
        BY <2>1, <3>2, <3>3
      <3>7. QED BY <3>4, <3>5, <3>6
    <2>4. p \notin FailedSends
      <3>1. SUFFICES ASSUME p \in FailedSends PROVE FALSE
        OBVIOUS
      <3>2. PICK q \in Request : \E k \in 1..req[q].failures : p = <<q, k>>
        BY <3>1 DEF FailedSends
      <3>3. n + 1 \in 1..req[r].failures
        BY <3>2
      <3>4. QED BY <2>1, <3>3
    <2> HIDE DEF p
    <2>5. QED BY <1>2, <1>4, <2>3, <2>4, FS_AddElement
  <1>5. QED BY <1>3, <1>4

\* The counters cs are the ones a handler owes that ends with this outcome, or
\* goes on with none, after b failed sends.
CountsAs(cs, outcome, b) ==
    /\ "requests" \notin cs
    /\ "errors" \in cs <=> outcome \in {"bad body", "no target"}
    /\ "unauthorized" \in cs <=> outcome \in {"denied"}
    /\ "rate_limited" \in cs <=> outcome \in {"limited"}
    /\ "upstream_failures" \in cs <=> outcome \in {"timed out"} \/ b = 1
    /\ ~(outcome \in {"timed out"} /\ b = 1)

\* A step of a handler that is neither its first nor behind its last keeps
\* the counters right if it counts what it has met.
LEMMA CountersFollow ==
    ASSUME Inv, CountInv,
           NEW r \in Request, NEW h, req' = [req EXCEPT ![r] = h],
           req[r].at # "idle", req[r].at # "done", h.at # "idle",
           NEW b \in {0, 1}, h.failures = req[r].failures + b,
           NEW cs, metrics' = Counted(cs), CountsAs(cs, h.outcome, b)
    PROVE  CountInv'
  <1>1. req[r].outcome = "none" /\ DOMAIN req = Request
    BY DEF Inv, Sound
  <1>2. req'[r] = h /\ \A q \in Request \ {r} : req'[q] = req[q]
    BY <1>1
  <1>3. \A c \in Counter : metrics'[c] = IF c \in cs THEN (metrics[c] + 1) % MetricModulus
                                                    ELSE metrics[c]
    BY DEF Counted
  <1>4. /\ "requests" \in Counter /\ "errors" \in Counter
        /\ "unauthorized" \in Counter /\ "rate_limited" \in Counter
        /\ "upstream_failures" \in Counter
    BY DEF Counter
  <1>5. metrics'["requests"] = Cardinality({q \in Request : req'[q].at # "idle"}) % MetricModulus
    <2>1. {q \in Request : req'[q].at # "idle"} = {q \in Request : req[q].at # "idle"}
      BY <1>2
    <2>2. metrics'["requests"] = metrics["requests"]
      BY <1>3, <1>4 DEF CountsAs
    <2>3. metrics["requests"] = Cardinality({q \in Request : req[q].at # "idle"}) % MetricModulus
      BY CountInvParts
    <2>4. QED BY <2>1, <2>2, <2>3
  <1>6. ASSUME NEW os, ~("none" \in os)
        PROVE  /\ Cardinality(Ended(os)) \in Nat
               /\ Cardinality(Ended(os)') = IF h.outcome \in os
                                            THEN Cardinality(Ended(os)) + 1
                                            ELSE Cardinality(Ended(os))
    <2> DEFINE S == {q \in Request : req[q].outcome \in os}
               T == {q \in Request : req'[q].outcome \in os}
    <2>1. T = IF h.outcome \in os THEN S \union {r} ELSE S
      BY <1>1, <1>2, <1>6
    <2>2. S \in SUBSET Request /\ r \in Request \ S
      BY <1>1, <1>6
    <2>3. Ended(os) = S /\ Ended(os)' = T
      BY DEF Ended
    <2> HIDE DEF S, T
    <2>4. QED BY <2>1, <2>2, <2>3, OneMoreRequest
  <1>7. ASSUME NEW c \in Counter, NEW os, ~("none" \in os), c \in cs <=> h.outcome \in os,
               metrics[c] = Cardinality(Ended(os)) % MetricModulus
        PROVE  metrics'[c] = Cardinality(Ended(os)') % MetricModulus
    BY <1>3, <1>6, <1>7, CountOne
  <1>8. /\ metrics["errors"] = Cardinality(Ended({"bad body", "no target"})) % MetricModulus
        /\ metrics["unauthorized"] = Cardinality(Ended({"denied"})) % MetricModulus
        /\ metrics["rate_limited"] = Cardinality(Ended({"limited"})) % MetricModulus
    BY CountInvParts
  <1>9. /\ metrics'["errors"] =
             Cardinality(Ended({"bad body", "no target"})') % MetricModulus
        /\ metrics'["unauthorized"] = Cardinality(Ended({"denied"})') % MetricModulus
        /\ metrics'["rate_limited"] = Cardinality(Ended({"limited"})') % MetricModulus
    BY <1>4, <1>7, <1>8 DEF CountsAs
  <1>10. /\ IsFiniteSet(FailedSends')
         /\ Cardinality(FailedSends) \in Nat
         /\ Cardinality(FailedSends') = Cardinality(FailedSends) + b
    BY <1>2, FailuresStep DEF CountInv
  <1>11. metrics'["upstream_failures"] =
           (Cardinality(FailedSends') + Cardinality(Ended({"timed out"})')) % MetricModulus
    <2> DEFINE x == Cardinality(FailedSends)
               y == Cardinality(Ended({"timed out"}))
               x1 == Cardinality(FailedSends')
               y1 == Cardinality(Ended({"timed out"})')
               late == h.outcome \in {"timed out"}
               hit == "upstream_failures" \in cs
    <2>1. metrics["upstream_failures"] = (x + y) % MetricModulus
      BY CountInvParts
    <2>2. x \in Nat /\ x1 = x + b
      BY <1>10
    <2>3. y \in Nat /\ (late => y1 = y + 1) /\ (~late => y1 = y)
      BY <1>6
    <2>4. (hit <=> late \/ b = 1) /\ ~(late /\ b = 1)
      BY DEF CountsAs
    <2> HIDE DEF x, y, x1, y1, late
    <2>5. x + y \in Nat
      BY <2>2, <2>3
    <2>6. hit => x1 + y1 = (x + y) + 1
      BY <2>2, <2>3, <2>4
    <2>7. ~hit => x1 + y1 = x + y
      BY <2>2, <2>3, <2>4
    <2>8. metrics'["upstream_failures"] = (x1 + y1) % MetricModulus
      <3>1. CASE hit
        <4>1. metrics'["upstream_failures"] = (metrics["upstream_failures"] + 1) % MetricModulus
          BY <1>3, <1>4, <3>1
        <4>2. QED BY <2>1, <2>5, <2>6, <3>1, <4>1, CountOne
      <3>2. CASE ~hit
        <4>1. metrics'["upstream_failures"] = metrics["upstream_failures"]
          BY <1>3, <1>4, <3>2
        <4>2. QED BY <2>1, <2>7, <3>2, <4>1
      <3>3. QED BY <3>1, <3>2
    <2>9. QED BY <2>8 DEF x1, y1
  <1>12. CountInv'
    BY <1>5, <1>9, <1>10, <1>11 DEF CountInv, CountersExplained, Ended, FailedSends
  <1>13. QED BY <1>12

\* A step that leaves places, outcomes, failures and counters alone.
LEMMA CountersStay ==
    ASSUME CountInv, UNCHANGED metrics,
           \A q \in Request : /\ req'[q].at = req[q].at
                              /\ req'[q].outcome = req[q].outcome
                              /\ req'[q].failures = req[q].failures
    PROVE  CountInv'
  <1>1. /\ {q \in Request : req'[q].at # "idle"} = {q \in Request : req[q].at # "idle"}
        /\ \A os : {q \in Request : req'[q].outcome \in os} =
                   {q \in Request : req[q].outcome \in os}
        /\ FailedSends' = FailedSends
    BY DEF FailedSends
  <1>2. QED BY <1>1 DEF CountInv, CountersExplained, FailedSends
\* Counting nothing changes nothing.
LEMMA CountNothing ==
    ASSUME metrics \in [Counter -> 0..(MetricModulus - 1)]
    PROVE  Counted({}) = metrics
  BY DEF Counted

\* The place, the outcome and the failures of a handler that has returned.
LEMMA ReturnsWith ==
    ASSUME ~RecycleIds, NEW r, NEW outcome, NEW cs, Return(r, outcome, cs)
    PROVE  \E h : /\ req' = [req EXCEPT ![r] = h] /\ metrics' = Counted(cs)
                  /\ h.at = "done" /\ h.outcome = outcome /\ h.failures = req[r].failures
  <1> DEFINE g == Returned(r, outcome)
  <1>1. g.at = "done" /\ g.outcome = outcome /\ g.failures = req[r].failures
    BY DEF Returned, Idle
  <1>2. req' = [req EXCEPT ![r] = g] /\ metrics' = Counted(cs)
    BY DEF Return
  <1> HIDE DEF g
  <1>3. QED BY <1>1, <1>2

\* A handler that returns has counted the outcome it ends with...
LEMMA ReturnCounted ==
    ASSUME Inv, CountInv, ~RecycleIds,
           NEW r \in Request, req[r].at # "idle", req[r].at # "done",
           NEW cs, NEW outcome, Return(r, outcome, cs), CountsAs(cs, outcome, 0)
    PROVE  CountInv'
  <1>1. PICK h : /\ req' = [req EXCEPT ![r] = h] /\ metrics' = Counted(cs)
                 /\ h.at = "done" /\ h.outcome = outcome /\ h.failures = req[r].failures
    BY ReturnsWith
  <1>2. req[r].failures \in Nat
    BY HandlerFields DEF Inv, Sound
  <1>3. h.failures = req[r].failures + 0
    BY <1>1, <1>2
  <1>4. QED BY <1>1, <1>3, CountersFollow

\* ... one that goes on has nothing to count...
LEMMA ProceedCounted ==
    ASSUME Inv, CountInv, NEW r \in Request, NEW h, req' = [req EXCEPT ![r] = h],
           req[r].at # "idle", req[r].at # "done", h.at # "idle", h.outcome = "none",
           h.failures = req[r].failures, UNCHANGED metrics
    PROVE  CountInv'
  <1>1. metrics' = Counted({})
    BY CountNothing DEF Inv, ProcessOK
  <1>2. CountsAs({}, "none", 0)
    BY DEF CountsAs
  <1>3. req[r].failures \in Nat
    BY HandlerFields DEF Inv, Sound
  <1>4. h.failures = req[r].failures + 0
    BY <1>3
  <1>5. QED BY <1>1, <1>2, <1>4, CountersFollow

\* ... and one whose send has failed has counted that, whether it goes on or not.
LEMMA FailureCounted ==
    ASSUME Inv, CountInv, NEW r \in Request, NEW h, req' = [req EXCEPT ![r] = h],
           req[r].at # "idle", req[r].at # "done", h.at # "idle",
           h.outcome \in {"none", "send failed"}, h.failures = req[r].failures + 1,
           metrics' = Counted({"upstream_failures"})
    PROVE  CountInv'
  <1>1. CountsAs({"upstream_failures"}, h.outcome, 1)
    BY DEF CountsAs
  <1>2. QED BY <1>1, CountersFollow

\* A handler that starts.
LEMMA ArriveCounted ==
    ASSUME Inv, CountInv, ~RecycleIds,
           NEW r \in Request, NEW method \in Method, Arrive(r, method)
    PROVE  CountInv'
  <1> DEFINE h == IF draining
                  THEN [Idle EXCEPT !.at = "done", !.method = method,
                                    !.outcome = "draining"]
                  ELSE [Idle EXCEPT !.at = "enter", !.method = method]
             S == {q \in Request : req[q].at # "idle"}
             T == {q \in Request : req'[q].at # "idle"}
  <1>1. req[r].at = "idle" /\ req' = [req EXCEPT ![r] = h] /\ metrics' = Counted({"requests"})
    BY DEF Arrive
  <1>2. h.at # "idle" /\ (h.outcome = "none" \/ h.outcome = "draining")
        /\ h.failures = 0
    BY DEF Idle
  <1> HIDE DEF h
  <1>3. req[r].outcome = "none" /\ DOMAIN req = Request /\ req[r].failures = 0
    BY <1>1 DEF Inv, Sound, NotYet
  <1>4. req'[r] = h /\ \A q \in Request \ {r} : req'[q] = req[q]
    BY <1>1, <1>3
  <1>5. T = S \union {r} /\ S \in SUBSET Request /\ r \in Request \ S
    BY <1>1, <1>2, <1>4
  <1>6. /\ metrics'["requests"] = (metrics["requests"] + 1) % MetricModulus
        /\ \A c \in {"errors", "unauthorized", "rate_limited", "upstream_failures"} :
             metrics'[c] = metrics[c]
    BY <1>1 DEF Counted, Counter
  <1>7. metrics["requests"] = Cardinality(S) % MetricModulus
    BY CountInvParts
  <1>8. metrics'["requests"] = Cardinality(T) % MetricModulus
    <2> HIDE DEF S, T
    <2>1. Cardinality(S) \in Nat /\ Cardinality(T) = Cardinality(S) + 1
      BY <1>5, OneMoreRequest
    <2>2. QED BY <1>6, <1>7, <2>1, CountOne
  <1>9. ASSUME NEW os, ~("none" \in os), ~("draining" \in os)
        PROVE  {q \in Request : req'[q].outcome \in os} = {q \in Request : req[q].outcome \in os}
    BY <1>2, <1>3, <1>4, <1>9
  <1>10. /\ {q \in Request : req'[q].outcome \in {"bad body", "no target"}} =
            {q \in Request : req[q].outcome \in {"bad body", "no target"}}
         /\ {q \in Request : req'[q].outcome \in {"denied"}} =
            {q \in Request : req[q].outcome \in {"denied"}}
         /\ {q \in Request : req'[q].outcome \in {"limited"}} =
            {q \in Request : req[q].outcome \in {"limited"}}
         /\ {q \in Request : req'[q].outcome \in {"timed out"}} =
            {q \in Request : req[q].outcome \in {"timed out"}}
    BY <1>9
  <1>11. FailedSends' = FailedSends
    <2>1. \A q \in Request : req'[q].failures = req[q].failures
      BY <1>2, <1>3, <1>4
    <2>2. QED BY <2>1 DEF FailedSends
  <1>12. QED BY <1>6, <1>8, <1>10, <1>11 DEF CountInv, CountersExplained, FailedSends

\* The steps of a handler between its first and its last.
LEMMA HandlerCounted ==
    ASSUME Inv, CountInv, ~RecycleIds,
           NEW r \in Request,
           \/ Enter(r) \/ Gate(r) \/ Fault(r) \/ ReadBody(r) \/ StartAttempt(r)
           \/ Filter(r) \/ Select(r) \/ Wake(r) \/ Leave(r)
           \/ \E answer \in Answer : Receive(r, answer)
    PROVE  CountInv'
  <1>1. Sound(req[r]) /\ req[r] \in Handler
    BY DEF Inv, Sound
  <1>2. req[r].at # "idle" /\ req[r].at # "done"
    BY DEF Enter, Gate, Fault, ReadBody, StartAttempt, Filter, Select, Wake, Leave,
       Receive, Awaiting
  <1>3. req[r].outcome = "none"
    BY <1>1, <1>2 DEF Sound
  <1>4. ASSUME NEW h, req' = [req EXCEPT ![r] = h], h.at # "idle", h.outcome = "none",
               h.failures = req[r].failures, UNCHANGED metrics
        PROVE  CountInv'
    BY <1>2, <1>4, ProceedCounted
  <1>5. CASE Enter(r)
    <2> DEFINE h == [req[r] EXCEPT !.at = "gates"]
    <2>1. h.at = "gates" /\ h.outcome = "none" /\ h.failures = req[r].failures
      BY <1>1, <1>3 DEF Handler
    <2>2. req' = [req EXCEPT ![r] = h] /\ UNCHANGED metrics
      BY <1>5 DEF Enter
    <2> HIDE DEF h
    <2>3. QED BY <1>4, <2>1, <2>2
  <1>6. CASE Gate(r)
    <2>1. CASE req' = [req EXCEPT ![r].at = "fault"] /\ UNCHANGED <<in_flight, metrics>>
      <3> DEFINE h == [req[r] EXCEPT !.at = "fault"]
      <3>1. h.at = "fault" /\ h.outcome = "none" /\ h.failures = req[r].failures
        BY <1>1, <1>3 DEF Handler
      <3>2. req' = [req EXCEPT ![r] = h] /\ UNCHANGED metrics
        BY <2>1
      <3> HIDE DEF h
      <3>3. QED BY <1>4, <3>1, <3>2
    <2>2. CASE Return(r, "not found", {})
      <3>1. CountsAs({}, "not found", 0)
        BY DEF CountsAs
      <3>2. QED BY <1>2, <2>2, <3>1, ReturnCounted
    <2>3. CASE Return(r, "denied", {"unauthorized"})
      <3>1. CountsAs({"unauthorized"}, "denied", 0)
        BY DEF CountsAs
      <3>2. QED BY <1>2, <2>3, <3>1, ReturnCounted
    <2>4. CASE Return(r, "limited", {"rate_limited"})
      <3>1. CountsAs({"rate_limited"}, "limited", 0)
        BY DEF CountsAs
      <3>2. QED BY <1>2, <2>4, <3>1, ReturnCounted
    <2>5. QED BY <1>6, <2>1, <2>2, <2>3, <2>4 DEF Gate
  <1>7. CASE Fault(r)
    <2>1. CASE req' = [req EXCEPT ![r].at = "body"] /\ UNCHANGED <<in_flight, metrics>>
      <3> DEFINE h == [req[r] EXCEPT !.at = "body"]
      <3>1. h.at = "body" /\ h.outcome = "none" /\ h.failures = req[r].failures
        BY <1>1, <1>3 DEF Handler
      <3>2. req' = [req EXCEPT ![r] = h] /\ UNCHANGED metrics
        BY <2>1
      <3> HIDE DEF h
      <3>3. QED BY <1>4, <3>1, <3>2
    <2>2. CASE Return(r, "aborted", {})
      <3>1. CountsAs({}, "aborted", 0)
        BY DEF CountsAs
      <3>2. QED BY <1>2, <2>2, <3>1, ReturnCounted
    <2>3. QED BY <1>7, <2>1, <2>2 DEF Fault
  <1>8. CASE ReadBody(r)
    <2>1. CASE /\ req' = [req EXCEPT ![r].at = "attempt", ![r].attempt = 1]
               /\ UNCHANGED <<in_flight, metrics>>
      <3> DEFINE h == [req[r] EXCEPT !.at = "attempt", !.attempt = 1]
      <3>1. h.at = "attempt" /\ h.outcome = "none" /\ h.failures = req[r].failures
        BY <1>1, <1>3 DEF Handler
      <3>2. req' = [req EXCEPT ![r] = h] /\ UNCHANGED metrics
        BY <2>1 DEF Inv
      <3> HIDE DEF h
      <3>3. QED BY <1>4, <3>1, <3>2
    <2>2. CASE Return(r, "bad body", {"errors"})
      <3>1. CountsAs({"errors"}, "bad body", 0)
        BY DEF CountsAs
      <3>2. QED BY <1>2, <2>2, <3>1, ReturnCounted
    <2>3. QED BY <1>8, <2>1, <2>2 DEF ReadBody
  <1>9. CASE StartAttempt(r)
    <2> DEFINE h == [req[r] EXCEPT !.at = "pick", !.seed = request_counter, !.next = 1]
    <2>1. h.at = "pick" /\ h.outcome = "none" /\ h.failures = req[r].failures
      BY <1>1, <1>3 DEF Handler
    <2>2. \/ Return(r, "retries exhausted", {})
          \/ Return(r, "timed out", {"upstream_failures"})
          \/ req' = [req EXCEPT ![r] = h] /\ UNCHANGED metrics
      BY <1>9 DEF StartAttempt
    <2> HIDE DEF h
    <2>3. CountsAs({}, "retries exhausted", 0) /\ CountsAs({"upstream_failures"}, "timed out", 0)
      BY DEF CountsAs
    <2>4. CASE Return(r, "retries exhausted", {})
      BY <1>2, <2>3, <2>4, ReturnCounted
    <2>5. CASE Return(r, "timed out", {"upstream_failures"})
      BY <1>2, <2>3, <2>5, ReturnCounted
    <2>6. QED BY <1>4, <2>1, <2>2, <2>4, <2>5
  <1>10. CASE Filter(r)
    <2> DEFINE available == IF Admits(targets[req[r].next])
                            THEN Append(req[r].available, req[r].next)
                            ELSE req[r].available
               h == [req[r] EXCEPT !.next = req[r].next + 1, !.available = available]
    <2>1. req' = [req EXCEPT ![r] = h] /\ UNCHANGED metrics
      BY <1>10 DEF Filter, process
    <2> HIDE DEF available
    <2>2. h.at = req[r].at /\ h.outcome = "none" /\ h.failures = req[r].failures
      BY <1>1, <1>3 DEF Handler
    <2> HIDE DEF h
    <2>3. QED BY <1>2, <1>4, <2>1, <2>2
  <1>11. CASE Select(r)
    <2> DEFINE list   == [i \in DOMAIN req[r].available |-> Targets[req[r].available[i]]]
               chosen == SelectTarget(Strategy, list, HashOf[r], req[r].seed)
               t == req[r].available[chosen]
               h == [req[r] EXCEPT !.at = "sent", !.seed = 0, !.next = 0,
                                   !.available = <<>>, !.waited = 0, !.target = t]
    <2>1. \/ Return(r, "no target", {"errors"})
          \/ req' = [req EXCEPT ![r] = h] /\ UNCHANGED metrics
      BY <1>11 DEF Select
    <2> HIDE DEF t
    <2>2. h.at = "sent" /\ h.outcome = "none" /\ h.failures = req[r].failures
      BY <1>1, <1>3 DEF Handler
    <2> HIDE DEF h
    <2>3. CASE Return(r, "no target", {"errors"})
      <3>1. CountsAs({"errors"}, "no target", 0)
        BY DEF CountsAs
      <3>2. QED BY <1>2, <2>3, <3>1, ReturnCounted
    <2>4. QED BY <1>4, <2>1, <2>2, <2>3
  <1>12. CASE Wake(r)
    <2> DEFINE n == req[r].attempt + 1
               h == [req[r] EXCEPT !.at = "attempt", !.waited = 0, !.attempt = n]
    <2>1. req' = [req EXCEPT ![r] = h] /\ UNCHANGED metrics
      BY <1>12 DEF Wake, process
    <2> HIDE DEF n
    <2>2. h.at = "attempt" /\ h.outcome = "none" /\ h.failures = req[r].failures
      BY <1>1, <1>3 DEF Handler
    <2> HIDE DEF h
    <2>3. QED BY <1>4, <2>1, <2>2
  <1>13. CASE Leave(r)
    <2>1. Return(r, "cancelled", {})
      BY <1>13 DEF Leave
    <2>2. CountsAs({}, "cancelled", 0)
      BY DEF CountsAs
    <2>3. QED BY <1>2, <2>1, <2>2, ReturnCounted
  <1>14. ASSUME NEW answer \in Answer, Receive(r, answer)
         PROVE  CountInv'
    <2>1. OneMoreFailure(r) = req[r].failures + 1
      BY DEF OneMoreFailure
    <2>2. ASSUME NEW n, SleepBeforeRetry(r, n),
                 \/ n = req[r].failures /\ UNCHANGED metrics
                 \/ n = req[r].failures + 1 /\ metrics' = Counted({"upstream_failures"})
          PROVE  CountInv'
      <3> DEFINE h == [req[r] EXCEPT !.at = "backoff", !.target = 0, !.waited = 0,
                                     !.failures = n]
      <3>1. req' = [req EXCEPT ![r] = h]
        BY <2>2 DEF SleepBeforeRetry
      <3>2. h.at = "backoff" /\ h.outcome = "none" /\ h.failures = n
        BY <1>1, <1>3 DEF Handler
      <3> HIDE DEF h
      <3>3. CASE n = req[r].failures /\ UNCHANGED metrics
        BY <1>4, <3>1, <3>2, <3>3
      <3>4. CASE n = req[r].failures + 1 /\ metrics' = Counted({"upstream_failures"})
        BY <1>2, <3>1, <3>2, <3>4, FailureCounted
      <3>5. QED BY <2>2, <3>3, <3>4
    <2>3. ASSUME GiveUp(r, OneMoreFailure(r)), metrics' = Counted({"upstream_failures"})
          PROVE  CountInv'
      <3> DEFINE n == req[r].failures + 1
                 g == Returned(r, "send failed")
                 h == [g EXCEPT !.failures = n]
      <3>1. req' = [req EXCEPT ![r] = h]
        BY <2>1, <2>3 DEF GiveUp
      <3> HIDE DEF n
      <3>2. h.at = "done" /\ h.outcome = "send failed" /\ h.failures = n
        BY DEF Returned, Idle
      <3> HIDE DEF h
      <3>3. QED BY <1>2, <2>3, <3>1, <3>2, FailureCounted DEF n
    <2>4. ASSUME NEW outcome \in {"answered", "blocked"}, Return(r, outcome, {})
          PROVE  CountInv'
      <3>1. CountsAs({}, "answered", 0) /\ CountsAs({}, "blocked", 0)
        BY DEF CountsAs
      <3>2. QED BY <1>2, <2>4, <3>1, ReturnCounted
    <2>5. QED BY <1>14, <2>1, <2>2, <2>3, <2>4 DEF Receive, SendFailed, StatusReceived
  <1>15. QED BY <1>5, <1>6, <1>7, <1>8, <1>9, <1>10, <1>11, <1>12, <1>13, <1>14

\* While no id stands for two requests, each metric is, up to its width, the
\* number of the events it names: requests the requests that have arrived;
\* errors, unauthorized and rate_limited those that ended with a bad body or
\* no target, with a denial, or over a limit; upstream_failures the sends that
\* failed, however many of them one request has made, and the requests that
\* ran out of time (observability.rs, main.rs:220-426).
THEOREM CountersAreExplained ==
    ASSUME ~RecycleIds
    PROVE  Spec => []CountersExplained
  <1>1. Init => CountInv
    <2> SUFFICES ASSUME Init PROVE CountInv
      OBVIOUS
    <2>1. \A r \in Request : /\ req[r].at = "idle" /\ req[r].outcome = "none"
                             /\ req[r].failures = 0
      BY DEF Init, Idle
    <2>2. /\ {r \in Request : req[r].at # "idle"} = {}
          /\ Ended({"bad body", "no target"}) = {} /\ Ended({"denied"}) = {}
          /\ Ended({"limited"}) = {} /\ Ended({"timed out"}) = {}
      BY <2>1 DEF Ended
    <2>3. FailedSends = {}
      <3>1. \A r \in Request : 1..req[r].failures = {}
        BY <2>1
      <3>2. QED BY <3>1 DEF FailedSends
    <2>4. \A c \in Counter : metrics[c] = 0
      BY DEF Init
    <2>5. Cardinality({}) = 0 /\ IsFiniteSet({})
      BY FS_EmptySet
    <2>6. 0 % MetricModulus = 0 /\ (0 + 0) % MetricModulus = 0
      BY GatewayAssumption
    <2>7. QED BY <2>2, <2>3, <2>4, <2>5, <2>6, CountInvParts DEF Counter
  <1>2. ASSUME Inv, CountInv, [Next]_vars
        PROVE  CountInv'
    <2>1. ASSUME NEW r \in Request, NEW method \in Method, Arrive(r, method)
          PROVE  CountInv'
      BY <1>2, <2>1, ArriveCounted
    <2>2. ASSUME NEW r \in Request,
                 \/ Enter(r) \/ Gate(r) \/ Fault(r) \/ ReadBody(r) \/ StartAttempt(r)
                 \/ Filter(r) \/ Select(r) \/ Wake(r) \/ Leave(r)
                 \/ \E answer \in Answer : Receive(r, answer)
          PROVE  CountInv'
      BY <1>2, <2>2, HandlerCounted
    <2>3. CASE \/ CheckerTick \/ CtrlC \/ CtrlCUnavailable \/ DrainPoll
               \/ \E healthy \in BOOLEAN : CheckerResult(healthy)
               \/ UNCHANGED vars
      <3>1. UNCHANGED <<req, metrics>>
        BY <2>3 DEF CheckerTick, CtrlC, CtrlCUnavailable, DrainPoll, CheckerResult,
           vars, process
      <3>2. QED BY <1>2, <3>1, CountersStay
    <2>4. CASE Tick
      <3>1. \A q \in Request : req[q] \in Handler
        BY <1>2 DEF Inv, Sound
      <3>2. \A q \in Request : /\ req'[q].at = req[q].at
                               /\ req'[q].outcome = req[q].outcome
                               /\ req'[q].failures = req[q].failures
        BY <2>4, <3>1 DEF Tick, Handler
      <3>3. QED BY <1>2, <2>4, <3>2, CountersStay DEF Tick
    <2>5. QED BY <1>2, <2>1, <2>2, <2>3, <2>4 DEF Next
  <1>3. CountInv => CountersExplained
    BY DEF CountInv
  <1>4. QED BY <1>1, <1>2, <1>3, Invariant, PTL DEF Spec
=============================================================================
