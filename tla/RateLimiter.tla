----------------------------- MODULE RateLimiter -----------------------------
(***************************************************************************)
(* RateLimiter (rate_limit.rs): token buckets, fixed windows and sliding   *)
(* windows, per route, service, consumer and client, behind one mutex.     *)
(*                                                                         *)
(* check_with_context reads the clock BEFORE it takes the lock, so it is   *)
(* two steps here: Sample and Check.  Between them other threads may run   *)
(* whole checks with a later clock value; MaxDelay bounds how many ticks   *)
(* a thread can be held up there.                                          *)
(*                                                                         *)
(* A disabled limiter admits every request without touching any state, so  *)
(* no step begins one.                                                     *)
(*                                                                         *)
(* The names in a context (route, client address, ...) are opaque values,  *)
(* but for the consumer: a sequence of words, empty when there is none.    *)
(* A bucket of the code holds a float; here it holds an integer number of  *)
(* fractions of a token, exact for the rates the configuration can give.   *)
(* Rounding of the float is not modelled.                                  *)
(***************************************************************************)
EXTENDS Integers, Sequences, FiniteSets

CONSTANTS
    Thread,            \* request tasks calling the limiter at the same time
    Context,           \* RateLimitContext values that occur
    Configs,           \* the configurations the limiter may be created with
    MaxDelay,          \* bound: ticks between reading the clock and the lock
    MaxClock,          \* bound: the clock stops here
    MaxAdmitted        \* bound: requests admitted or about to be checked

Unset == -1

\* The consumer without a name, and the name it goes under.
NoConsumer == <<>>
Anonymous == <<"anonymous">>

Policies == {"token_bucket", "fixed_window", "sliding_window"}
Scopes == {"route", "service", "consumer", "client"}

\* ScopedLimitRule; an absent quota is Unset, an absent policy "default".
Rule == [ scope: Scopes, limit: Nat, quota: Nat \union {Unset},
          window: Nat, policy: Policies \union {"default"} ]

\* RateLimitConfig, with a tick for a second.
RateLimitConfig ==
    [ enabled: BOOLEAN, policy: Policies, capacity: Nat, refill_per_second: Nat,
      fixed_window_seconds: Nat, sliding_window_seconds: Nat,
      scoped_limits: Seq(Rule) ]

ASSUME LimiterAssumption ==
    /\ Configs \subseteq RateLimitConfig
    /\ {MaxDelay, MaxClock, MaxAdmitted} \subseteq Nat
    /\ \A c \in Context : DOMAIN c = Scopes

VARIABLES
    config,            \* RateLimiter.config
    clock,             \* Instant::now()
    states,            \* Mutex<HashMap<String, LimitState>>
    thread,            \* per thread: its context and the clock value it read
    log,               \* history: how many requests have been admitted, of
                       \* which contexts, and when, for each key of states
    regress            \* history: by how much, in all, the last_refill of each
                       \* state has been set back

vars == <<config, clock, states, thread, log, regress>>

\* Mutant: all consumers go under one name.
ValueKeyShared(scope, ctx) == IF scope = "consumer" THEN Anonymous ELSE ctx[scope]

\* effective_rules_for_context: a missing subject is the consumer "anonymous".
ValueKey(scope, ctx) ==
    IF scope = "consumer" /\ ctx.consumer = NoConsumer THEN Anonymous ELSE ctx[scope]

\* scope_key
StateKey(scope, ctx) == <<scope, ValueKey(scope, ctx)>>

StateKeys == {StateKey(s, c) : s \in Scopes, c \in Context}

LimitStateDefault ==
    [ tokens |-> 0, last_refill |-> Unset, fixed_window_start |-> Unset,
      fixed_window_count |-> 0, sliding_hits |-> <<>>, accepted_total |-> 0 ]

\* Without scoped limits there is one rule, for the client.
DefaultRule ==
    [ scope |-> "client", limit |-> config.capacity, quota |-> Unset,
      window |-> CASE config.policy = "token_bucket"   -> 1
                   [] config.policy = "fixed_window"   -> config.fixed_window_seconds
                   [] config.policy = "sliding_window" -> config.sliding_window_seconds,
      policy |-> config.policy ]

EffectiveRules ==
    IF config.scoped_limits = <<>> THEN <<DefaultRule>> ELSE config.scoped_limits

PolicyOf(rule) == IF rule.policy = "default" THEN config.policy ELSE rule.policy

AtLeastOne(n) == IF n = 0 THEN 1 ELSE n

WindowOf(rule) == AtLeastOne(rule.window)

\* Instant::duration_since saturates: an earlier instant is 0 away.
DurationSince(now, then) == IF now > then THEN now - then ELSE 0

-----------------------------------------------------------------------------
\* The policies.  Each takes a state and gives the verdict and the new state.

Verdict(ok, s) == [ok |-> ok, state |-> s]

\* Mutant: a bucket that forgets the cap when it is refilled.
TokenBucketUncapped(s, now, capacity, rate, unit) ==
    LET held  == IF s.last_refill = Unset THEN capacity * unit ELSE s.tokens
        since == IF s.last_refill = Unset THEN now ELSE s.last_refill
        full  == held + DurationSince(now, since) * rate
    IN  Verdict(full >= unit,
                [s EXCEPT !.tokens = IF full >= unit THEN full - unit ELSE full,
                          !.last_refill = now])

\* A bucket of capacity tokens refilled with rate/unit tokens per tick; tokens
\* counts in 1/unit.  An empty record starts out full.
TokenBucket(s, now, capacity, rate, unit) ==
    LET held  == IF s.last_refill = Unset THEN capacity * unit ELSE s.tokens
        since == IF s.last_refill = Unset THEN now ELSE s.last_refill
        more  == held + DurationSince(now, since) * rate
        full  == IF more > capacity * unit THEN capacity * unit ELSE more
    IN  Verdict(full >= unit,
                [s EXCEPT !.tokens = IF full >= unit THEN full - unit ELSE full,
                          !.last_refill = now])

FixedWindowPolicy(s, now, rule) ==
    LET start   == IF s.fixed_window_start = Unset THEN now
                   ELSE s.fixed_window_start
        expired == DurationSince(now, start) >= WindowOf(rule)
        count   == IF expired THEN 0 ELSE s.fixed_window_count
    IN  Verdict(count < rule.limit,
                [s EXCEPT !.fixed_window_start = IF expired THEN now ELSE start,
                          !.fixed_window_count =
                              IF count < rule.limit THEN count + 1 ELSE count])

\* Mutant: a hit expires a tick late.
PopExpiredLate(hits, now, window) ==
    LET live == {i \in DOMAIN hits : DurationSince(now, hits[i]) <= window}
        first == CHOOSE i \in live : \A j \in live : i <= j
    IN  IF live = {} THEN <<>> ELSE SubSeq(hits, first, Len(hits))

\* The hits left when the expired ones have been popped off the front.  The
\* loop stops at the first hit that has not expired.
PopExpired(hits, now, window) ==
    LET live == {i \in DOMAIN hits : DurationSince(now, hits[i]) < window}
        first == CHOOSE i \in live : \A j \in live : i <= j
    IN  IF live = {} THEN <<>> ELSE SubSeq(hits, first, Len(hits))

\* Mutant: <= in the comparison with the limit.
SlidingWindowOneMore(s, now, rule) ==
    LET hits == PopExpired(s.sliding_hits, now, WindowOf(rule))
        ok   == Len(hits) <= rule.limit
    IN  Verdict(ok, [s EXCEPT !.sliding_hits =
                                IF ok THEN Append(hits, now) ELSE hits])

SlidingWindowPolicy(s, now, rule) ==
    LET hits == PopExpired(s.sliding_hits, now, WindowOf(rule))
        ok   == Len(hits) < rule.limit
    IN  Verdict(ok, [s EXCEPT !.sliding_hits =
                                IF ok THEN Append(hits, now) ELSE hits])

\* apply_policy
ApplyPolicy(s, now, rule) ==
    CASE PolicyOf(rule) = "token_bucket" ->
            TokenBucket(s, now, rule.limit, rule.limit, WindowOf(rule))
      [] PolicyOf(rule) = "fixed_window"   -> FixedWindowPolicy(s, now, rule)
      [] PolicyOf(rule) = "sliding_window" -> SlidingWindowPolicy(s, now, rule)

\* Mutant: the quota compared with >.
QuotaUsedUpLate(s, rule) == rule.quota # Unset /\ s.accepted_total > rule.quota

QuotaUsedUp(s, rule) == rule.quota # Unset /\ s.accepted_total >= rule.quota

-----------------------------------------------------------------------------
\* check_with_context.

Legacy == config.scoped_limits = <<>> /\ config.policy = "token_bucket"

\* What one rule says, and the state it stages.  It is computed from the
\* stored state, not from what an earlier rule has staged for the same key.
Staged(rule, ctx, now) ==
    LET s == states[StateKey(rule.scope, ctx)]
        v == ApplyPolicy(s, now, rule)
    IN  [ ok |-> ~QuotaUsedUp(s, rule) /\ v.ok,
          state |-> [v.state EXCEPT !.accepted_total = @ + 1] ]

\* The staged states are inserted in the order of the rules: the last rule
\* with a given key decides what is stored.
Committed(ctx, now) ==
    [k \in StateKeys |->
        LET mine == {i \in DOMAIN EffectiveRules :
                        StateKey(EffectiveRules[i].scope, ctx) = k}
            last == CHOOSE i \in mine : \A j \in mine : j <= i
        IN  IF mine = {} THEN states[k]
            ELSE Staged(EffectiveRules[last], ctx, now).state]

\* A request is admitted: it counts for every key that it has.
Logged(ctx) ==
    [ total |-> log.total + 1,
      who   |-> log.who \union {ctx},
      at    |-> [k \in StateKeys |-> IF StateKey(k[1], ctx) = k
                                    THEN Append(log.at[k], clock) ELSE log.at[k]] ]

\* Mutant: the rules passed so far are stored though a later one refuses.
CheckScopedPartial(ctx, now) ==
    LET ok == \A i \in DOMAIN EffectiveRules :
                Staged(EffectiveRules[i], ctx, now).ok
    IN  /\ states' = Committed(ctx, now)
        /\ log' = IF ok THEN Logged(ctx) ELSE log

\* All rules must agree, or nothing is stored.
CheckScoped(ctx, now) ==
    LET ok == \A i \in DOMAIN EffectiveRules :
                Staged(EffectiveRules[i], ctx, now).ok
    IN  /\ states' = IF ok THEN Committed(ctx, now) ELSE states
        /\ log' = IF ok THEN Logged(ctx) ELSE log

\* apply_legacy_token_bucket on the client's bucket; its refill is stored
\* even when the request is refused.
CheckLegacy(ctx, now) ==
    LET k == StateKey("client", ctx)
        v == TokenBucket(states[k], now, config.capacity, config.refill_per_second, 1)
    IN  /\ states' = [states EXCEPT ![k] = v.state]
        /\ log' = IF v.ok THEN Logged(ctx) ELSE log

Waiting == {t \in Thread : thread[t].now # Unset}

\* RateLimiter::new
Init ==
    /\ config \in Configs
    /\ clock = 0
    /\ states = [k \in StateKeys |-> LimitStateDefault]
    /\ thread = [t \in Thread |-> [now |-> Unset, ctx |-> <<>>]]
    /\ log = [total |-> 0, who |-> {}, at |-> [k \in StateKeys |-> <<>>]]
    /\ regress = [k \in StateKeys |-> 0]

\* The call begins and reads the clock.
Sample(t, ctx) ==
    /\ config.enabled
    /\ t \notin Waiting
    /\ log.total + Cardinality(Waiting) < MaxAdmitted
    /\ thread' = [thread EXCEPT ![t] = [now |-> clock, ctx |-> ctx]]
    /\ UNCHANGED <<config, clock, states, log, regress>>

\* The thread has the lock: the rest of the call.
Check(t) ==
    /\ t \in Waiting
    /\ IF Legacy THEN CheckLegacy(thread[t].ctx, thread[t].now)
                 ELSE CheckScoped(thread[t].ctx, thread[t].now)
    /\ thread' = [thread EXCEPT ![t] = [now |-> Unset, ctx |-> <<>>]]
    /\ regress' = [k \in StateKeys |->
          regress[k] + DurationSince(states[k].last_refill, states'[k].last_refill)]
    /\ UNCHANGED <<config, clock>>

Tick ==
    /\ clock < MaxClock
    /\ \A t \in Waiting : clock - thread[t].now < MaxDelay
    /\ clock' = clock + 1
    /\ UNCHANGED <<config, states, thread, log, regress>>

Next ==
    \/ \E t \in Thread, ctx \in Context : Sample(t, ctx)
    \/ \E t \in Thread : Check(t)
    \/ Tick

Spec == Init /\ [][Next]_vars

-----------------------------------------------------------------------------
\* Correctness.

TypeOK ==
    /\ config \in Configs
    /\ clock \in 0..MaxClock
    /\ DOMAIN states = StateKeys
    /\ \A k \in StateKeys :
         /\ states[k].tokens \in Nat
         /\ states[k].last_refill \in Unset..MaxClock
         /\ states[k].fixed_window_start \in Unset..MaxClock
         /\ states[k].accepted_total \in 0..log.total
         /\ \A i \in DOMAIN states[k].sliding_hits :
              states[k].sliding_hits[i] \in 0..MaxClock
    /\ \A t \in Thread : thread[t].now \in Unset..clock

\* When the requests a rule applies to, under one value, were admitted.
Admitted(rule, value) == log.at[<<rule.scope, value>>]

Values(rule) == {ValueKey(rule.scope, c) : c \in Context}

\* Any n + 1 requests admitted in a row take at least span ticks.
Spread(at, n, span) ==
    \A i \in DOMAIN at : i + n \in DOMAIN at => at[i + n] - at[i] >= span

\* A sliding window lets at most limit requests through in any window, and a
\* fixed window twice as many, which fit on both sides of a reset, whatever the
\* threads do, up to the time one of them can lose between reading the clock
\* and taking the lock (rate_limit.rs:135-136,274-307).
WindowsKept ==
    \A i \in DOMAIN EffectiveRules :
        LET rule  == EffectiveRules[i]
            limit == IF PolicyOf(rule) = "fixed_window" THEN 2 * rule.limit ELSE rule.limit
        IN  PolicyOf(rule) # "token_bucket" =>
              \A v \in Values(rule) :
                Spread(Admitted(rule, v), limit, WindowOf(rule) - MaxDelay)

\* The requests admitted between any two moments are paid for by a full bucket
\* and the refill of the time between them, give or take slack ticks.
TokensPaid(at, capacity, rate, unit, slack) ==
    \A i, j \in DOMAIN at : i <= j =>
        (j - i + 1) * unit <= capacity * unit + rate * (at[j] - at[i] + slack)

\* Every token bucket keeps to that with the slack given by slack(_), a function
\* of the key of its state.
BucketsPaid(slack(_)) ==
    \A i \in DOMAIN EffectiveRules : LET rule == EffectiveRules[i] IN
        PolicyOf(rule) = "token_bucket" =>
            \A v \in Values(rule) :
                LET rate == IF Legacy THEN config.refill_per_second ELSE rule.limit
                    unit == IF Legacy THEN 1 ELSE WindowOf(rule)
                IN  TokensPaid(Admitted(rule, v), rule.limit, rate, unit,
                               slack(<<rule.scope, v>>))

\* A token bucket admits no more than a full bucket and the refill since; what
\* threads that take the lock late can gain is the time by which they set
\* last_refill back, and no more (rate_limit.rs:135,180-199,253-273).
TokenBucketKept == BucketsPaid(LAMBDA k : MaxDelay + regress[k])

\* A token bucket admits no more than a full bucket and the refill since,
\* whatever the order in which threads take the lock (the test
\* token_bucket_enforces_capacity, rate_limit.rs:318).
TokenBucketEnforced == BucketsPaid(LAMBDA k : MaxDelay)

\* A rule with a quota admits no more than that over the life of the process,
\* also when several threads use up the rest of it at the same time, and a
\* request another rule refuses does not eat into it (rate_limit.rs:151-175).
QuotaExact ==
    \A i \in DOMAIN config.scoped_limits : LET rule == config.scoped_limits[i] IN
        \A v \in Values(rule) :
            LET used == Len(Admitted(rule, v))
            IN  /\ rule.quota # Unset => used <= rule.quota
                /\ states[<<rule.scope, v>>].accepted_total = used

\* What uses a rule up at a given time: a limit of none, the quota, as many
\* requests within the window as the window allows, or one request as long as
\* the bucket takes to fill up.
UsedUp(rule, ctx, now) ==
    LET at     == Admitted(rule, ValueKey(rule.scope, ctx))
        recent == {i \in DOMAIN at : at[i] > now - WindowOf(rule)}
    IN  \/ rule.limit = 0
        \/ rule.quota # Unset /\ Len(at) >= rule.quota
        \/ IF PolicyOf(rule) = "token_bucket"
           THEN recent # {} \/ (Legacy /\ config.refill_per_second = 0)
           ELSE Cardinality(recent) >= rule.limit

\* Nobody is refused without a reason: some rule has been used up by requests
\* admitted under the caller's own values, and lately, however late the other
\* threads and this one took the lock (rate_limit.rs:135-178,253-307).
RefusalExplained ==
    [][\A t \in Thread : t \in Waiting /\ thread'[t].now = Unset /\ log' = log =>
         \E i \in DOMAIN EffectiveRules :
            UsedUp(EffectiveRules[i], thread[t].ctx, thread[t].now)]_vars

\* The map holds no state for a key that nobody has been admitted under: what
\* is refused, or passed by one rule and refused by the next, does not make it
\* grow.  (A legacy bucket of capacity 0 is kept all the same.)
EntriesEarned ==
    \A k \in StateKeys :
        states[k] # LimitStateDefault /\ ~(Legacy /\ config.capacity = 0) =>
            \E ctx \in log.who : StateKey(k[1], ctx) = k
=============================================================================
