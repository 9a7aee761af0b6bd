------------------------- MODULE PluginManager_proofs -------------------------
(***************************************************************************)
(* Proofs about the life of the plugins and the phases they run: for any   *)
(* list of plugins the gateway is configured with, any set of them that    *)
(* fails to initialise and any number of requests.                         *)
(***************************************************************************)
EXTENDS PluginManager, NatExtrema, TLAPS

-----------------------------------------------------------------------------
\* The inductive invariant.

\* The plugins before n are registered, in order, and initialised once each;
\* none has been torn down.
LoadedUpTo(n) ==
    manager = [ plugins |-> [i \in 1..(n - 1) |-> i],
                inits   |-> [i \in Index |-> IF i < n THEN 1 ELSE 0],
                torn    |-> [i \in Index |-> 0] ]

\* Their names are distinct.
DistinctUpTo(n) ==
    \A i, j \in 1..(n - 1) : configs[i].name = configs[j].name => i = j

\* What each status means for the manager.
Inv ==
    /\ configs \in Configs
    /\ status \in {"loading", "serving", "failed", "stopped"}
    /\ next \in 1..(Len(configs) + 1)
    /\ status \in {"loading", "serving"} => LoadedUpTo(next) /\ DistinctUpTo(next)
    /\ status = "serving" => next = Len(configs) + 1
    /\ status \in {"failed", "stopped"} =>
         manager.torn = manager.inits /\ manager.plugins = <<>>

\* A list of plugins is a sequence.
LEMMA ConfigsAreSequences ==
    ASSUME configs \in Configs
    PROVE  Len(configs) \in Nat /\ Index = 1..Len(configs)
  <1>1. configs \in Seq(UNION {Range(list) : list \in Configs})
    BY PluginAssumption
  <1>2. QED BY <1>1 DEF Index

-----------------------------------------------------------------------------
\* Rolling back.

\* What rollback_lifecycle leaves of a manager that has loaded some plugins:
\* each of them torn down once, no other, and an empty list.
LEMMA RollbackTearsDown ==
    ASSUME configs \in Configs, NEW n \in 1..(Len(configs) + 1), LoadedUpTo(n)
    PROVE  LET m == RolledBack(manager)
           IN  /\ m.plugins = <<>> /\ m.torn = m.inits
               /\ m.torn = [i \in Index |-> IF i < n THEN 1 ELSE 0]
               /\ DOMAIN m.torn = Index
               /\ m = [plugins |-> <<>>, inits |-> m.inits, torn |-> m.torn]
  <1> DEFINE plugins == [i \in 1..(n - 1) |-> i]
             count == [i \in Index |-> IF i < n THEN 1 ELSE 0]
             zero == [i \in Index |-> 0]
             torn == [i \in Index |-> IF i \in Range(plugins) THEN zero[i] + 1 ELSE zero[i]]
  <1>1. Len(configs) \in Nat /\ Index = 1..Len(configs)
    BY ConfigsAreSequences
  <1>2. Range(plugins) = 1..(n - 1)
    BY <1>1 DEF Range
  <1>3. torn = count
    <2> HIDE DEF plugins
    <2>1. \A i \in Index : i \in Range(plugins) <=> i < n
      BY <1>1, <1>2
    <2>2. QED BY <2>1
  <1>4. manager = [plugins |-> plugins, inits |-> count, torn |-> zero]
    BY DEF LoadedUpTo
  <1>5. RolledBack(manager) = [manager EXCEPT !.plugins = <<>>, !.torn = torn]
    BY <1>4 DEF RolledBack
  <1> HIDE DEF plugins, zero, torn
  <1>6. RolledBack(manager) = [plugins |-> <<>>, inits |-> count, torn |-> torn]
    BY <1>4, <1>5
  <1>7. QED BY <1>3, <1>6

\* A second rollback finds nothing to tear down.
LEMMA RollbackTwice ==
    ASSUME NEW m, m.plugins = <<>>, DOMAIN m.torn = Index,
           m = [plugins |-> <<>>, inits |-> m.inits, torn |-> m.torn],
           m.torn = [i \in Index |-> m.torn[i]]
    PROVE  RolledBack(m) = m
  <1> DEFINE torn == [i \in Index |-> IF i \in Range(m.plugins) THEN m.torn[i] + 1
                                                               ELSE m.torn[i]]
  <1>1. Range(m.plugins) = {}
    BY DEF Range
  <1>2. torn = m.torn
    BY <1>1
  <1>3. RolledBack(m) = [m EXCEPT !.plugins = <<>>, !.torn = torn]
    BY DEF RolledBack
  <1> HIDE DEF torn
  <1>4. QED BY <1>2, <1>3

-----------------------------------------------------------------------------
\* One plugin is loaded.

\* register pushes the plugin behind the others.
LEMMA LoadedOneMore ==
    ASSUME configs \in Configs, NEW n \in Index, LoadedUpTo(n)
    PROVE  [manager EXCEPT !.plugins = Append(manager.plugins, n),
                           !.inits[n] = manager.inits[n] + 1]
           = [ plugins |-> [i \in 1..n |-> i],
               inits   |-> [i \in Index |-> IF i < n + 1 THEN 1 ELSE 0],
               torn    |-> [i \in Index |-> 0] ]
  <1> DEFINE plugins == [i \in 1..(n - 1) |-> i]
             count == [i \in Index |-> IF i < n THEN 1 ELSE 0]
             more == [i \in Index |-> IF i < n + 1 THEN 1 ELSE 0]
             zero == [i \in Index |-> 0]
  <1>1. Len(configs) \in Nat /\ Index = 1..Len(configs) /\ n \in Int
    BY ConfigsAreSequences
  <1>2. manager = [plugins |-> plugins, inits |-> count, torn |-> zero]
    BY DEF LoadedUpTo
  <1>3. Append(plugins, n) = [i \in 1..n |-> i]
    <2>1. n \in Nat /\ n - 1 \in Nat /\ plugins \in Seq(Nat) /\ Len(plugins) = n - 1
      BY <1>1
    <2>2. QED BY <2>1
  <1>4. [count EXCEPT ![n] = count[n] + 1] = more
    <2>1. count[n] = 0
      BY <1>1
    <2>2. \A i \in Index : i # n => (i < n <=> i < n + 1)
      BY <1>1
    <2>3. \A i \in Index : i # n => count[i] = more[i]
      BY <2>2
    <2>4. more[n] = 1
      BY <1>1
    <2>5. count = [i \in Index |-> count[i]] /\ more = [i \in Index |-> more[i]]
      OBVIOUS
    <2> HIDE DEF count, more
    <2>6. [count EXCEPT ![n] = count[n] + 1] = [i \in Index |-> more[i]]
      BY <2>1, <2>3, <2>4, <2>5
    <2>7. QED BY <2>5, <2>6
  <1> HIDE DEF plugins, count, zero, more
  <1>5. [manager EXCEPT !.plugins = Append(manager.plugins, n),
                        !.inits[n] = manager.inits[n] + 1]
        = [plugins |-> Append(plugins, n),
           inits |-> [count EXCEPT ![n] = count[n] + 1], torn |-> zero]
    <2>1. manager.plugins = plugins /\ manager.inits = count /\ manager.torn = zero
      BY <1>2
    <2>2. ASSUME NEW p, NEW q, NEW m, m = [manager EXCEPT !.plugins = p, !.inits = q]
          PROVE  m = [plugins |-> p, inits |-> q, torn |-> zero]
      BY <1>2, <2>2
    <2>3. [manager EXCEPT !.plugins = Append(manager.plugins, n),
                          !.inits[n] = manager.inits[n] + 1]
          = [manager EXCEPT !.plugins = Append(plugins, n),
                            !.inits = [count EXCEPT ![n] = count[n] + 1]]
      BY <2>1
    <2>4. QED BY <2>2, <2>3
  <1>6. QED BY <1>3, <1>4, <1>5 DEF more, zero

\* from_config returns an error from any of its places.
LEMMA FailedKeepsInv ==
    ASSUME Inv, status = "loading", UNCHANGED configs,
           Failed(manager) \/ Failed(RolledBack(manager))
    PROVE  Inv'
  <1> DEFINE m == RolledBack(manager)
  <1>1. LoadedUpTo(next) /\ next \in 1..(Len(configs) + 1) /\ configs \in Configs
    BY DEF Inv
  <1>2. /\ m.plugins = <<>> /\ m.torn = m.inits
        /\ m.torn = [i \in Index |-> IF i < next THEN 1 ELSE 0]
        /\ DOMAIN m.torn = Index
        /\ m = [plugins |-> <<>>, inits |-> m.inits, torn |-> m.torn]
    BY <1>1, RollbackTearsDown
  <1>3. manager' = m \/ manager' = RolledBack(m)
    BY DEF Failed
  <1> HIDE DEF m
  <1>4. RolledBack(m) = m
    BY <1>2, RollbackTwice
  <1>5. manager'.torn = manager'.inits /\ manager'.plugins = <<>>
    BY <1>2, <1>3, <1>4
  <1>6. QED BY <1>1, <1>5 DEF Inv, Failed

-----------------------------------------------------------------------------
\* The specification.

\* The invariant holds initially.
LEMMA InitInv == Init => Inv
  <1> SUFFICES ASSUME Init PROVE Inv
    OBVIOUS
  <1>1. Len(configs) \in Nat /\ Index = 1..Len(configs)
    BY ConfigsAreSequences DEF Init
  <1>2. [i \in 1..(1 - 1) |-> i] = <<>>
    OBVIOUS
  <1>3. [i \in Index |-> IF i < 1 THEN 1 ELSE 0] = [i \in Index |-> 0]
    BY <1>1
  <1>4. LoadedUpTo(1)
    BY <1>2, <1>3 DEF LoadedUpTo, Init
  <1>5. DistinctUpTo(1)
    BY DEF DistinctUpTo
  <1>6. QED BY <1>1, <1>4, <1>5 DEF Inv, Init

\* Every step keeps it.
LEMMA NextInv == Inv /\ [Next]_vars => Inv'
  <1> SUFFICES ASSUME Inv, [Next]_vars PROVE Inv'
    OBVIOUS
  <1>1. Len(configs) \in Nat /\ Index = 1..Len(configs)
    BY ConfigsAreSequences DEF Inv
  <1>2. CASE LoadNext
    <2>1. status = "loading" /\ next \in Index /\ UNCHANGED configs
      BY <1>2 DEF LoadNext
    <2>2. CASE Failed(manager) \/ Failed(RolledBack(manager))
      BY <2>1, <2>2, FailedKeepsInv
    <2>3. CASE /\ ~Duplicate
               /\ manager' = [manager EXCEPT !.plugins = Append(@, next),
                                             !.inits[next] = @ + 1]
               /\ next' = next + 1
               /\ UNCHANGED status
      <3>1. LoadedUpTo(next) /\ DistinctUpTo(next) /\ configs \in Configs
        BY <2>1 DEF Inv
      <3>2. next' - 1 = next /\ next' = next + 1 /\ Index' = Index
        BY <1>1, <2>1, <2>3 DEF Index
      <3>3. LoadedUpTo(next)'
        <4>1. manager' = [ plugins |-> [i \in 1..next |-> i],
                           inits   |-> [i \in Index |-> IF i < next + 1 THEN 1 ELSE 0],
                           torn    |-> [i \in Index |-> 0] ]
          BY <2>1, <2>3, <3>1, LoadedOneMore
        <4>2. QED BY <3>2, <4>1 DEF LoadedUpTo
      <3>4. DistinctUpTo(next)'
        <4>1. \A i \in 1..(next - 1) : configs[i].name # configs[next].name
          BY <2>3 DEF Duplicate
        <4>2. \A i, j \in 1..next : configs[i].name = configs[j].name => i = j
          BY <1>1, <2>1, <3>1, <4>1 DEF DistinctUpTo
        <4>3. QED BY <2>1, <3>2, <4>2 DEF DistinctUpTo
      <3>5. QED BY <1>1, <2>1, <2>3, <3>2, <3>3, <3>4 DEF Inv
    <2>4. QED BY <1>2, <2>2, <2>3 DEF LoadNext
  <1>3. CASE Serve
    <2>1. next = Len(configs) + 1
      BY <1>1, <1>3 DEF Serve, Inv
    <2>2. QED BY <1>3, <2>1 DEF Serve, Inv, LoadedUpTo, DistinctUpTo, Index
  <1>4. CASE Stop
    <2> DEFINE m == RolledBack(manager)
    <2>1. LoadedUpTo(next) /\ next \in 1..(Len(configs) + 1) /\ configs \in Configs
      BY <1>4 DEF Inv, Stop
    <2>2. m.plugins = <<>> /\ m.torn = m.inits
      BY <2>1, RollbackTearsDown
    <2> HIDE DEF m
    <2>3. manager' = m
      BY <1>4 DEF Stop, m
    <2>4. QED BY <1>4, <2>2, <2>3 DEF Stop, Inv
  <1>5. CASE \/ \E r \in Request, payload \in Payload : Access(r, payload)
             \/ \E r \in Request : EndEarly(r) \/ Respond(r)
             \/ UNCHANGED vars
    <2>1. UNCHANGED <<configs, status, next, manager>>
      BY <1>5 DEF Access, EndEarly, Respond, vars
    <2>2. QED BY <2>1 DEF Inv, LoadedUpTo, DistinctUpTo, Index
  <1>6. QED BY <1>2, <1>3, <1>4, <1>5 DEF Next

\* The inductive invariant of the plugin manager: which plugins have been
\* initialised, and which of them torn down, at each place of from_config, of
\* rollback_lifecycle and of drop (plugin.rs:157-250).
THEOREM Invariant == Spec => []Inv
  BY InitInv, NextInv, PTL DEF Spec

\* However loading ends, and whenever the process stops, every plugin that was
\* initialised is torn down exactly once, and no other plugin is: also when
\* rollback_lifecycle has run before the manager is dropped
\* (plugin.rs:163-176,236-250).
THEOREM TornDownOnceHolds == Spec => []TornDownOnce
  <1>1. Inv => TornDownOnce
    BY DEF Inv, TornDownOnce, LoadedUpTo
  <1>2. QED BY <1>1, Invariant, PTL

\* A gateway that serves has loaded all of its plugins, in the configured
\* order and under distinct names (from_config, plugin.rs).
THEOREM ServesAllConfiguredHolds == Spec => []ServesAllConfigured
  <1>1. Inv => ServesAllConfigured
    <2> SUFFICES ASSUME Inv, status = "serving" PROVE ServesAllConfigured
      BY DEF ServesAllConfigured
    <2>1. Len(configs) \in Nat /\ Index = 1..Len(configs)
      BY ConfigsAreSequences DEF Inv
    <2>2. next - 1 = Len(configs)
      BY <2>1 DEF Inv
    <2>3. QED BY <2>1, <2>2 DEF Inv, LoadedUpTo, DistinctUpTo, ServesAllConfigured
  <1>2. QED BY <1>1, Invariant, PTL

-----------------------------------------------------------------------------
\* Phases.  The history of a request is put together from sequences.

\* FilterOf(f, p, A, L): f[n] are those of the first n elements of p that are at a
\* position in A.
FilterOf(f, p, A, L) ==
    /\ f \in [0..L -> Seq(Nat)]
    /\ \A n \in 0..L : f[n] = IF n = 0 THEN <<>>
                              ELSE IF n \in A THEN Append(f[n - 1], p[n]) ELSE f[n - 1]

LEMMA FilterExists ==
    ASSUME NEW L \in Nat, NEW p \in [1..L -> Nat], NEW A
    PROVE  \E f : FilterOf(f, p, A, L)
  <1> DEFINE S == {m \in 0..L : ~ \E f : FilterOf(f, p, A, m)}
  <1>1. S \in SUBSET Nat /\ (L \notin S => \E f : FilterOf(f, p, A, L))
    OBVIOUS
  <1>2. SUFFICES ASSUME S # {} PROVE FALSE
    BY <1>1
  <1>3. PICK m \in S : \A k \in S : m <= k
    <2> HIDE DEF S
    <2>1. QED BY <1>1, <1>2, SmallestNat
  <1>4. m # 0
    <2>1. FilterOf([n \in 0..0 |-> <<>>], p, A, 0)
      BY DEF FilterOf
    <2>2. QED BY <1>3, <2>1
  <1>5. m - 1 \in 0..L /\ m \in 1..L /\ m - 1 \in 0..(m - 1) /\ p[m] \in Nat
    BY <1>3, <1>4
  <1>6. PICK g : FilterOf(g, p, A, m - 1)
    BY <1>3, <1>5
  <1> DEFINE more == IF m \in A THEN Append(g[m - 1], p[m]) ELSE g[m - 1]
             f == [n \in 0..m |-> IF n = m THEN more ELSE g[n]]
  <1>7. FilterOf(f, p, A, m)
    <2>1. \A n \in 0..m : n # m => n \in 0..(m - 1)
      BY <1>5
    <2>2. \A n \in 0..(m - 1) : g[n] \in Seq(Nat)
      BY <1>6 DEF FilterOf
    <2>3. more \in Seq(Nat)
      BY <1>5, <2>2
    <2>4. f \in [0..m -> Seq(Nat)]
      BY <2>1, <2>2, <2>3
    <2>5. ASSUME NEW n \in 0..m
          PROVE  f[n] = IF n = 0 THEN <<>>
                        ELSE IF n \in A THEN Append(f[n - 1], p[n]) ELSE f[n - 1]
      <3>1. CASE n = m
        <4>1. f[n] = more /\ n # 0 /\ n - 1 \in 0..m /\ n - 1 # m
          BY <1>5, <3>1
        <4>2. f[n - 1] = g[m - 1]
          BY <3>1, <4>1
        <4>3. QED BY <3>1, <4>1, <4>2
      <3>2. CASE n # m
        <4>1. n \in 0..(m - 1) /\ f[n] = g[n]
          BY <2>1, <2>5, <3>2
        <4>2. g[n] = IF n = 0 THEN <<>>
                     ELSE IF n \in A THEN Append(g[n - 1], p[n]) ELSE g[n - 1]
          BY <1>6, <4>1 DEF FilterOf
        <4>3. n # 0 => f[n - 1] = g[n - 1]
          BY <1>5, <4>1
        <4>4. QED BY <4>1, <4>2, <4>3
      <3>3. QED BY <3>1, <3>2
    <2>6. QED BY <2>4, <2>5 DEF FilterOf
  <1>8. QED BY <1>3, <1>7

\* The plugins that run in a phase are a sequence.
LEMMA RanIsSequence ==
    ASSUME manager.plugins \in Seq(Nat), NEW phase, NEW payload
    PROVE  RanIn(phase, payload) \in Seq(Nat)
  <1> DEFINE plugins == manager.plugins
             asks(n) == phase \in configs[plugins[n]].phases
             denials == {n \in DOMAIN plugins : asks(n) /\ ~Allows(plugins[n], payload)}
             last    == IF denials = {} THEN Len(plugins)
                        ELSE CHOOSE n \in denials : \A m \in denials : n <= m
             ran[n \in 0..last] == IF n = 0 THEN <<>>
                                   ELSE IF asks(n) THEN Append(ran[n - 1], plugins[n])
                                   ELSE ran[n - 1]
  <1>1. RanIn(phase, payload) = ran[last]
    BY DEF RanIn
  <1>2. last \in 0..Len(plugins)
    <2>1. denials \in SUBSET Nat /\ denials \in SUBSET 0..Len(plugins)
      OBVIOUS
    <2> HIDE DEF denials
    <2>2. ASSUME denials # {} PROVE last \in denials
      <3>1. \E n \in denials : \A m \in denials : n <= m
        BY <2>1, <2>2, SmallestNat
      <3>2. QED BY <2>2, <3>1
    <2>3. Len(plugins) \in 0..Len(plugins)
      OBVIOUS
    <2>4. QED BY <2>1, <2>2, <2>3
  <1> HIDE DEF last, denials
  <1> DEFINE p == [n \in 1..last |-> plugins[n]]
             A == {n \in 1..last : asks(n)}
  <1>3. p \in [1..last -> Nat] /\ last \in Nat
    BY <1>2
  <1>4. PICK f : FilterOf(f, p, A, last)
    <2> HIDE DEF p, A
    <2>1. QED BY <1>3, FilterExists
  <1>5. f = [n \in 0..last |-> IF n = 0 THEN <<>>
                               ELSE IF asks(n) THEN Append(f[n - 1], plugins[n])
                               ELSE f[n - 1]]
    <2>1. \A n \in 0..last : n # 0 => n \in 1..last /\ p[n] = plugins[n] /\ (n \in A <=> asks(n))
      BY <1>3
    <2>2. f \in [0..last -> Seq(Nat)]
      BY <1>4 DEF FilterOf
    <2>3. \A n \in 0..last : f[n] = IF n = 0 THEN <<>>
                               ELSE IF n \in A THEN Append(f[n - 1], p[n]) ELSE f[n - 1]
      BY <1>4 DEF FilterOf
    <2> HIDE DEF p, A, asks, plugins
    <2>4. QED BY <2>1, <2>2, <2>3
  <1>6. ran = [n \in 0..last |-> IF n = 0 THEN <<>>
                                 ELSE IF asks(n) THEN Append(ran[n - 1], plugins[n])
                                 ELSE ran[n - 1]]
    <2> HIDE DEF asks, plugins
    <2>1. \E h : h = [n \in 0..last |-> IF n = 0 THEN <<>>
                                 ELSE IF asks(n) THEN Append(h[n - 1], plugins[n])
                                 ELSE h[n - 1]]
      BY <1>5
    <2>2. QED BY <2>1, Zenon
  <1> HIDE DEF ran
  <1>7. \A n \in 0..last : ran[n] \in Seq(Nat)
    <2> DEFINE S == {n \in 0..last : ran[n] \notin Seq(Nat)}
    <2>1. S \in SUBSET Nat
      OBVIOUS
    <2>2. ASSUME S # {} PROVE FALSE
      <3>1. PICK n \in S : \A k \in S : n <= k
        <4> HIDE DEF S
        <4>1. QED BY <2>1, <2>2, SmallestNat
      <3>2. n # 0
        BY <1>3, <1>6, <3>1
      <3>3. n - 1 \in 0..last /\ n \in 1..Len(plugins) /\ n - 1 \notin S
        BY <1>2, <1>3, <3>1, <3>2
      <3>4. ran[n - 1] \in Seq(Nat) /\ plugins[n] \in Nat
        BY <3>3
      <3>5. ran[n] = IF asks(n) THEN Append(ran[n - 1], plugins[n]) ELSE ran[n - 1]
        BY <1>6, <3>1, <3>2
      <3> HIDE DEF asks, plugins
      <3>6. Append(ran[n - 1], plugins[n]) \in Seq(Nat)
        BY <3>4
      <3>7. ran[n] \in Seq(Nat)
        BY <3>4, <3>5, <3>6
      <3>8. QED BY <3>1, <3>7
    <2>3. QED BY <2>2
  <1>8. QED BY <1>1, <1>3, <1>7

\* Flattening up to four sequences puts them behind each other.
LEMMA FlattenFour ==
    ASSUME NEW k \in 1..4, NEW e, e = [i \in 1..k |-> e[i]]
    PROVE  /\ k = 1 => FlattenSeq(e) = e[1]
           /\ k = 2 => FlattenSeq(e) = e[1] \o e[2]
           /\ k = 3 => FlattenSeq(e) = (e[1] \o e[2]) \o e[3]
           /\ k = 4 => FlattenSeq(e) = ((e[1] \o e[2]) \o e[3]) \o e[4]
  <1> DEFINE flatten[i \in 1..Len(e)] == IF i = 1 THEN e[i] ELSE flatten[i - 1] \o e[i]
             two == e[1] \o e[2]
             three == two \o e[3]
             four == three \o e[4]
             g == [i \in 1..k |-> IF i = 1 THEN e[1] ELSE IF i = 2 THEN two
                                  ELSE IF i = 3 THEN three ELSE four]
  <1>1. Len(e) = k
    OBVIOUS
  <1>2. FlattenSeq(e) = flatten[Len(e)]
    <2>1. Len(e) # 0
      BY <1>1
    <2>2. QED BY <2>1, Zenon DEF FlattenSeq
  <1>3. g = [i \in 1..k |-> IF i = 1 THEN e[i] ELSE g[i - 1] \o e[i]]
    <2>1. \A i \in 1..k : i \in {1, 2, 3, 4}
      OBVIOUS
    <2>2. \A i \in 1..k : g[i] = IF i = 1 THEN e[i] ELSE g[i - 1] \o e[i]
      OBVIOUS
    <2>3. QED BY <2>2
  <1>4. flatten = [i \in 1..k |-> IF i = 1 THEN e[i] ELSE flatten[i - 1] \o e[i]]
    <2>1. \E h : h = [i \in 1..Len(e) |-> IF i = 1 THEN e[i] ELSE h[i - 1] \o e[i]]
      BY <1>1, <1>3
    <2>2. QED BY <1>1, <2>1, Zenon
  <1> HIDE DEF flatten, g
  <1>5. \A i \in 1..k : flatten[i] = IF i = 1 THEN e[i] ELSE flatten[i - 1] \o e[i]
    BY <1>4
  <1>6. flatten[1] = e[1]
    BY <1>5
  <1>7. ASSUME k >= 2 PROVE flatten[2] = two
    <2>1. 2 \in 1..k /\ 2 # 1 /\ 2 - 1 = 1
      BY <1>7
    <2>2. QED BY <1>5, <1>6, <2>1
  <1>8. ASSUME k >= 3 PROVE flatten[3] = three
    <2>1. 3 \in 1..k /\ 3 # 1 /\ 3 - 1 = 2 /\ k >= 2
      BY <1>8
    <2>2. QED BY <1>5, <1>7, <2>1
  <1>9. ASSUME k >= 4 PROVE flatten[4] = four
    <2>1. 4 \in 1..k /\ 4 # 1 /\ 4 - 1 = 3 /\ k >= 3
      BY <1>9
    <2>2. QED BY <1>5, <1>8, <2>1
  <1> HIDE DEF two, three, four
  <1>10. /\ k = 1 => FlattenSeq(e) = e[1]
         /\ k = 2 => FlattenSeq(e) = two
         /\ k = 3 => FlattenSeq(e) = three
         /\ k = 4 => FlattenSeq(e) = four
    <2>1. FlattenSeq(e) = flatten[k]
      BY <1>1, <1>2
    <2>2. QED BY <1>6, <1>7, <1>8, <1>9, <2>1
  <1>11. QED BY <1>10, Zenon DEF two, three, four

\* The history of a whole pipeline, by the first phase that denies.
LEMMA PipelineUpTo ==
    ASSUME NEW payload
    PROVE  LET e(phase) == Entries(phase, payload)
               ok(phase) == PhaseAllows(phase, payload)
               two == e("Access") \o e("HeaderFilter")
           IN  /\ ~ok("Access") => PipelineRuns(payload) = e("Access")
               /\ ok("Access") /\ ~ok("HeaderFilter") => PipelineRuns(payload) = two
               /\ ok("Access") /\ ok("HeaderFilter") /\ ~ok("BodyFilter") =>
                    PipelineRuns(payload) = two \o e("BodyFilter")
               /\ ok("Access") /\ ok("HeaderFilter") /\ ok("BodyFilter") =>
                    PipelineRuns(payload) = (two \o e("BodyFilter")) \o e("Log")
  <1> DEFINE ordered == <<"Access", "HeaderFilter", "BodyFilter", "Log">>
             denied  == {n \in 1..4 : ~PhaseAllows(ordered[n], payload)}
             last    == IF denied = {} THEN 4
                        ELSE CHOOSE n \in denied : \A m \in denied : n <= m
             all(k)  == [n \in 1..k |-> Entries(ordered[n], payload)]
  <1>1. PipelineRuns(payload) = FlattenSeq(all(last))
    BY DEF PipelineRuns
  <1>2. \A n \in 1..4 : n \in denied <=> ~PhaseAllows(ordered[n], payload)
    OBVIOUS
  <1>3. denied \in SUBSET 1..4 /\ denied \in SUBSET Nat
    OBVIOUS
  <1> HIDE DEF denied
  <1>4. /\ denied = {} => last = 4
        /\ denied # {} => last \in denied /\ \A m \in denied : last <= m
    <2>1. denied # {} => \E n \in denied : \A m \in denied : n <= m
      BY <1>3, SmallestNat
    <2>2. QED BY <2>1
  <1> HIDE DEF last
  <1>5. last \in 1..4
    <2> HIDE DEF ordered, all
    <2>1. CASE denied = {}
      BY <1>4, <2>1
    <2>2. CASE denied # {}
      <3>1. last \in denied
        BY <1>4, <2>2
      <3>2. QED BY <1>3, <3>1
    <2>3. QED BY <2>1, <2>2
  <1>6. ordered[1] = "Access" /\ ordered[2] = "HeaderFilter"
        /\ ordered[3] = "BodyFilter" /\ ordered[4] = "Log"
    OBVIOUS
  <1> HIDE DEF ordered
  <1>7. /\ 1 \in denied <=> ~PhaseAllows("Access", payload)
        /\ 2 \in denied <=> ~PhaseAllows("HeaderFilter", payload)
        /\ 3 \in denied <=> ~PhaseAllows("BodyFilter", payload)
    BY <1>2, <1>6
  <1>8. /\ 1 \in denied => last = 1
        /\ 1 \notin denied /\ 2 \in denied => last = 2
        /\ 1 \notin denied /\ 2 \notin denied /\ 3 \in denied => last = 3
        /\ 1 \notin denied /\ 2 \notin denied /\ 3 \notin denied => last = 4
    BY <1>3, <1>4, <1>5
  <1>9. /\ last = 1 => PipelineRuns(payload) = all(last)[1]
        /\ last = 2 => PipelineRuns(payload) = all(last)[1] \o all(last)[2]
        /\ last = 3 => PipelineRuns(payload) = (all(last)[1] \o all(last)[2]) \o all(last)[3]
        /\ last = 4 => PipelineRuns(payload)
             = ((all(last)[1] \o all(last)[2]) \o all(last)[3]) \o all(last)[4]
    <2> DEFINE whole == all(last)
    <2>1. whole = [i \in 1..last |-> whole[i]]
      OBVIOUS
    <2> HIDE DEF whole
    <2>2. /\ last = 1 => FlattenSeq(whole) = whole[1]
          /\ last = 2 => FlattenSeq(whole) = whole[1] \o whole[2]
          /\ last = 3 => FlattenSeq(whole) = (whole[1] \o whole[2]) \o whole[3]
          /\ last = 4 => FlattenSeq(whole) = ((whole[1] \o whole[2]) \o whole[3]) \o whole[4]
      BY <1>5, <2>1, FlattenFour
    <2>3. PipelineRuns(payload) = FlattenSeq(whole)
      BY <1>1 DEF whole
    <2>4. QED BY <2>2, <2>3, Zenon DEF whole
  <1>10. /\ last \in {1, 2, 3, 4} => all(last)[1] = Entries("Access", payload)
         /\ last \in {2, 3, 4} => all(last)[2] = Entries("HeaderFilter", payload)
         /\ last \in {3, 4} => all(last)[3] = Entries("BodyFilter", payload)
         /\ last \in {4} => all(last)[4] = Entries("Log", payload)
    BY <1>6
  <1> HIDE DEF all
  <1> DEFINE two == Entries("Access", payload) \o Entries("HeaderFilter", payload)
  <1>11. /\ last = 1 => PipelineRuns(payload) = Entries("Access", payload)
         /\ last = 2 => PipelineRuns(payload) = two
         /\ last = 3 => PipelineRuns(payload) = two \o Entries("BodyFilter", payload)
         /\ last = 4 => PipelineRuns(payload)
              = (two \o Entries("BodyFilter", payload)) \o Entries("Log", payload)
    BY <1>9, <1>10, Zenon
  <1> HIDE DEF two
  <1>12. QED BY <1>7, <1>8, <1>11, Zenon DEF two

\* What is a prefix stays one when more is put behind.
LEMMA PrefixGrows ==
    ASSUME NEW X, NEW a \in Seq(X), NEW b \in Seq(X), NEW c \in Seq(X), IsPrefix(a, b)
    PROVE  IsPrefix(a, b \o c) /\ IsPrefix(a, a) /\ b \o c \in Seq(X)
  <1>1. Len(a) <= Len(b) /\ SubSeq(a, 1, Len(a)) = SubSeq(b, 1, Len(a))
    BY DEF IsPrefix
  <1>2. SubSeq(b \o c, 1, Len(a)) = SubSeq(b, 1, Len(a))
    BY <1>1
  <1>3. Len(a) <= Len(b \o c) /\ b \o c \in Seq(X)
    BY <1>1
  <1>4. QED BY <1>1, <1>2, <1>3 DEF IsPrefix

\* What one phase adds is a sequence.
LEMMA EntriesAreSequence ==
    ASSUME manager.plugins \in Seq(Nat), NEW P, NEW phase \in P, NEW payload
    PROVE  Entries(phase, payload) \in Seq(P \X Nat)
  <1> DEFINE ran == RanIn(phase, payload)
  <1>1. ran \in Seq(Nat)
    BY RanIsSequence
  <1> HIDE DEF ran
  <1>2. [n \in DOMAIN ran |-> <<phase, ran[n]>>] \in Seq(P \X Nat)
    <2>1. DOMAIN ran = 1..Len(ran) /\ Len(ran) \in Nat
      BY <1>1
    <2>2. \A n \in 1..Len(ran) : <<phase, ran[n]>> \in P \X Nat
      BY <1>1
    <2>3. QED BY <2>1, <2>2
  <1>3. QED BY <1>2 DEF Entries, ran

\* The phases look at the plugins and at nothing else.
LEMMA PhasesUnchanged ==
    ASSUME UNCHANGED <<configs, manager>>, NEW phase, NEW payload
    PROVE  /\ PhaseAllows(phase, payload)' <=> PhaseAllows(phase, payload)
           /\ Entries(phase, payload)' = Entries(phase, payload)
           /\ PipelineRuns(payload)' = PipelineRuns(payload)
           /\ BeforeLogAllow(payload)' <=> BeforeLogAllow(payload)
  <1>1. PhaseAllows(phase, payload)' <=> PhaseAllows(phase, payload)
    BY DEF PhaseAllows, Allows
  <1>2. RanIn(phase, payload)' = RanIn(phase, payload)
    BY DEF RanIn, Allows
  <1>3. Entries(phase, payload)' = Entries(phase, payload)
    BY <1>2 DEF Entries
  <1>4. PipelineRuns(payload)' = PipelineRuns(payload)
    BY DEF PipelineRuns, PhaseAllows, Entries, RanIn, Allows
  <1>5. BeforeLogAllow(payload)' <=> BeforeLogAllow(payload)
    BY DEF BeforeLogAllow, PhaseAllows, Allows
  <1>6. QED BY <1>1, <1>3, <1>4, <1>5

\* What the history of a handler says at each place of proxy_handler.
Recorded(h) ==
    /\ h.at \in {"proxying", "ended"} =>
         /\ PhaseAllows("Access", h.payload)
         /\ h.ran = Entries("Access", h.payload)
    /\ h.at \in {"answered", "blocked"} => h.ran = PipelineRuns(h.payload)
    /\ h.at = "answered" => BeforeLogAllow(h.payload)
    /\ h.at = "blocked" => ~BeforeLogAllow(h.payload)

\* The inductive invariant of the handlers: none has begun while plugins are
\* loaded, none is between its phases unless the gateway serves, and while it
\* serves each has run what its place says.
Piped ==
    /\ req = [r \in Request |-> [at |-> req[r].at, payload |-> req[r].payload,
                                 ran |-> req[r].ran]]
    /\ status = "loading" => \A r \in Request : req[r].at = "idle"
    /\ status # "serving" => \A r \in Request : req[r].at # "proxying"
    /\ status = "serving" => \A r \in Request : Recorded(req[r])

\* The record of a handler with another place and history.
LEMMA HandlerMoves ==
    ASSUME NEW h, h = [at |-> h.at, payload |-> h.payload, ran |-> h.ran],
           NEW at, NEW ran, NEW m, NEW k,
           m = [h EXCEPT !.at = at, !.ran = ran], k = [h EXCEPT !.at = at]
    PROVE  /\ m = [at |-> at, payload |-> h.payload, ran |-> ran]
           /\ k = [at |-> at, payload |-> h.payload, ran |-> h.ran]
  <1>1. PICK a, b, c : a = h.at /\ b = h.payload /\ c = h.ran
    OBVIOUS
  <1>2. h = [at |-> a, payload |-> b, ran |-> c]
    BY <1>1
  <1>3. m = [at |-> at, payload |-> b, ran |-> ran]
    BY <1>2
  <1>4. k = [at |-> at, payload |-> b, ran |-> c]
    BY <1>2
  <1>5. QED BY <1>1, <1>3, <1>4

\* run_response_plugin_phases continues what the access phase has begun.
LEMMA RespondRecords ==
    ASSUME NEW h, NEW g, Recorded(h), h.at = "proxying",
           h = [at |-> h.at, payload |-> h.payload, ran |-> h.ran],
           g = LET p == h.payload
                   header == Entries("HeaderFilter", p)
                   body   == Entries("BodyFilter", p)
                   log    == Entries("Log", p)
               IN  CASE ~PhaseAllows("HeaderFilter", p) ->
                          [h EXCEPT !.at = "blocked", !.ran = h.ran \o header]
                     [] PhaseAllows("HeaderFilter", p) /\ ~PhaseAllows("BodyFilter", p) ->
                          [h EXCEPT !.at = "blocked", !.ran = h.ran \o header \o body]
                     [] OTHER ->
                          [h EXCEPT !.at = "answered", !.ran = h.ran \o header \o body \o log]
    PROVE  /\ g = [at |-> g.at, payload |-> h.payload, ran |-> PipelineRuns(h.payload)]
           /\ \/ g.at = "blocked" /\ ~BeforeLogAllow(h.payload)
              \/ g.at = "answered" /\ BeforeLogAllow(h.payload)
  <1> DEFINE p == h.payload
             access == Entries("Access", p)
             header == Entries("HeaderFilter", p)
             body   == Entries("BodyFilter", p)
             log    == Entries("Log", p)
             headerAllows == PhaseAllows("HeaderFilter", p)
             bodyAllows   == PhaseAllows("BodyFilter", p)
             passes       == BeforeLogAllow(p)
             done(at, ran) == [at |-> at, payload |-> p, ran |-> ran]
  <1>1. PhaseAllows("Access", p) /\ h.ran = access
    BY DEF Recorded
  <1>2. /\ ~headerAllows => PipelineRuns(p) = access \o header
        /\ headerAllows /\ ~bodyAllows => PipelineRuns(p) = (access \o header) \o body
        /\ headerAllows /\ bodyAllows =>
             PipelineRuns(p) = ((access \o header) \o body) \o log
    BY <1>1, PipelineUpTo
  <1>3. passes <=> headerAllows /\ bodyAllows
    BY <1>1 DEF BeforeLogAllow
  <1>4. ASSUME NEW at, NEW ran
        PROVE  [h EXCEPT !.at = at, !.ran = ran] = done(at, ran)
    <2>1. PICK m, k : m = [h EXCEPT !.at = at, !.ran = ran] /\ k = [h EXCEPT !.at = at]
      OBVIOUS
    <2>2. m = [at |-> at, payload |-> h.payload, ran |-> ran]
      BY <2>1, HandlerMoves, Zenon
    <2>3. QED BY <2>1, <2>2, Zenon
  <1> HIDE DEF access, header, body, log, headerAllows, bodyAllows, passes, done
  <1>5. /\ ~headerAllows => g = done("blocked", access \o header)
        /\ headerAllows /\ ~bodyAllows => g = done("blocked", (access \o header) \o body)
        /\ headerAllows /\ bodyAllows =>
             g = done("answered", ((access \o header) \o body) \o log)
    BY <1>1, <1>4 DEF header, body, log, headerAllows, bodyAllows
  <1>6. \/ g = done("blocked", PipelineRuns(p)) /\ ~passes
        \/ g = done("answered", PipelineRuns(p)) /\ passes
    BY <1>2, <1>5, <1>3, Zenon
  <1>7. QED BY <1>6 DEF done, passes

\* One handler moves and the others stay.
LEMMA OneHandlerMoves ==
    ASSUME Piped, NEW r \in Request, NEW g, status = "serving",
           UNCHANGED <<configs, status, manager>>,
           req' = [req EXCEPT ![r] = g],
           g = [at |-> g.at, payload |-> g.payload, ran |-> g.ran], Recorded(g)
    PROVE  Piped'
  <1> DEFINE rec(h) == [at |-> h.at, payload |-> h.payload, ran |-> h.ran]
  <1>1. req = [s \in Request |-> rec(req[s])]
    BY DEF Piped
  <1>2. /\ DOMAIN req = Request
        /\ \A s \in Request : req[s] = rec(req[s])
    BY <1>1
  <1>3. g = rec(g)
    OBVIOUS
  <1> HIDE DEF rec
  <1>4. \A s \in Request : req'[s] = IF s = r THEN g ELSE req[s]
    BY <1>2
  <1>5. \A s \in Request : req'[s] = rec(req'[s])
    BY <1>2, <1>3, <1>4
  <1>6. req' = [s \in Request |-> rec(req'[s])]
    <2>1. req' = [s \in Request |-> req'[s]]
      BY <1>2
    <2>2. QED BY <1>5, <2>1
  <1>7. ASSUME NEW s \in Request, status' = "serving" PROVE Recorded(req[s])'
    <2>1. Recorded(req'[s])
      BY <1>4, <1>7 DEF Piped
    <2>2. \A p : /\ PhaseAllows("Access", p)' <=> PhaseAllows("Access", p)
                 /\ Entries("Access", p)' = Entries("Access", p)
                 /\ PipelineRuns(p)' = PipelineRuns(p)
                 /\ BeforeLogAllow(p)' <=> BeforeLogAllow(p)
      BY PhasesUnchanged
    <2>3. QED BY <2>1, <2>2 DEF Recorded
  <1>8. QED BY <1>6, <1>7 DEF Piped, rec

LEMMA InitPiped == Init => Piped
  BY DEF Init, Piped

LEMMA NextPiped == Piped /\ [Next]_vars => Piped'
  <1> SUFFICES ASSUME Piped, [Next]_vars PROVE Piped'
    OBVIOUS
  <1>1. CASE LoadNext
    <2>1. req' = req /\ (status' = "failed" \/ status' = status) /\ status = "loading"
      BY <1>1 DEF LoadNext, Failed
    <2>2. QED BY <2>1 DEF Piped
  <1>2. CASE Serve
    BY <1>2 DEF Serve, Piped, Recorded
  <1>3. ASSUME NEW r \in Request, NEW payload \in Payload, Access(r, payload)
        PROVE  Piped'
    <2> DEFINE g == [ at |-> IF PhaseAllows("Access", payload) THEN "proxying" ELSE "blocked",
                      payload |-> payload, ran |-> Entries("Access", payload) ]
    <2>1. g.payload = payload /\ g.ran = Entries("Access", payload)
          /\ (PhaseAllows("Access", payload) => g.at = "proxying")
          /\ (~PhaseAllows("Access", payload) => g.at = "blocked")
          /\ g = [at |-> g.at, payload |-> g.payload, ran |-> g.ran]
      OBVIOUS
    <2>2. req' = [req EXCEPT ![r] = g] /\ status = "serving"
          /\ UNCHANGED <<configs, status, manager>>
      BY <1>3 DEF Access
    <2> HIDE DEF g
    <2>3. ~PhaseAllows("Access", payload) => PipelineRuns(payload) = Entries("Access", payload)
      BY PipelineUpTo
    <2>4. ~PhaseAllows("Access", payload) => ~BeforeLogAllow(payload)
      BY DEF BeforeLogAllow
    <2>5. Recorded(g)
      BY <2>1, <2>3, <2>4 DEF Recorded
    <2>6. QED BY <2>1, <2>2, <2>5, OneHandlerMoves
  <1>4. ASSUME NEW r \in Request, EndEarly(r)
        PROVE  Piped'
    <2> DEFINE h == req[r]
               g == [h EXCEPT !.at = "ended"]
    <2>1. h = [at |-> h.at, payload |-> h.payload, ran |-> h.ran]
      BY DEF Piped
    <2>2. req' = [req EXCEPT ![r] = g] /\ status = "serving" /\ h.at = "proxying"
          /\ UNCHANGED <<configs, status, manager>>
      BY <1>4 DEF EndEarly, Piped
    <2>3. Recorded(h)
      BY <2>2 DEF Piped
    <2> HIDE DEF h
    <2>4. g = [at |-> "ended", payload |-> h.payload, ran |-> h.ran]
      BY <2>1, HandlerMoves
    <2> HIDE DEF g
    <2>5. g = [at |-> g.at, payload |-> g.payload, ran |-> g.ran]
          /\ g.at = "ended" /\ g.payload = h.payload /\ g.ran = h.ran
      BY <2>4
    <2>6. Recorded(g)
      BY <2>2, <2>3, <2>5 DEF Recorded
    <2>7. QED BY <2>2, <2>5, <2>6, OneHandlerMoves
  <1>5. ASSUME NEW r \in Request, Respond(r)
        PROVE  Piped'
    <2> DEFINE h == req[r]
               p == h.payload
               header == Entries("HeaderFilter", p)
               body   == Entries("BodyFilter", p)
               log    == Entries("Log", p)
               g == CASE ~PhaseAllows("HeaderFilter", p) ->
                           [h EXCEPT !.at = "blocked", !.ran = h.ran \o header]
                      [] PhaseAllows("HeaderFilter", p) /\ ~PhaseAllows("BodyFilter", p) ->
                           [h EXCEPT !.at = "blocked", !.ran = h.ran \o header \o body]
                      [] OTHER ->
                           [h EXCEPT !.at = "answered", !.ran = h.ran \o header \o body \o log]
    <2>1. h = [at |-> h.at, payload |-> h.payload, ran |-> h.ran]
      BY DEF Piped
    <2>2. h.at = "proxying" /\ status = "serving"
          /\ UNCHANGED <<configs, status, manager>>
      BY <1>5 DEF Respond, Piped
    <2>3. req' = [req EXCEPT ![r] = g]
      BY <1>5, Zenon DEF Respond
    <2>4. Recorded(h)
      BY <2>2 DEF Piped
    <2>5. /\ g = [at |-> g.at, payload |-> p, ran |-> PipelineRuns(p)]
          /\ \/ g.at = "blocked" /\ ~BeforeLogAllow(p)
             \/ g.at = "answered" /\ BeforeLogAllow(p)
      <3> HIDE DEF h
      <3>1. QED BY <2>1, <2>2, <2>4, RespondRecords
    <2> HIDE DEF g
    <2>6. /\ g.payload = p /\ g.ran = PipelineRuns(p)
          /\ g = [at |-> g.at, payload |-> g.payload, ran |-> g.ran]
      BY <2>5
    <2> HIDE DEF h
    <2>7. Recorded(g)
      BY <2>5, <2>6 DEF Recorded
    <2>8. QED BY <2>2, <2>3, <2>6, <2>7, OneHandlerMoves
  <1>6. CASE Stop
    BY <1>6 DEF Stop, Piped
  <1>7. CASE UNCHANGED vars
    <2>1. \A p : /\ PhaseAllows("Access", p)' <=> PhaseAllows("Access", p)
                 /\ Entries("Access", p)' = Entries("Access", p)
                 /\ PipelineRuns(p)' = PipelineRuns(p)
                 /\ BeforeLogAllow(p)' <=> BeforeLogAllow(p)
      BY <1>7, PhasesUnchanged DEF vars
    <2>2. QED BY <1>7, <2>1 DEF vars, Piped, Recorded
  <1>8. QED BY <1>1, <1>2, <1>3, <1>4, <1>5, <1>6, <1>7 DEF Next

\* The phases proxy_handler runs for a request, before and after forwarding, are
\* those of run_request_pipeline: the same plugins in the same order, up to the
\* same denial, and a prefix of them when the handler ends early; and it is
\* blocked exactly when a phase before the log phase denies, whatever the log
\* phase says (main.rs:242,406,502-531; plugin.rs:197-234).
THEOREM HandlerRunsPipelineHolds == Spec => []HandlerRunsPipeline
  <1>1. Inv /\ Piped => HandlerRunsPipeline
    <2> SUFFICES ASSUME Inv, Piped, NEW r \in Request, status = "serving"
                 PROVE  /\ req[r].at \in {"answered", "blocked"} =>
                             req[r].ran = PipelineRuns(req[r].payload)
                        /\ req[r].at = "answered" => BeforeLogAllow(req[r].payload)
                        /\ req[r].at = "blocked" => ~BeforeLogAllow(req[r].payload)
                        /\ req[r].at = "ended" =>
                             IsPrefix(req[r].ran, PipelineRuns(req[r].payload))
      BY DEF HandlerRunsPipeline
    <2> DEFINE h == req[r]
               p == h.payload
               e(phase) == Entries(phase, p)
               two == e("Access") \o e("HeaderFilter")
               three == two \o e("BodyFilter")
               P == {"Access", "HeaderFilter", "BodyFilter", "Log"}
    <2>1. Recorded(h)
      BY DEF Piped
    <2>2. manager.plugins \in Seq(Nat)
      <3>1. Len(configs) \in Nat
        BY ConfigsAreSequences DEF Inv
      <3>2. next - 1 \in Nat /\ manager.plugins = [i \in 1..(next - 1) |-> i]
        BY <3>1 DEF Inv, LoadedUpTo
      <3>3. QED BY <3>2
    <2>4. ASSUME h.at = "ended" PROVE IsPrefix(h.ran, PipelineRuns(p))
      <3>1. PhaseAllows("Access", p) /\ h.ran = e("Access")
        BY <2>1, <2>4 DEF Recorded
      <3>2. PipelineRuns(p) \in {two, three, three \o e("Log")}
        BY <3>1, PipelineUpTo
      <3>3. \A phase \in P : e(phase) \in Seq(P \X Nat)
        <4> HIDE DEF P
        <4>1. QED BY <2>2, EntriesAreSequence
      <3> HIDE DEF e
      <3>4. IsPrefix(e("Access"), e("Access"))
        BY <3>3 DEF IsPrefix
      <3>5. IsPrefix(e("Access"), two) /\ two \in Seq(P \X Nat)
        BY <3>3, <3>4, PrefixGrows
      <3> HIDE DEF two
      <3>6. IsPrefix(e("Access"), three) /\ three \in Seq(P \X Nat)
        BY <3>3, <3>5, PrefixGrows
      <3> HIDE DEF three
      <3>7. IsPrefix(e("Access"), three \o e("Log"))
        BY <3>3, <3>6, PrefixGrows
      <3>8. QED BY <3>1, <3>2, <3>5, <3>6, <3>7
    <2>5. QED BY <2>1, <2>4 DEF Recorded
  <1>2. Spec => []Piped
    BY InitPiped, NextPiped, PTL DEF Spec
  <1>3. QED BY <1>1, <1>2, Invariant, PTL
=============================================================================
