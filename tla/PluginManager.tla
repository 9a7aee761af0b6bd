---------------------------- MODULE PluginManager ----------------------------
(***************************************************************************)
(* PluginManager (plugin.rs): loading the configured plugins, running      *)
(* their phases for the requests of proxy_handler (main.rs), and tearing   *)
(* them down.                                                              *)
(*                                                                         *)
(* Loading happens before the gateway serves requests and is sequential:   *)
(* one step per configured plugin.  Plugins do not change while requests   *)
(* are served, so a phase is one step of its request; a handler may be     *)
(* dropped, or return for another reason, between two of them.             *)
(*                                                                         *)
(* A configuration is abstracted to what loading looks at.  The strings    *)
(* that name runtimes, phases and capabilities are taken as parsed: one    *)
(* that does not parse is Unknown.  A plugin is identified by its place in *)
(* the configuration.                                                      *)
(***************************************************************************)
EXTENDS Integers, SequencesExt

CONSTANTS
    Configs,           \* the plugin lists the gateway may be started with
    FailingInit,       \* names of plugins whose own init() returns an error;
                       \* DeclaredPlugin keeps the trait's, which succeeds
    Request,           \* requests
    ContractVersion    \* PLUGIN_CONTRACT_VERSION

Unknown == "unknown"
Blank == ""

\* WasmPhase, in its order, and WasmCapability.
Phases == <<"Init", "Access", "HeaderFilter", "BodyFilter", "Log">>
Phase == Range(Phases)
Capability == {"ReadHeaders", "WriteHeaders", "ReadBody", "WriteBody",
               "RewritePath", "EmitLogs"}

\* A serialised PluginContext is within MAX_WASM_PAYLOAD_BYTES or above it.
Payload == {"fits", "too large"}

PluginConfig ==
    [ name: STRING, module: STRING, runtime: {"native", "wasm", Unknown},
      contract_version: Nat, phases: SUBSET (Phase \union {Unknown}),
      capabilities: SUBSET (Capability \union {Unknown}),
      wasm_path: {"none", "dangling", "file"} ]

ASSUME PluginAssumption ==
    /\ \A list \in Configs : \A i \in DOMAIN list : list[i] \in PluginConfig
    /\ Configs \subseteq Seq(UNION {Range(list) : list \in Configs})
    /\ ContractVersion \in Nat

VARIABLES
    configs,           \* GatewayConfig.plugins
    status,            \* loading, serving, failed or stopped
    next,              \* from_config: the plugin it is about to load
    manager,           \* PluginManager.plugins, and as history how often each
                       \* plugin has been initialised and torn down
    req                \* per request: its payload, where its handler is, and as
                       \* history which plugin ran in which phase

vars == <<configs, status, next, manager, req>>

Index == DOMAIN configs

\* PluginManager::new, and no request yet.
Init ==
    /\ configs \in Configs
    /\ status = "loading"
    /\ next = 1
    /\ manager = [ plugins |-> <<>>,
                   inits   |-> [i \in Index |-> 0],
                   torn    |-> [i \in Index |-> 0] ]
    /\ req = [r \in Request |-> [at |-> "idle", payload |-> "fits", ran |-> <<>>]]

-----------------------------------------------------------------------------
\* Loading.

\* build_declared_plugin: the schema is valid, everything parses, and a wasm
\* plugin has its file.
Builds(cfg) ==
    /\ cfg.name # Blank /\ cfg.module # Blank
    /\ cfg.contract_version = ContractVersion
    /\ cfg.phases # {}
    /\ cfg.runtime # Unknown
    /\ Unknown \notin cfg.phases
    /\ Unknown \notin cfg.capabilities
    /\ cfg.runtime = "wasm" => cfg.wasm_path = "file"

\* Mutant: the list is not cleared, so Drop finds the plugins again.
RolledBackKeepsList(m) ==
    [m EXCEPT !.torn = [i \in DOMAIN @ |->
                          IF i \in Range(m.plugins) THEN @[i] + 1 ELSE @[i]]]

\* rollback_lifecycle
RolledBack(m) ==
    [m EXCEPT !.plugins = <<>>,
              !.torn = [i \in DOMAIN @ |->
                          IF i \in Range(m.plugins) THEN @[i] + 1 ELSE @[i]]]

\* from_config returns an error: the manager m is dropped, and Drop rolls it
\* back whether or not that has been done before.
Failed(m) ==
    /\ status' = "failed"
    /\ manager' = RolledBack(m)
    /\ UNCHANGED next

\* Mutant: names are not compared.
DuplicateNever == FALSE

\* seen.insert(cfg.name)
Duplicate == \E i \in 1..(next - 1) : configs[i].name = configs[next].name

\* register: the contract version, which building has checked already, and
\* init().  A plugin whose init() fails is dropped and not torn down.
Registers(cfg) ==
    /\ cfg.contract_version = ContractVersion
    /\ cfg.name \notin FailingInit

\* One round of the loop of from_config.
LoadNext ==
    /\ status = "loading" /\ next \in Index
    /\ \/ Duplicate /\ Failed(RolledBack(manager))
       \/ ~Duplicate /\ ~Builds(configs[next]) /\ Failed(manager)
       \/ /\ ~Duplicate /\ Builds(configs[next]) /\ ~Registers(configs[next])
          /\ Failed(RolledBack(manager))
       \/ /\ ~Duplicate /\ Builds(configs[next]) /\ Registers(configs[next])
          /\ manager' = [manager EXCEPT !.plugins = Append(@, next),
                                        !.inits[next] = @ + 1]
          /\ next' = next + 1
          /\ UNCHANGED status
    /\ UNCHANGED <<configs, req>>

\* The loop has ended and the gateway starts.
Serve ==
    /\ status = "loading" /\ next \notin Index
    /\ status' = "serving"
    /\ UNCHANGED <<configs, next, manager, req>>

-----------------------------------------------------------------------------
\* Phases.

\* DeclaredPlugin::execute: a native plugin passes everything on.  The sandbox
\* of a wasm plugin refuses a payload above its limit; the capabilities it
\* allows are the ones the plugin was declared to require, so that check passes.
Allows(i, payload) == configs[i].runtime = "wasm" => payload = "fits"

\* run_phase: the plugins that run.  They are asked in the order in which they
\* were registered, up to the first that denies.
RanIn(phase, payload) ==
    LET plugins == manager.plugins
        asks(n) == phase \in configs[plugins[n]].phases
        denials == {n \in DOMAIN plugins : asks(n) /\ ~Allows(plugins[n], payload)}
        last    == IF denials = {} THEN Len(plugins)
                   ELSE CHOOSE n \in denials : \A m \in denials : n <= m
        ran[n \in 0..last] == IF n = 0 THEN <<>>
                              ELSE IF asks(n) THEN Append(ran[n - 1], plugins[n])
                              ELSE ran[n - 1]
    IN  ran[last]

\* run_phase: the result.
PhaseAllows(phase, payload) ==
    \A i \in Range(manager.plugins) :
        phase \in configs[i].phases => Allows(i, payload)

\* What running one phase adds to the history of a request.
Entries(phase, payload) ==
    LET ran == RanIn(phase, payload)
    IN  [n \in DOMAIN ran |-> <<phase, ran[n]>>]

\* The access phase of a request.
Access(r, payload) ==
    /\ status = "serving"
    /\ req[r].at = "idle"
    /\ req' = [req EXCEPT ![r] =
         [ at |-> IF PhaseAllows("Access", payload) THEN "proxying" ELSE "blocked",
           payload |-> payload,
           ran |-> Entries("Access", payload) ]]
    /\ UNCHANGED <<configs, status, next, manager>>

\* The handler ends before its response phases: another gate refused the
\* request, no upstream answered, or the client has left.
EndEarly(r) ==
    /\ req[r].at = "proxying"
    /\ req' = [req EXCEPT ![r].at = "ended"]
    /\ UNCHANGED <<configs, status, next, manager>>

\* Mutant: a denial by the log phase blocks the response.
RespondLogBlocks(r) ==
    /\ req[r].at = "proxying"
    /\ LET h == req[r]
           p == h.payload
           header == Entries("HeaderFilter", p)
           body   == Entries("BodyFilter", p)
           log    == Entries("Log", p)
       IN  req' = [req EXCEPT ![r] =
             CASE ~PhaseAllows("HeaderFilter", p) ->
                    [h EXCEPT !.at = "blocked", !.ran = h.ran \o header]
               [] PhaseAllows("HeaderFilter", p) /\ ~PhaseAllows("BodyFilter", p) ->
                    [h EXCEPT !.at = "blocked", !.ran = h.ran \o header \o body]
               [] OTHER ->
                    [h EXCEPT !.at = IF PhaseAllows("Log", p) THEN "answered"
                                                              ELSE "blocked",
                              !.ran = h.ran \o header \o body \o log]]
    /\ UNCHANGED <<configs, status, next, manager>>

\* run_response_plugin_phases: what the log phase says is ignored.
Respond(r) ==
    /\ req[r].at = "proxying"
    /\ LET h == req[r]
           p == h.payload
           header == Entries("HeaderFilter", p)
           body   == Entries("BodyFilter", p)
           log    == Entries("Log", p)
       IN  req' = [req EXCEPT ![r] =
             CASE ~PhaseAllows("HeaderFilter", p) ->
                    [h EXCEPT !.at = "blocked", !.ran = h.ran \o header]
               [] PhaseAllows("HeaderFilter", p) /\ ~PhaseAllows("BodyFilter", p) ->
                    [h EXCEPT !.at = "blocked", !.ran = h.ran \o header \o body]
               [] OTHER ->
                    [h EXCEPT !.at = "answered", !.ran = h.ran \o header \o body \o log]]
    /\ UNCHANGED <<configs, status, next, manager>>

\* The server has stopped, every handler has let go of the state, and the
\* manager is dropped.
Stop ==
    /\ status = "serving"
    /\ \A r \in Request : req[r].at # "proxying"
    /\ status' = "stopped"
    /\ manager' = RolledBack(manager)
    /\ UNCHANGED <<configs, next, req>>

Next ==
    \/ LoadNext
    \/ Serve
    \/ \E r \in Request, payload \in Payload : Access(r, payload)
    \/ \E r \in Request : EndEarly(r)
    \/ \E r \in Request : Respond(r)
    \/ Stop

Spec == Init /\ [][Next]_vars

-----------------------------------------------------------------------------
\* Correctness.

\* However loading ends and whenever the process stops, each plugin that was
\* initialised is torn down exactly once and no other is; while the gateway
\* serves, none is (plugin.rs:163-176,236-250; README.md:18 "lifecycle
\* rollback on registration failure").
TornDownOnce ==
    IF status \in {"failed", "stopped"}
    THEN manager.torn = manager.inits /\ manager.plugins = <<>>
    ELSE manager.torn = [i \in Index |-> 0]

\* A gateway that serves runs all the configured plugins, in the configured
\* order and under distinct names: loading is all or nothing.
ServesAllConfigured ==
    status = "serving" =>
        /\ manager.plugins = [i \in 1..Len(configs) |-> i]
        /\ \A i, j \in Index : configs[i].name = configs[j].name => i = j

\* run_request_pipeline: the phases in order, up to the first that denies.
PipelineRuns(payload) ==
    LET ordered == <<"Access", "HeaderFilter", "BodyFilter", "Log">>
        denied  == {n \in 1..4 : ~PhaseAllows(ordered[n], payload)}
        last    == IF denied = {} THEN 4
                   ELSE CHOOSE n \in denied : \A m \in denied : n <= m
    IN  FlattenSeq([n \in 1..last |-> Entries(ordered[n], payload)])

\* No phase before the log phase denies.
BeforeLogAllow(payload) ==
    \A phase \in {"Access", "HeaderFilter", "BodyFilter"} :
        PhaseAllows(phase, payload)

\* The phases proxy_handler runs in two places of its code are those of
\* run_request_pipeline: the same plugins in the same order, cut off at the same
\* denial.  A request is blocked exactly when a phase before the log phase
\* denies; a log phase that denies blocks nothing (main.rs:242,406,502-531).
HandlerRunsPipeline ==
    \A r \in Request :
        status = "serving" =>
          /\ req[r].at \in {"answered", "blocked"} =>
               req[r].ran = PipelineRuns(req[r].payload)
          /\ req[r].at = "answered" => BeforeLogAllow(req[r].payload)
          /\ req[r].at = "blocked" => ~BeforeLogAllow(req[r].payload)
          /\ req[r].at = "ended" =>
               IsPrefix(req[r].ran, PipelineRuns(req[r].payload))
=============================================================================
