--------------------------- MODULE MCPluginManager ---------------------------
(* Instances of PluginManager: every list of up to three of these plugins. *)
EXTENDS PluginManager

Plugin(name, runtime, phases) ==
    [ name |-> name, module |-> "m", runtime |-> runtime,
      contract_version |-> 1, phases |-> phases,
      capabilities |-> {"ReadHeaders"}, wasm_path |-> "file" ]

\* default_plugin_phases
Everything == Plugin("native", "native", Phase)
Gatekeeper == Plugin("gatekeeper", "wasm", {"Access", "Log"})
Filter     == Plugin("filter", "wasm", {"HeaderFilter", "Log"})
Rewriter   == Plugin("rewriter", "wasm", {"BodyFilter"})
Audit      == Plugin("audit", "wasm", {"Log"})
Broken     == [Plugin("broken", "wasm", {"Access"}) EXCEPT !.wasm_path = "dangling"]
Faulty     == Plugin("faulty", "native", {"Access"})

Lists(plugins) == UNION {[1..n -> plugins] : n \in 0..3}

AllLists == Lists({Everything, Gatekeeper, Filter, Rewriter, Audit, Broken, Faulty})

Symmetry == Permutations(Request)
=============================================================================
