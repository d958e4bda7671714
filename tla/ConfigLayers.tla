----------------------------- MODULE ConfigLayers -----------------------------
(***************************************************************************)
(* resolve_config() (src/spotter/config.py): the effective configuration   *)
(* of defaults, the operator's global file, the repository's file, an      *)
(* explicitly selected file and the mode preset, in this order.            *)
(*                                                                         *)
(* A layer is a function from the settings it mentions to their values;    *)
(* a setting is observe (observation_only), mcp (mcp_semantics), onSignals,*)
(* deliver (reviewer.deliver_on_signals), paths (gates.forbidden_paths) or *)
(* block (gates.block_dependency_changes).  Wrong stands for a value of    *)
(* the wrong type.                                                         *)
(***************************************************************************)
EXTENDS Naturals

CONSTANTS
    Absent,         \* there is no such file
    Unparsable,     \* a file that is not UTF-8 TOML, or of another schema
    SameFile,       \* the explicitly selected file is the repository's
    Refused,        \* resolution raises: nothing is activated
    Wrong

ASSUME LayerAssumption == Absent # Unparsable

Settings == {"observe", "mcp", "onSignals", "deliver", "paths", "block"}

Defaults == [observe |-> TRUE, mcp |-> 0, onSignals |-> FALSE, deliver |-> FALSE,
             paths |-> {}, block |-> FALSE]

\* supervision_mode_settings(): the only contents of mode.toml that are accepted.
Preset(mode) == [observe |-> mode = "observe", onSignals |-> mode = "advisory",
                 deliver |-> mode = "advisory"]

Typed(config) == \A s \in Settings : config[s] # Wrong

\* from_mapping()
WellFormed(config) ==
    /\ Typed(config)
    /\ config.deliver => config.onSignals /\ ~config.observe

\* _deep_merge(): scalars and lists are replaced.
Merge(config, layer) ==
    [s \in Settings |-> IF s \in DOMAIN layer THEN layer[s] ELSE config[s]]

\* Mutant: the repository's gates replace the operator's.
MergeRepositoryOver(config, layer) ==
    Merge(config, [s \in DOMAIN layer \ {"observe", "mcp"} |-> layer[s]])

\* _merge_repository_layer()
MergeRepository(config, layer) ==
    LET plain == [s \in DOMAIN layer \ {"observe", "mcp", "paths", "block"} |-> layer[s]]
        paths == IF "paths" \notin DOMAIN layer THEN config.paths
                 ELSE IF Wrong \in {layer.paths, config.paths} THEN Wrong
                 ELSE config.paths \cup layer.paths
        block == IF "block" \notin DOMAIN layer THEN config.block
                 ELSE IF Wrong \in {layer.block, config.block} THEN layer.block
                 ELSE config.block \/ layer.block
    IN  [Merge(config, plain) EXCEPT !.paths = paths, !.block = block]

\* The repository's file is applied if what it gives is well-formed, else ignored.
WithRepository(config, layer) ==
    IF layer \in {Absent, Unparsable} THEN config
    ELSE LET candidate == MergeRepository(config, layer)
         IN  IF WellFormed(candidate) THEN candidate ELSE config

WithLayer(config, layer) ==
    CASE config = Refused \/ layer = Unparsable -> Refused
      [] config # Refused /\ layer = Absent -> config
      [] OTHER -> Merge(config, layer)

\* A file that was loaded already is not loaded again.
Resolve(global, repository, explicit, mode) ==
    LET base == WithLayer(Defaults, global)
        local == IF base = Refused THEN Refused ELSE WithRepository(base, repository)
        chosen == IF explicit # SameFile THEN WithLayer(local, explicit)
                  ELSE IF repository = Absent THEN Refused ELSE local
        final == WithLayer(chosen, IF mode \in {Absent, Unparsable} THEN mode ELSE Preset(mode))
    IN  IF final = Refused THEN Refused ELSE IF WellFormed(final) THEN final ELSE Refused

-----------------------------------------------------------------------------
VARIABLE layers     \* the layers an invocation finds

Effective == Resolve(layers.global, layers.repository, layers.explicit, layers.mode)
OperatorOnly == Resolve(layers.global, Absent, layers.explicit, layers.mode)

\* "a repository can tighten but cannot relax global enforcement": where both resolve, the
\* gates with the repository's file are at least those without it, and what decides whether
\* they are enforced is the operator's.
RepositoryOnlyTightens ==
    layers.explicit # SameFile /\ Effective # Refused /\ OperatorOnly # Refused
    => /\ OperatorOnly.paths \subseteq Effective.paths
       /\ OperatorOnly.block => Effective.block
       /\ Effective.observe = OperatorOnly.observe /\ Effective.mcp = OperatorOnly.mcp

\* "Ignored or invalid repository policy is reported and the valid operator configuration
\* remains active": a repository never makes an operator's configuration unusable.
OperatorConfigRemains ==
    layers.explicit # SameFile /\ OperatorOnly # Refused => Effective # Refused
=============================================================================
