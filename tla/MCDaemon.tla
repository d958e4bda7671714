------------------------------- MODULE MCDaemon -------------------------------
(***************************************************************************)
(* Small instances of RuntimeConfig, ConfigLayers and DaemonLifecycle.     *)
(* `focus` says what an instance is about: "reloads" (two callers and two  *)
(* changes of the files around the boundaries of one connection), "turns"  *)
(* (one change and the watcher, with reconnects and a restarted App        *)
(* Server), "layers" (the files resolve_config() finds) or "ownership"     *)
(* (processes and managers around the control socket).                     *)
(***************************************************************************)
EXTENDS RuntimeConfig, ConfigLayers, DaemonLifecycle

CONSTANTS t1, t2, p1, p2, p3, cli, setup

Content(h, u, f) == [hot |-> h, turn |-> u, fixed |-> f]
MCInitial == Content(0, 0, 0)
MCContents == {MCInitial, Content(1, 0, 0), Content(1, 1, 0), Content(0, 0, 1)}
MCCallers == {"watcher", "operator"}

Empty == [s \in {} |-> 0]
Advising == [onSignals |-> TRUE, deliver |-> TRUE]
MCGlobal == {Absent, Unparsable, Empty, Advising,
             [observe |-> FALSE, onSignals |-> TRUE, paths |-> {1}],
             [mcp |-> 1, block |-> TRUE], [block |-> Wrong]}
MCRepository == {Absent, Unparsable, Empty, Advising, [onSignals |-> FALSE],
                 [observe |-> TRUE, mcp |-> 2, paths |-> {2}, block |-> FALSE],
                 [paths |-> Wrong], [paths |-> {2}, block |-> TRUE]}
MCExplicit == {Absent, Unparsable, SameFile, [deliver |-> TRUE], [observe |-> FALSE, paths |-> {3}]}
MCModes == {Absent, Unparsable, "observe", "protect", "advisory"}
MCLayers == [global : MCGlobal, repository : MCRepository, explicit : MCExplicit, mode : MCModes]
NoLayers == [global |-> Absent, repository |-> Absent, explicit |-> Absent, mode |-> Absent]

VARIABLE focus
mcVars == <<vars, layers, daemonVars, focus>>

MCInit ==
    /\ Init /\ layers = NoLayers /\ LifecycleInit
    /\ focus \in {"reloads", "turns", "layers", "ownership"}
    /\ focus # "ownership" => \A m \in Managers : caller[m].op = "start"

ConfigNext ==
    /\ focus \in {"reloads", "turns"}
    /\ Next
    /\ focus = "reloads" => conn' <= 1 /\ load' = load /\ used' = used /\ live'[t2] = NoTurn
    /\ focus = "turns" => /\ writes' <= 1 /\ ~early' /\ job'["operator"] = IdleJob
                          /\ disk' \in {MCInitial, Content(1, 1, 0)}
    /\ UNCHANGED <<layers, daemonVars>>

LayersNext ==
    /\ focus = "layers" /\ layers = NoLayers
    /\ layers' \in MCLayers
    /\ UNCHANGED <<vars, daemonVars>>

OwnershipNext == focus = "ownership" /\ LifecycleNext /\ UNCHANGED <<vars, layers>>

MCNext == (ConfigNext \/ LayersNext \/ OwnershipNext) /\ UNCHANGED focus

MCSpec == MCInit /\ [][MCNext]_mcVars
=============================================================================
