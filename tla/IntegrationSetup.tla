--------------------------- MODULE IntegrationSetup ---------------------------
(***************************************************************************)
(* spotter setup, teardown and purge of the Codex integration              *)
(* (src/spotter/integration.py, integration_inventory.py): transactions    *)
(* over files nobody else locks.  Each command runs under the lifecycle    *)
(* lock, in steps that may fail, be rolled back or be cut by a crash, while *)
(* the user edits hooks.json, upgrades the package and reboots.            *)
(*                                                                         *)
(* The four Hook entries of a generation are always written together and   *)
(* stand for one; a generation is the digest of the package build and the  *)
(* runtime mode.  What DaemonLifecycle has of the service managers is here *)
(* only what they leave behind.  Backups and fingerprints of files are     *)
(* left out: only people read them.                                        *)
(***************************************************************************)
EXTENDS Integers, FiniteSets

CONSTANTS
    None, Proc,
    Modes,      \* "managed", "portable"
    Endpoints,  \* App Servers a setup may ask for
    MaxBuild,   \* bound: package builds
    MaxBegun,   \* bound: commands
    MaxCrashes, \* bound: commands that are killed
    MaxEdits    \* bound: edits of hooks.json by the user

\* _integration_generation(), or what an older or an edited entry shows instead of one
Generations == Nat \X {"managed", "portable", "legacy", "edited"}
HookFiles == [user : SUBSET {"u"}, ours : SUBSET Generations]
Manifests == [state : {"configuring", "ready", "purged"}, gen : Generations,
              owned : SUBSET Generations, build : Nat, mode : Modes, ep : Endpoints \cup {None},
              registration : BOOLEAN, service : BOOLEAN, created : BOOLEAN]

ASSUME SetupAssumption ==
    /\ Modes \subseteq {"managed", "portable"}
    /\ {MaxBuild, MaxBegun, MaxCrashes, MaxEdits} \subseteq Nat
    /\ None \notin HookFiles \cup Manifests \cup Proc

VARIABLES
    hooks,      \* hooks.json: None, or the user's entries and Spotter's
    plugin,     \* a legacy Spotter plugin is in Codex's config
    manifest,   \* the integration manifest, or None
    unit,       \* a service is registered
    daemon,     \* None, or how it was started, its build and what it was constructed for
    build,      \* of the installed package
    lock,       \* holder of the lifecycle lock, or None
    tx,         \* the command of each process
    wanted,     \* observer: the user's entries, as the user left them
    raced,      \* observer: the user edited hooks.json during a command
    begun, crashes, edits

files == <<hooks, plugin, manifest>>
runtime == <<unit, daemon>>
world == <<build, wanted, raced, edits>>
bounds == <<begun, crashes>>
vars == <<files, runtime, world, bounds, lock, tx>>

Legacy == <<0, "legacy">>
Edited == <<0, "edited">>
Idle == [at |-> "idle"]
At(p) == tx[p].at

Init ==
    /\ \E user \in SUBSET {"u"}, ours \in {{}, {Legacy}} :
          /\ wanted = user
          /\ \/ hooks = [user |-> user, ours |-> ours]
             \/ hooks = None /\ user = {} /\ ours = {}
    /\ plugin \in BOOLEAN
    /\ manifest = None /\ unit = FALSE /\ daemon = None /\ build = 1
    /\ lock = None /\ tx = [p \in Proc |-> Idle]
    /\ raced = FALSE /\ begun = 0 /\ crashes = 0 /\ edits = 0

-----------------------------------------------------------------------------
(***************************************************************************)
(* hooks.json and the manifest.                                            *)
(***************************************************************************)
\* _integration_generation()
Generation(t) == <<t.build, t.mode>>
Content(h) == IF h = None THEN [user |-> {}, ours |-> {}] ELSE h

\* _migrate_hooks()
Migrated(h, t) == [user |-> Content(h).user, ours |-> {Generation(t)}]

\* Spotter-like entries that neither this generation nor the manifest owns: setup refuses.
Unowned(h, m, t) ==
    {g \in Content(h).ours \ {Legacy} : m = None \/ (g # Generation(t) /\ g \notin m.owned)}

\* Mutant: the group goes, with what else is in it.
StrippedGroups(h, m) ==
    IF m.created /\ Content(h).ours \subseteq m.owned THEN None
    ELSE [user |-> {}, ours |-> Content(h).ours \ m.owned]

\* teardown(), _remove_hooks(): a file that setup created goes with its last entry.
Stripped(h, m) ==
    IF m.created /\ Content(h).user = {} /\ Content(h).ours \subseteq m.owned THEN None
    ELSE [user |-> Content(h).user, ours |-> Content(h).ours \ m.owned]

\* A manifest of a purged integration retains nothing of its files.
Retained(m) == IF m = None THEN None ELSE IF m.state = "purged" THEN None ELSE m

Configuring(t) ==
    LET old == Retained(t.m0)
    IN  [state |-> "configuring", gen |-> Generation(t), owned |-> {Generation(t)},
         build |-> t.build, mode |-> t.mode, ep |-> t.ep, registration |-> t.mode = "managed",
         service |-> IF old = None THEN ~t.ran \/ t.mode = "managed" ELSE old.service,
         created |-> IF old = None THEN t.h0 = None ELSE old.created]

Tombstone(m) == [m EXCEPT !.state = "purged", !.owned = {}, !.registration = FALSE,
                          !.service = FALSE, !.created = FALSE]

-----------------------------------------------------------------------------
(***************************************************************************)
(* What a service command leaves: [unit, daemon, health].                  *)
(***************************************************************************)
\* runtime_construction_fingerprint()
Construction(m) == IF m = None THEN None ELSE [gen |-> m.gen, ep |-> m.ep]
Fresh(kind, m) == [kind |-> kind, build |-> build, for |-> Construction(m)]
\* Mutant: a daemon of the same build is taken for current.
MatchesBuild(d, t, m) == d # None /\ d.build = t.build

Matches(d, t, m) == d # None /\ d.build = t.build /\ d.for = Construction(m)
After(u, d, health) == [unit |-> u, daemon |-> d, health |-> health]
Waited(u, d, t, m) == After(u, d, IF Matches(d, t, m) THEN "healthy" ELSE "unavailable")
Outside(d) == d # None /\ d.kind = "manual"
Stopped(d) == IF Outside(d) THEN d ELSE None

ManagedStart(u, d, t, m) ==
    IF Outside(d) THEN {After(u, d, "degraded")}
    ELSE {After(TRUE, d, "unavailable"), After(TRUE, None, "unavailable"),
          Waited(TRUE, IF u /\ Matches(d, t, m) THEN d ELSE Fresh("managed", m), t, m)}

ManagedRestart(u, d, t, m) ==
    ManagedStart(TRUE, Stopped(d), t, m) \cup
    (IF u THEN {Waited(TRUE, IF Outside(d) THEN d ELSE Fresh("managed", m), t, m)} ELSE {})

ManualStop(u, d) == {After(u, None, "unavailable"), After(u, d, "degraded")}

ManualStart(u, d, t, m) ==
    IF Matches(d, t, m) THEN {After(u, d, "healthy")}
    ELSE {After(u, d, IF d = None THEN "unavailable" ELSE "degraded"),
          After(u, None, "unavailable"), Waited(u, Fresh("manual", m), t, m)}

ManualRestart(u, d, t, m) ==
    {After(u, d, IF d = None THEN "unavailable" ELSE "degraded")} \cup ManualStart(u, None, t, m)

Start(t, m) == IF t.mode = "managed" THEN ManagedStart(unit, daemon, t, m)
               ELSE ManualStart(unit, daemon, t, m)
Restart(t, m) == IF t.mode = "managed" THEN ManagedRestart(unit, daemon, t, m)
                 ELSE ManualRestart(unit, daemon, t, m)
Stop(mode) == IF mode = "managed" THEN {After(unit, Stopped(daemon), "unavailable")}
              ELSE ManualStop(unit, daemon)
Uninstall(mode) ==
    IF mode = "managed"
    THEN {After(FALSE, Stopped(daemon), "unavailable")} \cup
         (IF daemon = None THEN {} ELSE {After(unit, daemon, "failed")})
    ELSE ManualStop(unit, daemon)

Becomes(after) == unit' = after.unit /\ daemon' = after.daemon

-----------------------------------------------------------------------------
(***************************************************************************)
(* Commands.                                                               *)
(***************************************************************************)
Go(p, at) == tx' = [tx EXCEPT ![p].at = at]
End(p) == tx' = [tx EXCEPT ![p] = Idle] /\ lock' = IF lock = p THEN None ELSE lock

\* plan() runs before the lock is taken, and may refuse already.
BeginSetup(p, mode, ask) ==
    /\ At(p) = "idle" /\ begun < MaxBegun
    /\ LET t == [at |-> "setup", mode |-> mode, ask |-> ask, build |-> build]
       IN  tx' = [tx EXCEPT ![p] = IF Unowned(hooks, manifest, t) = {} THEN t ELSE Idle]
    /\ begun' = begun + 1
    /\ UNCHANGED <<files, runtime, world, lock, crashes>>

BeginTeardown(p) ==
    /\ At(p) = "idle" /\ manifest # None /\ begun < MaxBegun
    /\ tx' = [tx EXCEPT ![p] = [at |-> "teardown"]]
    /\ begun' = begun + 1
    /\ UNCHANGED <<files, runtime, world, lock, crashes>>

\* snapshot(): nothing that is there may be ambiguous.
Exact(m) ==
    /\ m # None
    /\ m.state # "configuring"
    /\ Content(hooks).ours \ {Legacy} \subseteq m.owned /\ Legacy \notin Content(hooks).ours

BeginPurge(p) ==
    /\ At(p) = "idle" /\ Exact(manifest) /\ begun < MaxBegun
    /\ tx' = [tx EXCEPT ![p] = [at |-> "purge"]]
    /\ begun' = begun + 1
    /\ UNCHANGED <<files, runtime, world, lock, crashes>>

-----------------------------------------------------------------------------
(***************************************************************************)
(* setup()                                                                 *)
(***************************************************************************)
\* Everything is read, and the endpoint probed, before anything is written.
Inspect(p) ==
    /\ At(p) = "setup" /\ lock = None
    /\ LET t == tx[p]
           ep == IF t.ask = None /\ manifest # None THEN manifest.ep ELSE t.ask
       IN  IF Unowned(hooks, manifest, t) # {} THEN End(p)
           ELSE /\ lock' = p
                /\ tx' = [tx EXCEPT ![p] =
                            [at |-> "hooks", mode |-> t.mode, ask |-> t.ask, build |-> t.build,
                             h0 |-> hooks, m0 |-> manifest, p0 |-> plugin, ep |-> ep,
                             ran |-> daemon # None, attempted |-> FALSE]]
    /\ UNCHANGED <<files, runtime, world, bounds>>

\* The host or the endpoint does not pass: nothing was changed.
Refuse(p) ==
    /\ At(p) = "setup" /\ lock = None
    /\ End(p)
    /\ UNCHANGED <<files, runtime, world, bounds>>

WriteHooks(p) ==
    /\ At(p) = "hooks"
    /\ LET new == Migrated(tx[p].h0, tx[p])
       IN  hooks' = IF new = tx[p].h0 THEN hooks ELSE new
    /\ Go(p, "plugin")
    /\ UNCHANGED <<plugin, manifest, runtime, world, bounds, lock>>

RemovePlugin(p) ==
    /\ At(p) = "plugin"
    /\ plugin' = FALSE
    /\ Go(p, "manifest")
    /\ UNCHANGED <<hooks, manifest, runtime, world, bounds, lock>>

SaveManifest(p) ==
    /\ At(p) = "manifest"
    /\ manifest' = Configuring(tx[p])
    /\ Go(p, "service")
    /\ UNCHANGED <<hooks, plugin, runtime, world, bounds, lock>>

RestartRequired(t) ==
    LET old == Retained(t.m0)
    IN  old # None /\ (old.state # "ready" \/ old.gen # Generation(t) \/ old.ep # t.ep)

StartService(p) ==
    /\ At(p) = "service"
    /\ \E after \in IF RestartRequired(tx[p]) THEN Restart(tx[p], manifest)
                    ELSE Start(tx[p], manifest) :
          /\ Becomes(after)
          /\ tx' = [tx EXCEPT ![p].attempted = TRUE,
                              ![p].at = IF \/ after.health = "healthy"
                                           \/ (after.health = "degraded" /\ tx[p].ep # None)
                                        THEN "verify" ELSE "undo hooks"]
    /\ UNCHANGED <<files, world, bounds, lock>>

\* The App Server it asked for is not named by the status that _verify() reads.
Verified(t) ==
    /\ daemon # None
    /\ t.ep # None => daemon.for # None /\ daemon.for.ep # None
    /\ Content(hooks).ours = {Generation(t)}

Verify(p) ==
    /\ At(p) = "verify" /\ Verified(tx[p])
    /\ Go(p, "commit")
    /\ UNCHANGED <<files, runtime, world, bounds, lock>>

Commit(p) ==
    /\ At(p) = "commit"
    /\ manifest' = [manifest EXCEPT !.state = "ready"]
    /\ End(p)
    /\ UNCHANGED <<hooks, plugin, runtime, world, bounds>>

\* A step raised, or verification timed out.
Fail(p) ==
    /\ At(p) \in {"hooks", "plugin", "manifest", "service", "verify", "commit"}
    /\ tx' = [tx EXCEPT ![p].at = "undo hooks", ![p].attempted = @ \/ At(p) = "service"]
    /\ UNCHANGED <<files, runtime, world, bounds, lock>>

\* rollback()
UndoHooks(p) ==
    /\ At(p) = "undo hooks"
    /\ hooks' = tx[p].h0
    /\ Go(p, "undo plugin")
    /\ UNCHANGED <<plugin, manifest, runtime, world, bounds, lock>>

\* codex.add_plugin may fail unheard; config.toml, which names the plugins, is put back anyway.
UndoPlugin(p) ==
    /\ At(p) = "undo plugin"
    /\ plugin' = tx[p].p0
    /\ Go(p, "undo manifest")
    /\ UNCHANGED <<hooks, manifest, runtime, world, bounds, lock>>

\* Mutant: a manifest that was not there before is left.
UndoManifestOnly(p) ==
    /\ At(p) = "undo manifest"
    /\ manifest' = IF tx[p].m0 = None THEN manifest ELSE tx[p].m0
    /\ Go(p, "undo service")
    /\ UNCHANGED <<hooks, plugin, runtime, world, bounds, lock>>

UndoManifest(p) ==
    /\ At(p) = "undo manifest"
    /\ manifest' = tx[p].m0
    /\ Go(p, "undo service")
    /\ UNCHANGED <<hooks, plugin, runtime, world, bounds, lock>>

UndoService(p) ==
    /\ At(p) = "undo service"
    /\ LET t == tx[p]
           ready == t.m0 # None /\ t.m0.state = "ready"
       IN  CASE (t.ran \/ ready) /\ ~t.attempted -> UNCHANGED runtime
             [] t.ran /\ t.attempted -> \E after \in Restart(t, manifest) : Becomes(after)
             [] ~t.ran /\ ready /\ t.attempted -> \E after \in Stop(t.mode) : Becomes(after)
             [] OTHER -> \E after \in Uninstall(t.mode) : Becomes(after)
    /\ End(p)
    /\ UNCHANGED <<files, world, bounds>>

-----------------------------------------------------------------------------
(***************************************************************************)
(* teardown() and purge(): the entries, then the service, then the         *)
(* manifest.  hooks.json is put back if the service does not go.           *)
(***************************************************************************)
LockRemoval(p) ==
    /\ At(p) \in {"teardown", "purge"} /\ lock = None
    /\ IF \/ At(p) = "teardown" /\ manifest # None
          \/ At(p) = "purge" /\ Exact(manifest) /\ manifest.state = "ready"
       THEN /\ lock' = p
            /\ tx' = [tx EXCEPT ![p] = [at |-> "remove hooks", cmd |-> At(p),
                                        m0 |-> manifest, h0 |-> hooks]]
       ELSE End(p)
    /\ UNCHANGED <<files, runtime, world, bounds>>

RemoveHooks(p) ==
    /\ At(p) = "remove hooks"
    /\ hooks' = IF tx[p].cmd = "purge" /\ tx[p].h0 = None THEN hooks
                ELSE Stripped(tx[p].h0, tx[p].m0)
    /\ Go(p, "remove service")
    /\ UNCHANGED <<plugin, manifest, runtime, world, bounds, lock>>

RemoveService(p) ==
    /\ At(p) = "remove service"
    /\ LET m == tx[p].m0
       IN  IF ~m.service \/ (tx[p].cmd = "purge" /\ ~(m.registration /\ unit))
           THEN Go(p, "remove manifest") /\ UNCHANGED runtime
           ELSE \E after \in Uninstall(IF tx[p].cmd = "purge" THEN "managed" ELSE m.mode) :
                   /\ Becomes(after)
                   /\ Go(p, IF after.health = "unavailable" THEN "remove manifest"
                            ELSE "restore hooks")
    /\ UNCHANGED <<files, world, bounds, lock>>

RestoreHooks(p) ==
    /\ At(p) = "restore hooks"
    /\ hooks' = tx[p].h0
    /\ End(p)
    /\ UNCHANGED <<plugin, manifest, runtime, world, bounds>>

RemoveManifest(p) ==
    /\ At(p) = "remove manifest"
    /\ manifest' = IF tx[p].cmd = "purge" THEN Tombstone(manifest) ELSE None
    /\ End(p)
    /\ UNCHANGED <<hooks, plugin, runtime, world, bounds>>

\* A backup or the manifest could not be written: a later purge tries again.
FailRemoval(p) ==
    /\ At(p) = "remove manifest"
    /\ End(p)
    /\ UNCHANGED <<files, runtime, world, bounds>>

-----------------------------------------------------------------------------
(***************************************************************************)
(* Everything else.                                                        *)
(***************************************************************************)
Crash(p) ==
    /\ At(p) # "idle" /\ crashes < MaxCrashes
    /\ End(p)
    /\ crashes' = crashes + 1
    /\ UNCHANGED <<files, runtime, world, begun>>

\* The user adds an entry, removes it, or changes one that Spotter wrote.
EditHooks ==
    /\ edits < MaxEdits
    /\ \/ \E user \in SUBSET {"u"} :
             /\ user # wanted
             /\ wanted' = user
             /\ hooks' = [user |-> user, ours |-> Content(hooks).ours]
       \/ /\ Content(hooks).ours # {}
          /\ hooks' = [hooks EXCEPT !.ours = {Edited}]
          /\ UNCHANGED wanted
    /\ raced' = (raced \/ lock # None) /\ edits' = edits + 1
    /\ UNCHANGED <<plugin, manifest, runtime, build, bounds, lock, tx>>

Upgrade ==
    /\ build < MaxBuild
    /\ build' = build + 1
    /\ UNCHANGED <<files, runtime, wanted, raced, edits, bounds, lock, tx>>

\* A registered service starts with the login, and after a crash of the daemon.
Relogin ==
    /\ daemon' = IF unit THEN Fresh("managed", manifest) ELSE None
    /\ UNCHANGED <<files, unit, world, bounds, lock, tx>>

Command(p) ==
    \/ \E mode \in Modes, ask \in Endpoints \cup {None} : BeginSetup(p, mode, ask)
    \/ BeginTeardown(p) \/ BeginPurge(p)
Setup(p) ==
    \/ Inspect(p) \/ Refuse(p) \/ WriteHooks(p) \/ RemovePlugin(p) \/ SaveManifest(p)
    \/ StartService(p) \/ Verify(p) \/ Commit(p) \/ Fail(p)
    \/ UndoHooks(p) \/ UndoPlugin(p) \/ UndoManifest(p) \/ UndoService(p)
Removal(p) ==
    \/ LockRemoval(p) \/ RemoveHooks(p) \/ RemoveService(p) \/ RestoreHooks(p)
    \/ RemoveManifest(p) \/ FailRemoval(p)

Next ==
    \/ \E p \in Proc : Command(p) \/ Setup(p) \/ Removal(p) \/ Crash(p)
    \/ EditHooks \/ Upgrade \/ Relogin

Spec == Init /\ [][Next]_vars

-----------------------------------------------------------------------------
(***************************************************************************)
(* Properties.                                                             *)
(***************************************************************************)
\* "Setup is designed to reconcile retained ownership state without duplicating Hooks": whatever
\* setups, upgrades, crashes and rollbacks, two generations never sit in hooks.json together.
HooksNeverDoubled == Cardinality(Content(hooks).ours) <= 1

\* "Do not delete configuration Spotter did not create": entries of the user come and go with the
\* user alone, unless they are edited while a command is under way.
UserHooksKept == raced \/ Content(hooks).user = wanted

\* A setup that failed and was rolled back leaves hooks.json, Codex's plugins and the manifest as
\* it found them.
FailureRestores ==
    [][ \A p \in Proc :
          (At(p) = "undo service" /\ tx'[p] = Idle /\ crashes' = crashes /\ ~raced) =>
             hooks' = tx[p].h0 /\ plugin' = tx[p].p0 /\ manifest' = tx[p].m0 ]_vars

Succeeds == \E p \in Proc : At(p) = "commit" /\ manifest' # manifest

\* A setup reports success only about a daemon that runs what the manifest says: this package
\* build (or the one it was upgraded to meanwhile), this generation, this App Server.
ReadyRunsManifest ==
    [][ Succeeds /\ daemon # None =>
           /\ daemon.for = Construction(manifest)
           /\ daemon.build = manifest.build \/ build # manifest.build ]_vars

\* The same of a managed service that never was anything else: what is left of interrupted,
\* purged or rolled back integrations is restarted, however it was left.
ManagedReadyRuns ==
    [][ Succeeds /\ daemon # None /\ manifest.mode = "managed" /\ ~Outside(daemon) =>
           /\ daemon.for = Construction(manifest)
           /\ daemon.build = manifest.build \/ build # manifest.build ]_vars

\* "A process crash before the manifest commit can leave the owned Hook without an ownership
\* record; re-running setup heals forward": setup never refuses what only setups have written.
SetupHeals ==
    \A p \in Proc, mode \in Modes :
        lock = None /\ Edited \notin Content(hooks).ours =>
            Unowned(hooks, manifest, [mode |-> mode, build |-> build]) = {}

\* "Disable/remove Spotter's service integration": a teardown or purge that reports success
\* leaves no service registered.
NothingLeftBehind ==
    [][ \A p \in Proc : At(p) = "remove manifest" /\ manifest' # manifest => ~unit ]_vars
=============================================================================
