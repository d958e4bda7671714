------------------------ MODULE IntegrationSetupProofs ------------------------
(***************************************************************************)
(* The user's entries in hooks.json outlive every setup, teardown and      *)
(* purge, a setup that fails leaves things as it found them, and one that  *)
(* succeeds does so about the daemon it says: for any number of commands,  *)
(* crashes, edits, builds and App Servers.                                 *)
(*                                                                         *)
(* Only the command that holds the lifecycle lock changes what commands    *)
(* change, so what it read when it took the lock is what it may put back,  *)
(* except hooks.json, which the user edits without the lock.               *)
(***************************************************************************)
EXTENDS IntegrationSetup, TLAPS

SetupSteps == {"hooks", "plugin", "manifest", "service", "verify", "commit",
               "undo hooks", "undo plugin", "undo manifest", "undo service"}
RemovalSteps == {"remove hooks", "remove service", "restore hooks", "remove manifest"}
Locked == SetupSteps \cup RemovalSteps

Asked == [at : {"setup"}, mode : Modes, ask : Endpoints \cup {None}, build : Nat]
Removals == [at : {"teardown", "purge"}]
Setups == [at : SetupSteps, mode : Modes, ask : Endpoints \cup {None}, build : Nat,
           h0 : HookFiles \cup {None}, m0 : Manifests \cup {None}, p0 : BOOLEAN,
           ep : Endpoints \cup {None}, ran : BOOLEAN, attempted : BOOLEAN]
LockedRemovals == [at : RemovalSteps, cmd : {"teardown", "purge"}, m0 : Manifests,
                   h0 : HookFiles \cup {None}]
Commands == {Idle} \cup Asked \cup Removals \cup Setups \cup LockedRemovals

SetupTypes ==
    /\ hooks \in HookFiles \cup {None} /\ plugin \in BOOLEAN
    /\ manifest \in Manifests \cup {None}
    /\ build \in Nat /\ wanted \in SUBSET {"u"} /\ raced \in BOOLEAN /\ crashes \in Nat
    /\ lock \in Proc \cup {None}
    /\ tx \in [Proc -> Commands]

\* A command is in a step that changes something exactly while it holds the lock, and it was
\* begun by a package build there has been.
LockInv ==
    \A p \in Proc :
        /\ At(p) \in Locked <=> lock = p
        /\ At(p) \in SetupSteps \cup {"setup"} => tx[p].build <= build

\* The entries of the user in hooks.json, and in the copy of it that may be put back.
Kept(h) == raced \/ Content(h).user = wanted
KeptInv == Kept(hooks) /\ \A p \in Proc : lock = p => Kept(tx[p].h0)

\* What the rollback of a setup t has put back so far.
Undone(t) ==
    /\ t.at \in {"undo plugin", "undo manifest", "undo service"} => raced \/ hooks = t.h0
    /\ t.at \in {"undo manifest", "undo service"} => plugin = t.p0
    /\ t.at = "undo service" => manifest = t.m0

\* The manifest that t, which holds the lock, has written or has found.
Recorded(t) ==
    /\ t.at \in {"service", "verify", "commit"} =>
          manifest # None /\ manifest.build = t.build /\ manifest.mode = t.mode
    /\ t.at \in RemovalSteps => manifest # None

\* What runs once t has started the service.
Runs(d, m) == d.for = Construction(m) /\ (d.build = m.build \/ build # m.build)
Serves(t) ==
    t.at \in {"verify", "commit"} /\ t.mode = "managed" /\ daemon # None /\ ~Outside(daemon) =>
        Runs(daemon, manifest)

HolderInv == \A p \in Proc : Undone(tx[p]) /\ Recorded(tx[p]) /\ Serves(tx[p])

SetupInv == SetupTypes /\ LockInv /\ KeptInv /\ HolderInv

-----------------------------------------------------------------------------
(***************************************************************************)
(* What the operators return.                                              *)
(***************************************************************************)
\* A command in a step of setup has everything setup needs, and so for the others.
LEMMA StepShapes ==
    ASSUME NEW t \in Commands
    PROVE  /\ t.at \in SetupSteps => t \in Setups
           /\ t.at \in RemovalSteps => t \in LockedRemovals
           /\ t.at = "setup" => t \in Asked
           /\ t.at \in {"teardown", "purge"} => t \in Removals
           /\ t.at \in Locked \cup {"idle", "setup", "teardown", "purge"}
<1>1. CASE t = Idle
  BY <1>1 DEF Idle, SetupSteps, RemovalSteps, Locked
<1>2. CASE t \in Asked
  <2>1. t.at = "setup"
    BY <1>2 DEF Asked
  <2> QED
    BY <1>2, <2>1 DEF SetupSteps, RemovalSteps, Locked
<1>3. CASE t \in Removals
  <2>1. t.at \in {"teardown", "purge"}
    BY <1>3 DEF Removals
  <2> QED
    BY <1>3, <2>1 DEF SetupSteps, RemovalSteps, Locked
<1>4. CASE t \in Setups
  <2>1. t.at \in SetupSteps
    BY <1>4 DEF Setups
  <2> QED
    BY <1>4, <2>1 DEF SetupSteps, RemovalSteps, Locked
<1>5. CASE t \in LockedRemovals
  <2>1. t.at \in RemovalSteps
    BY <1>5 DEF LockedRemovals
  <2> QED
    BY <1>5, <2>1 DEF SetupSteps, RemovalSteps, Locked
<1> QED
  BY <1>1, <1>2, <1>3, <1>4, <1>5 DEF Commands

\* The content of hooks.json, there or not.
LEMMA ContentTypes ==
    ASSUME NEW h \in HookFiles \cup {None}
    PROVE  Content(h) \in HookFiles
BY DEF Content, HookFiles

\* Setup writes its own entries beside the user's.
LEMMA MigratedKeeps ==
    ASSUME NEW t \in Setups, NEW h \in HookFiles \cup {None}
    PROVE  /\ Migrated(h, t) \in HookFiles
           /\ Content(Migrated(h, t)).user = Content(h).user
<1>1. Generation(t) \in Generations
  BY SetupAssumption DEF Setups, Generation, Generations
<1>2. Content(h) \in HookFiles
  BY ContentTypes
<1>3. Migrated(h, t) \in HookFiles
  BY <1>1, <1>2 DEF Migrated, HookFiles
<1>4. Migrated(h, t) # None
  BY <1>3, SetupAssumption
<1>5. Content(Migrated(h, t)) = Migrated(h, t)
  BY <1>4 DEF Content
<1> QED
  BY <1>3, <1>5 DEF Migrated

\* Teardown takes only what Spotter owns.
LEMMA StrippedKeeps ==
    ASSUME NEW h \in HookFiles \cup {None}, NEW m \in Manifests
    PROVE  /\ Stripped(h, m) \in HookFiles \cup {None}
           /\ Content(Stripped(h, m)).user = Content(h).user
<1>1. Content(h) \in HookFiles
  BY ContentTypes
<1>2. CASE m.created /\ Content(h).user = {} /\ Content(h).ours \subseteq m.owned
  <2>1. Stripped(h, m) = None
    BY <1>2 DEF Stripped
  <2> QED
    BY <2>1, <1>2 DEF Content
<1>3. CASE ~(m.created /\ Content(h).user = {} /\ Content(h).ours \subseteq m.owned)
  <2> DEFINE s == [user |-> Content(h).user, ours |-> Content(h).ours \ m.owned]
  <2>1. Stripped(h, m) = s
    BY <1>3 DEF Stripped
  <2>2. s \in HookFiles
    BY <1>1 DEF HookFiles
  <2>3. s # None
    BY <2>2, SetupAssumption
  <2>4. Content(s) = s
    BY <2>3 DEF Content
  <2> QED
    BY <2>1, <2>2, <2>4
<1> QED
  BY <1>2, <1>3

\* The manifest that setup writes.
LEMMA ConfiguringTypes ==
    ASSUME NEW t \in Setups
    PROVE  /\ Configuring(t) \in Manifests
           /\ Configuring(t).build = t.build /\ Configuring(t).mode = t.mode
<1>1. Generation(t) \in Generations
  BY SetupAssumption DEF Setups, Generation, Generations
<1>2. Retained(t.m0) \in Manifests \cup {None}
  BY DEF Setups, Retained
<1> DEFINE
    old == Retained(t.m0)
    service == IF old = None THEN ~t.ran \/ t.mode = "managed" ELSE old.service
    created == IF old = None THEN t.h0 = None ELSE old.created
<1>3. service \in BOOLEAN /\ created \in BOOLEAN
  BY <1>2 DEF Setups, Manifests
<1>4. Configuring(t) =
        [state |-> "configuring", gen |-> Generation(t), owned |-> {Generation(t)},
         build |-> t.build, mode |-> t.mode, ep |-> t.ep, registration |-> t.mode = "managed",
         service |-> service, created |-> created]
  BY DEF Configuring
<1> HIDE DEF service, created
<1>5. t.build \in Nat /\ t.mode \in Modes /\ t.ep \in Endpoints \cup {None}
  BY DEF Setups
<1>6. (t.mode = "managed") \in BOOLEAN
  OBVIOUS
<1> QED
  BY <1>1, <1>3, <1>4, <1>5, <1>6 DEF Manifests

\* The other two manifests that are written.
LEMMA ManifestUpdates ==
    ASSUME NEW m \in Manifests
    PROVE  [m EXCEPT !.state = "ready"] \in Manifests /\ Tombstone(m) \in Manifests
BY DEF Manifests, Tombstone

\* A managed service that came up is the one it should be, unless it is not the service manager's.
LEMMA ManagedHealth ==
    ASSUME NEW t, NEW m, NEW after,
           after \in ManagedRestart(unit, daemon, t, m) \cup ManagedStart(unit, daemon, t, m),
           after.health \in {"healthy", "degraded"}
    PROVE  Outside(after.daemon) \/ Matches(after.daemon, t, m)
<1>1. ASSUME NEW u, NEW d, after \in ManagedStart(u, d, t, m)
      PROVE  Outside(after.daemon) \/ Matches(after.daemon, t, m)
  <2>1. CASE Outside(d)
    BY <1>1, <2>1 DEF ManagedStart, After
  <2>2. CASE ~Outside(d)
    BY <1>1, <2>2 DEF ManagedStart, After, Waited
  <2> QED
    BY <2>1, <2>2
<1>2. CASE after \in ManagedStart(unit, daemon, t, m)
  BY <1>1, <1>2
<1>3. CASE after \in ManagedStart(TRUE, Stopped(daemon), t, m)
  BY <1>1, <1>3
<1>4. CASE after = Waited(TRUE, IF Outside(daemon) THEN daemon ELSE Fresh("managed", m), t, m)
  BY <1>4 DEF Waited, After
<1> QED
  BY <1>2, <1>3, <1>4 DEF ManagedRestart

\* The next step of a command, with all else it knows.
LEMMA GoTypes ==
    ASSUME NEW p \in Proc, tx \in [Proc -> Commands], NEW at, Go(p, at)
    PROVE  /\ tx' = [tx EXCEPT ![p] = [tx[p] EXCEPT !.at = at]]
           /\ At(p) \in SetupSteps /\ at \in SetupSteps =>
                [tx[p] EXCEPT !.at = at] \in Setups
           /\ At(p) \in RemovalSteps /\ at \in RemovalSteps =>
                [tx[p] EXCEPT !.at = at] \in LockedRemovals
<1>1. tx' = [tx EXCEPT ![p] = [tx[p] EXCEPT !.at = at]]
  BY DEF Go
<1>2. tx[p] \in Commands
  OBVIOUS
<1>3. ASSUME At(p) \in SetupSteps, at \in SetupSteps
      PROVE  [tx[p] EXCEPT !.at = at] \in Setups
  <2>1. tx[p] \in Setups
    BY <1>2, <1>3, StepShapes DEF At
  <2> QED
    BY <1>3, <2>1 DEF Setups
<1>4. ASSUME At(p) \in RemovalSteps, at \in RemovalSteps
      PROVE  [tx[p] EXCEPT !.at = at] \in LockedRemovals
  <2>1. tx[p] \in LockedRemovals
    BY <1>2, <1>4, StepShapes DEF At
  <2> QED
    BY <1>4, <2>1 DEF LockedRemovals
<1> QED
  BY <1>1, <1>3, <1>4

-----------------------------------------------------------------------------
(***************************************************************************)
(* Three kinds of step: without the lock, with it, and the last with it.   *)
(***************************************************************************)
\* What is so of every command that does not hold the lock.
LEMMA FreeHolds ==
    ASSUME NEW t \in Commands, t.at \notin Locked
    PROVE  Undone(t) /\ Recorded(t) /\ Serves(t)
BY DEF Locked, SetupSteps, RemovalSteps, Undone, Recorded, Serves

\* A command that does not hold the lock goes on to x: it was read from, not written.
LEMMA FreeStep ==
    ASSUME SetupInv, NEW p \in Proc, At(p) \notin Locked,
           NEW x \in Commands, x.at \notin Locked, x.at = "setup" => x.build <= build,
           tx' = [tx EXCEPT ![p] = x], lock' = lock, crashes' \in Nat,
           UNCHANGED <<files, daemon, build, wanted, raced>>
    PROVE  SetupInv'
<1> USE DEF SetupInv
<1>1. SetupTypes'
  BY DEF SetupTypes, files
<1>2. tx'[p] = x /\ \A q \in Proc \ {p} : tx'[q] = tx[q]
  BY DEF SetupTypes
<1>3. LockInv'
  BY <1>2 DEF LockInv, At, SetupSteps, RemovalSteps, Locked
<1>4. lock # p
  BY DEF LockInv
<1>5. KeptInv'
  BY <1>2, <1>4 DEF KeptInv, Kept, files
<1>6. Undone(x)' /\ Recorded(x)' /\ Serves(x)'
  BY DEF Locked, SetupSteps, RemovalSteps, Undone, Recorded, Serves
<1>7. ASSUME NEW q \in Proc \ {p}
      PROVE  Undone(tx[q])' /\ Recorded(tx[q])' /\ Serves(tx[q])'
  BY <1>2, <1>7 DEF HolderInv, Undone, Recorded, Serves, Runs, files
<1>8. HolderInv'
  BY <1>2, <1>6, <1>7 DEF HolderInv, Undone, Recorded, Serves
<1> QED
  BY <1>1, <1>3, <1>5, <1>8

\* p takes the lock, or keeps it, and goes on to x.
LEMMA LockedStep ==
    ASSUME SetupInv, NEW p \in Proc, lock \in {p, None}, lock' = p,
           NEW x \in Commands, x.at \in Locked, x.at \in SetupSteps => x.build <= build,
           tx' = [tx EXCEPT ![p] = x], UNCHANGED <<build, wanted, raced, crashes>>,
           hooks' \in HookFiles \cup {None}, plugin' \in BOOLEAN,
           manifest' \in Manifests \cup {None},
           Kept(hooks)', Kept(x.h0), Undone(x)', Recorded(x)', Serves(x)'
    PROVE  SetupInv'
<1> USE DEF SetupInv
<1>1. SetupTypes'
  BY DEF SetupTypes
<1>2. tx'[p] = x /\ \A q \in Proc \ {p} : tx'[q] = tx[q]
  BY DEF SetupTypes
<1>3. p # None
  BY SetupAssumption
<1>4. \A q \in Proc \ {p} : At(q) \notin Locked
  BY <1>3, SetupAssumption DEF LockInv
<1>5. LockInv'
  BY <1>2, <1>4 DEF LockInv, At, SetupSteps, RemovalSteps, Locked
<1>6. KeptInv'
  BY <1>2 DEF KeptInv, Kept
<1>7. ASSUME NEW q \in Proc \ {p}
      PROVE  Undone(tx[q])' /\ Recorded(tx[q])' /\ Serves(tx[q])'
  BY <1>2, <1>4, <1>7 DEF At, Locked, SetupSteps, RemovalSteps, Undone, Recorded, Serves
<1>8. HolderInv'
  BY <1>2, <1>7 DEF HolderInv, Undone, Recorded, Serves, Runs
<1> QED
  BY <1>1, <1>5, <1>6, <1>8

\* p is done and gives the lock back.
LEMMA LastStep ==
    ASSUME SetupInv, NEW p \in Proc, lock = p, End(p),
           UNCHANGED <<build, wanted, raced>>, crashes' \in Nat,
           hooks' \in HookFiles \cup {None}, plugin' \in BOOLEAN,
           manifest' \in Manifests \cup {None}, Kept(hooks)'
    PROVE  SetupInv'
<1> USE DEF SetupInv
<1>1. lock' = None /\ tx' = [tx EXCEPT ![p] = Idle] /\ p # None
  BY SetupAssumption DEF End
<1>2. SetupTypes'
  BY <1>1 DEF SetupTypes, Commands
<1>3. tx'[p] = Idle /\ \A q \in Proc \ {p} : tx'[q] = tx[q]
  BY <1>1 DEF SetupTypes
<1>4. tx'[p].at = "idle"
  BY <1>3 DEF Idle
<1>5. \A q \in Proc \ {p} : At(q) \notin Locked
  BY DEF LockInv
<1>6. \A q \in Proc : At(q)' \notin Locked
  BY <1>3, <1>4, <1>5 DEF At, Locked, SetupSteps, RemovalSteps
<1>7. LockInv'
  <2>1. \A q \in Proc : lock' # q
    BY <1>1, SetupAssumption
  <2>2. ASSUME NEW q \in Proc, At(q)' \in SetupSteps \cup {"setup"}
        PROVE  tx'[q].build <= build'
    <3>1. q # p
      BY <1>4, <2>2 DEF At, SetupSteps
    <3> QED
      BY <1>3, <2>2, <3>1 DEF LockInv, At
  <2> QED
    BY <1>6, <2>1, <2>2 DEF LockInv
<1>8. KeptInv'
  BY <1>1, SetupAssumption DEF KeptInv, Kept
<1>9. HolderInv'
  BY <1>6 DEF HolderInv, At, Locked, SetupSteps, RemovalSteps, Undone, Recorded, Serves
<1> QED
  BY <1>2, <1>7, <1>8, <1>9

\* What a step of setup, or of a removal, may count on.
LEMMA HolderFacts ==
    ASSUME SetupInv, NEW p \in Proc
    PROVE  /\ tx[p] \in Commands
           /\ At(p) \in SetupSteps =>
                tx[p] \in Setups /\ lock = p /\ tx[p].build <= build /\ Kept(tx[p].h0)
           /\ At(p) \in RemovalSteps => tx[p] \in LockedRemovals /\ lock = p /\ Kept(tx[p].h0)
           /\ Kept(hooks) /\ Undone(tx[p]) /\ Recorded(tx[p]) /\ Serves(tx[p])
<1>1. tx[p] \in Commands
  BY DEF SetupInv, SetupTypes
<1>2. At(p) \in Locked => lock = p /\ Kept(tx[p].h0)
  BY DEF SetupInv, LockInv, KeptInv
<1> QED
  BY <1>1, <1>2, StepShapes DEF SetupInv, LockInv, KeptInv, HolderInv, At, Locked

-----------------------------------------------------------------------------
(***************************************************************************)
(* The steps.                                                              *)
(***************************************************************************)
LEMMA InitKeeps == Init => SetupInv
<1> SUFFICES ASSUME Init PROVE SetupInv
  OBVIOUS
<1>1. hooks \in HookFiles \cup {None} /\ wanted \in SUBSET {"u"} /\ Kept(hooks)
  <2>1. PICK user \in SUBSET {"u"}, ours \in {{}, {Legacy}} :
          /\ wanted = user
          /\ \/ hooks = [user |-> user, ours |-> ours]
             \/ hooks = None /\ user = {} /\ ours = {}
    BY DEF Init
  <2>2. [user |-> user, ours |-> ours] \in HookFiles
    BY DEF HookFiles, Generations, Legacy
  <2>3. [user |-> user, ours |-> ours] # None
    BY <2>2, SetupAssumption
  <2> QED
    BY <2>1, <2>2, <2>3 DEF Kept, Content
<1>2. \A p \in Proc : tx[p] = Idle /\ tx[p].at = "idle" /\ lock # p
  BY SetupAssumption DEF Init, Idle
<1>3. SetupTypes
  BY <1>1 DEF SetupTypes, Init, Commands
<1>4. LockInv /\ KeptInv
  BY <1>1, <1>2 DEF LockInv, KeptInv, At, Locked, SetupSteps, RemovalSteps
<1>5. HolderInv
  BY <1>2 DEF HolderInv, Undone, Recorded, Serves, RemovalSteps
<1> QED
  BY <1>3, <1>4, <1>5 DEF SetupInv

\* A command that is begun, or refused, has changed nothing.
LEMMA FreeSteps ==
    ASSUME SetupInv, NEW p \in Proc,
           \/ Command(p) \/ Refuse(p)
           \/ (Inspect(p) /\ lock' = lock) \/ (LockRemoval(p) /\ lock' = lock)
    PROVE  SetupInv'
<1>1. crashes \in Nat /\ build \in Nat /\ Idle \in Commands /\ Idle.at = "idle"
  BY DEF SetupInv, SetupTypes, Commands, Idle
<1>2. ASSUME At(p) \in {"idle", "setup", "teardown", "purge"}, tx' = [tx EXCEPT ![p] = Idle],
             lock' = lock, UNCHANGED <<files, daemon, build, wanted, raced, crashes>>
      PROVE  SetupInv'
  <2>1. At(p) \notin Locked
    BY <1>2 DEF Locked, SetupSteps, RemovalSteps
  <2>2. "idle" \notin Locked
    BY DEF Locked, SetupSteps, RemovalSteps
  <2> QED
    BY <1>1, <1>2, <2>1, <2>2, FreeStep
<1>3. ASSUME NEW mode \in Modes, NEW ask \in Endpoints \cup {None}, BeginSetup(p, mode, ask)
      PROVE  SetupInv'
  <2>1. PICK t : t = [at |-> "setup", mode |-> mode, ask |-> ask, build |-> build]
    OBVIOUS
  <2>2. CASE tx' = [tx EXCEPT ![p] = Idle]
    BY <1>2, <1>3, <2>2 DEF BeginSetup, runtime, world
  <2>3. CASE tx' = [tx EXCEPT ![p] = t]
    <3>1. t \in Commands /\ t.at = "setup" /\ t.build = build
      BY <1>1, <2>1 DEF Commands, Asked
    <3>2. At(p) \notin Locked /\ "setup" \notin Locked
      BY <1>3 DEF BeginSetup, Locked, SetupSteps, RemovalSteps
    <3>3. UNCHANGED <<files, daemon, build, wanted, raced, lock, crashes>>
      BY <1>3 DEF BeginSetup, runtime, world
    <3>4. t.at \notin Locked /\ t.build <= build /\ crashes' \in Nat
      BY <1>1, <3>1, <3>2, <3>3
    <3>5. UNCHANGED <<files, daemon, build, wanted, raced>> /\ lock' = lock
      BY <3>3
    <3> QED
      BY <2>3, <3>1, <3>2, <3>4, <3>5, FreeStep
  <2> QED
    BY <1>3, <2>1, <2>2, <2>3 DEF BeginSetup
<1>4. ASSUME NEW x \in {[at |-> "teardown"], [at |-> "purge"]},
             (BeginTeardown(p) /\ x.at = "teardown") \/ (BeginPurge(p) /\ x.at = "purge")
      PROVE  SetupInv'
  <2>1. x \in Commands /\ x.at \in {"teardown", "purge"}
    BY <1>4 DEF Commands, Removals
  <2>2. At(p) \notin Locked /\ x.at \notin Locked /\ x.at # "setup"
    BY <1>4, <2>1 DEF BeginTeardown, BeginPurge, Locked, SetupSteps, RemovalSteps
  <2>3. UNCHANGED <<files, daemon, build, wanted, raced, lock, crashes>>
    BY <1>4 DEF BeginTeardown, BeginPurge, runtime, world
  <2>4. tx' = [tx EXCEPT ![p] = x]
    BY <1>4 DEF BeginTeardown, BeginPurge
  <2> QED
    BY <1>1, <2>1, <2>2, <2>3, <2>4, FreeStep
<1>5. CASE Refuse(p) \/ (Inspect(p) /\ lock' = lock) \/ (LockRemoval(p) /\ lock' = lock)
  <2>1. p # None
    BY SetupAssumption
  <2>2. /\ At(p) \in {"setup", "teardown", "purge"} /\ lock = None
        /\ UNCHANGED <<files, daemon, build, wanted, raced, crashes>>
    BY <1>5 DEF Refuse, Inspect, LockRemoval, runtime, world, bounds
  <2>3. End(p) \/ lock' = p
    BY <1>5 DEF Refuse, Inspect, LockRemoval
  <2>4. End(p) => tx' = [tx EXCEPT ![p] = Idle] /\ lock' = lock
    BY <2>1, <2>2 DEF End
  <2>5. lock' = lock
    BY <1>5, <2>3, <2>4 DEF Refuse
  <2> QED
    BY <1>2, <2>1, <2>2, <2>3, <2>4, <2>5
<1>6. CASE Command(p)
  <2>1. CASE \E mode \in Modes, ask \in Endpoints \cup {None} : BeginSetup(p, mode, ask)
    BY <1>3, <2>1
  <2>2. CASE BeginTeardown(p)
    <3>1. PICK x \in {[at |-> "teardown"], [at |-> "purge"]} : x.at = "teardown"
      OBVIOUS
    <3> QED
      BY <1>4, <2>2, <3>1
  <2>3. CASE BeginPurge(p)
    <3>1. PICK x \in {[at |-> "teardown"], [at |-> "purge"]} : x.at = "purge"
      OBVIOUS
    <3> QED
      BY <1>4, <2>3, <3>1
  <2> QED
    BY <1>6, <2>1, <2>2, <2>3 DEF Command
<1> QED
  BY <1>5, <1>6

\* What is read when the lock is taken is what there is.
LEMMA InspectKeeps ==
    ASSUME SetupInv, NEW p \in Proc, Inspect(p)
    PROVE  SetupInv'
<1>1. CASE lock' = lock
  BY <1>1, FreeSteps
<1>2. CASE lock' # lock
  <2> DEFINE ep == IF tx[p].ask = None /\ manifest # None THEN manifest.ep ELSE tx[p].ask
  <2>1. PICK x : x =
          [at |-> "hooks", mode |-> tx[p].mode, ask |-> tx[p].ask, build |-> tx[p].build,
           h0 |-> hooks, m0 |-> manifest, p0 |-> plugin, ep |-> ep,
           ran |-> daemon # None, attempted |-> FALSE]
    OBVIOUS
  <2>2. lock = None /\ lock' = p /\ tx' = [tx EXCEPT ![p] = x]
    BY <1>2, <2>1, SetupAssumption DEF Inspect, End
  <2>3. tx[p] \in Asked /\ tx[p].build <= build
    BY StepShapes DEF Inspect, SetupInv, SetupTypes, LockInv, At
  <2>4. ep \in Endpoints \cup {None}
    BY <2>3 DEF SetupInv, SetupTypes, Manifests, Asked
  <2>5. (daemon # None) \in BOOLEAN
    OBVIOUS
  <2>6. tx[p].mode \in Modes /\ tx[p].ask \in Endpoints \cup {None} /\ tx[p].build \in Nat
    BY <2>3 DEF Asked
  <2>7. "hooks" \in SetupSteps
    BY DEF SetupSteps
  <2> HIDE DEF ep
  <2>8. x \in Setups
    BY <2>1, <2>4, <2>5, <2>6, <2>7 DEF SetupInv, SetupTypes, Setups
  <2>9. x.at = "hooks" /\ x.build <= build /\ x.h0 = hooks
    BY <2>1, <2>3
  <2>10. UNCHANGED <<hooks, plugin, manifest, build, wanted, raced, crashes>>
    BY DEF Inspect, files, world, bounds
  <2>11. Kept(hooks)' /\ Kept(x.h0)
    BY <2>9, <2>10 DEF SetupInv, KeptInv, Kept
  <2>12. Undone(x)' /\ Recorded(x)' /\ Serves(x)'
    BY <2>9 DEF Undone, Recorded, Serves, RemovalSteps
  <2>13. x \in Commands /\ x.at \in Locked
    BY <2>7, <2>8, <2>9 DEF Commands, Locked
  <2> QED
    BY <2>2, <2>9, <2>10, <2>11, <2>12, <2>13, LockedStep DEF SetupInv, SetupTypes
<1> QED
  BY <1>1, <1>2

\* The same of a teardown or purge.
LEMMA LockRemovalKeeps ==
    ASSUME SetupInv, NEW p \in Proc, LockRemoval(p)
    PROVE  SetupInv'
<1>1. CASE lock' = lock
  BY <1>1, FreeSteps
<1>2. CASE lock' # lock
  <2>1. PICK x : x = [at |-> "remove hooks", cmd |-> At(p), m0 |-> manifest, h0 |-> hooks]
    OBVIOUS
  <2>2. lock = None /\ lock' = p /\ tx' = [tx EXCEPT ![p] = x]
    BY <1>2, <2>1, SetupAssumption DEF LockRemoval, End
  <2>3. manifest # None /\ At(p) \in {"teardown", "purge"}
    BY <1>2, SetupAssumption DEF LockRemoval, End, Exact
  <2>4. x \in LockedRemovals
    BY <2>1, <2>3 DEF LockedRemovals, RemovalSteps, SetupInv, SetupTypes
  <2>5. x.at = "remove hooks" /\ x.h0 = hooks
    BY <2>1
  <2>6. UNCHANGED <<hooks, plugin, manifest, build, wanted, raced, crashes>>
    BY DEF LockRemoval, files, world, bounds
  <2>7. Kept(hooks)' /\ Kept(x.h0)
    BY <2>5, <2>6 DEF SetupInv, KeptInv, Kept
  <2>8. Undone(x)' /\ Recorded(x)' /\ Serves(x)'
    BY <2>3, <2>5, <2>6 DEF Undone, Recorded, Serves
  <2>9. x \in Commands /\ x.at \in Locked /\ x.at \notin SetupSteps
    BY <2>4, <2>5 DEF Commands, Locked, RemovalSteps, SetupSteps
  <2> QED
    BY <2>2, <2>5, <2>6, <2>7, <2>8, <2>9, LockedStep DEF SetupInv, SetupTypes
<1> QED
  BY <1>1, <1>2

\* Writing the entries, then the manifest.
LEMMA WriteKeeps ==
    ASSUME SetupInv, NEW p \in Proc, WriteHooks(p) \/ RemovePlugin(p) \/ SaveManifest(p)
    PROVE  SetupInv'
<1>1. At(p) \in SetupSteps
  BY DEF WriteHooks, RemovePlugin, SaveManifest, SetupSteps
<1>2. /\ tx[p] \in Setups /\ lock = p /\ tx[p].build <= build /\ Kept(tx[p].h0)
      /\ Kept(hooks)
  BY <1>1, HolderFacts
<1>3. tx[p].h0 \in HookFiles \cup {None} /\ tx[p].p0 \in BOOLEAN
  BY <1>2 DEF Setups
<1>4. UNCHANGED <<build, wanted, raced, crashes, lock>>
  BY DEF WriteHooks, RemovePlugin, SaveManifest, world, bounds
<1>5. PICK at \in {"plugin", "manifest", "service"} :
        Go(p, at) /\ (at = "service" => manifest' = Configuring(tx[p]))
  BY DEF WriteHooks, RemovePlugin, SaveManifest
<1>6. PICK x : x = [tx[p] EXCEPT !.at = at]
  OBVIOUS
<1>7. x \in Setups /\ tx' = [tx EXCEPT ![p] = x]
  <2>1. at \in SetupSteps
    BY DEF SetupSteps
  <2> QED
    BY <1>1, <1>5, <1>6, <2>1, GoTypes DEF SetupInv, SetupTypes
<1>8. x.at = at /\ x.h0 = tx[p].h0 /\ x.build = tx[p].build /\ x.mode = tx[p].mode
  BY <1>2, <1>6 DEF Setups
<1>9. hooks' \in HookFiles \cup {None} /\ plugin' \in BOOLEAN /\ Kept(hooks)'
  BY <1>2, <1>3, <1>4, MigratedKeeps, ZenonT(40)
     DEF WriteHooks, RemovePlugin, SaveManifest, Kept, SetupInv, SetupTypes
<1>10. manifest' \in Manifests \cup {None}
  BY <1>2, ConfiguringTypes DEF WriteHooks, RemovePlugin, SaveManifest, SetupInv, SetupTypes
<1>11. Undone(x)' /\ Serves(x)'
  BY <1>8 DEF Undone, Serves
<1>12. Recorded(x)'
  BY <1>2, <1>5, <1>8, ConfiguringTypes, SetupAssumption, ZenonT(40)
     DEF Recorded, RemovalSteps
<1>13. x \in Commands /\ x.at \in Locked /\ x.build <= build
  BY <1>2, <1>7, <1>8 DEF Commands, Locked, SetupSteps
<1>14. Kept(x.h0)
  BY <1>2, <1>8
<1> QED
  BY <1>2, <1>4, <1>7, <1>9, <1>10, <1>11, <1>12, <1>13, <1>14, LockedStep

\* A service that started is what setup reports, if it gets that far.
LEMMA StartServiceKeeps ==
    ASSUME SetupInv, NEW p \in Proc, StartService(p)
    PROVE  SetupInv'
<1>1. At(p) = "service"
  BY DEF StartService
<1>2. /\ tx[p] \in Setups /\ lock = p /\ tx[p].build <= build /\ Kept(tx[p].h0)
      /\ Kept(hooks) /\ Recorded(tx[p])
  BY <1>1, HolderFacts DEF SetupSteps
<1>3. PICK after \in IF RestartRequired(tx[p]) THEN Restart(tx[p], manifest)
                     ELSE Start(tx[p], manifest) :
        /\ Becomes(after)
        /\ tx' = [tx EXCEPT ![p].attempted = TRUE,
                            ![p].at = IF \/ after.health = "healthy"
                                         \/ (after.health = "degraded" /\ tx[p].ep # None)
                                      THEN "verify" ELSE "undo hooks"]
  BY DEF StartService
<1>4. UNCHANGED <<hooks, plugin, manifest, build, wanted, raced, crashes, lock>>
  BY DEF StartService, files, world, bounds
<1>5. PICK at \in {"verify", "undo hooks"} :
        /\ tx' = [tx EXCEPT ![p].attempted = TRUE, ![p].at = at]
        /\ at = "verify" => after.health \in {"healthy", "degraded"}
  BY <1>3
<1>6. PICK x : x = [tx[p] EXCEPT !.attempted = TRUE, !.at = at]
  OBVIOUS
<1>7. tx' = [tx EXCEPT ![p] = x]
  BY <1>5, <1>6 DEF SetupInv, SetupTypes
<1>8. x \in Setups /\ x.at = at /\ x.h0 = tx[p].h0 /\ x.build = tx[p].build /\ x.mode = tx[p].mode
  BY <1>2, <1>6 DEF Setups, SetupSteps
<1>9. Undone(x)' /\ Recorded(x)'
  BY <1>1, <1>2, <1>4, <1>8 DEF Undone, Recorded, RemovalSteps, At
<1>10. Serves(x)'
  <2> SUFFICES ASSUME at = "verify", tx[p].mode = "managed", daemon' # None, ~Outside(daemon')
               PROVE  Runs(daemon, manifest)'
    BY <1>8 DEF Serves
  <2>1. after \in ManagedRestart(unit, daemon, tx[p], manifest)
                    \cup ManagedStart(unit, daemon, tx[p], manifest)
    BY <1>3 DEF Restart, Start
  <2>2. Outside(after.daemon) \/ Matches(after.daemon, tx[p], manifest)
    BY <1>5, <2>1, ManagedHealth
  <2>3. daemon' = after.daemon
    BY <1>3 DEF Becomes
  <2>4. daemon'.build = tx[p].build /\ daemon'.for = Construction(manifest)
    BY <2>2, <2>3 DEF Matches
  <2>5. manifest.build = tx[p].build
    BY <1>1, <1>2 DEF Recorded, At
  <2> QED
    BY <1>4, <2>4, <2>5 DEF Runs, Construction
<1>11. x \in Commands /\ x.at \in Locked /\ x.build <= build
  BY <1>2, <1>8 DEF Commands, Locked, SetupSteps
<1>12. Kept(hooks)' /\ Kept(x.h0)
  BY <1>2, <1>4, <1>8 DEF Kept
<1>13. /\ hooks' \in HookFiles \cup {None} /\ plugin' \in BOOLEAN
       /\ manifest' \in Manifests \cup {None}
  BY <1>4 DEF SetupInv, SetupTypes
<1> QED
  BY <1>2, <1>4, <1>7, <1>9, <1>10, <1>11, <1>12, <1>13, LockedStep

\* What is verified is still so, and what failed begins its rollback.
LEMMA VerifyFailKeeps ==
    ASSUME SetupInv, NEW p \in Proc, Verify(p) \/ Fail(p)
    PROVE  SetupInv'
<1>1. At(p) \in SetupSteps
  BY DEF Verify, Fail, SetupSteps
<1>2. /\ tx[p] \in Setups /\ lock = p /\ tx[p].build <= build /\ Kept(tx[p].h0)
      /\ Kept(hooks) /\ Recorded(tx[p]) /\ Serves(tx[p])
  BY <1>1, HolderFacts
<1>3. UNCHANGED <<hooks, plugin, manifest, daemon, build, wanted, raced, crashes, lock>>
  BY DEF Verify, Fail, files, runtime, world, bounds
<1>4. PICK x \in Setups :
        /\ tx' = [tx EXCEPT ![p] = x]
        /\ x.h0 = tx[p].h0 /\ x.build = tx[p].build /\ x.mode = tx[p].mode
        /\ x.at = "undo hooks" \/ (x.at = "commit" /\ At(p) = "verify")
  <2>1. CASE Verify(p)
    <3>1. PICK x : x = [tx[p] EXCEPT !.at = "commit"]
      OBVIOUS
    <3>2. x \in Setups /\ tx' = [tx EXCEPT ![p] = x]
      BY <1>1, <2>1, <3>1, GoTypes DEF Verify, SetupSteps, SetupInv, SetupTypes
    <3> QED
      BY <1>2, <2>1, <3>1, <3>2 DEF Setups, Verify
  <2>2. CASE Fail(p)
    <3>1. PICK x : x = [tx[p] EXCEPT !.at = "undo hooks", !.attempted = @ \/ At(p) = "service"]
      OBVIOUS
    <3>2. tx' = [tx EXCEPT ![p] = x]
      BY <2>2, <3>1 DEF Fail, SetupInv, SetupTypes
    <3>3. x \in Setups /\ x.at = "undo hooks"
      BY <1>2, <3>1 DEF Setups, SetupSteps
    <3> QED
      BY <1>2, <3>1, <3>2, <3>3 DEF Setups
  <2> QED
    BY <2>1, <2>2
<1>5. Undone(x)' /\ Recorded(x)'
  BY <1>2, <1>3, <1>4 DEF Undone, Recorded, RemovalSteps, At
<1>6. Serves(x)'
  BY <1>2, <1>3, <1>4 DEF Serves, Runs, Construction, Outside, At
<1>7. x \in Commands /\ x.at \in Locked /\ x.build <= build
  BY <1>2, <1>4 DEF Commands, Setups, Locked
<1>8. Kept(hooks)' /\ Kept(x.h0)
  BY <1>2, <1>3, <1>4 DEF Kept
<1>9. hooks' \in HookFiles \cup {None} /\ plugin' \in BOOLEAN /\ manifest' \in Manifests \cup {None}
  BY <1>3 DEF SetupInv, SetupTypes
<1> QED
  BY <1>2, <1>3, <1>4, <1>5, <1>6, <1>7, <1>8, <1>9, LockedStep

\* Success is written over the manifest that setup wrote.
LEMMA CommitKeeps ==
    ASSUME SetupInv, NEW p \in Proc, Commit(p)
    PROVE  SetupInv'
<1>1. At(p) = "commit" /\ At(p) \in SetupSteps
  BY DEF Commit, SetupSteps
<1>2. lock = p /\ Kept(hooks) /\ Recorded(tx[p])
  BY <1>1, HolderFacts
<1>3. manifest \in Manifests
  BY <1>1, <1>2 DEF Recorded, At, SetupInv, SetupTypes
<1>4. manifest' \in Manifests /\ UNCHANGED <<hooks, plugin, build, wanted, raced, crashes>>
  BY <1>3, ManifestUpdates DEF Commit, world, bounds
<1>5. End(p)
  BY DEF Commit
<1> QED
  BY <1>2, <1>4, <1>5, LastStep DEF SetupInv, SetupTypes, Kept

\* The rollback puts back what was read, one thing after the other.
LEMMA UndoKeeps ==
    ASSUME SetupInv, NEW p \in Proc, UndoHooks(p) \/ UndoPlugin(p) \/ UndoManifest(p)
    PROVE  SetupInv'
<1>1. At(p) \in {"undo hooks", "undo plugin", "undo manifest"} /\ At(p) \in SetupSteps
  BY DEF UndoHooks, UndoPlugin, UndoManifest, SetupSteps
<1>2. /\ tx[p] \in Setups /\ lock = p /\ tx[p].build <= build /\ Kept(tx[p].h0)
      /\ Kept(hooks) /\ Undone(tx[p])
  BY <1>1, HolderFacts
<1>3. UNCHANGED <<daemon, build, wanted, raced, crashes, lock>>
  BY DEF UndoHooks, UndoPlugin, UndoManifest, runtime, world, bounds
<1>4. PICK at \in {"undo plugin", "undo manifest", "undo service"} :
        /\ Go(p, at)
        /\ \/ UndoHooks(p) /\ at = "undo plugin"
           \/ UndoPlugin(p) /\ at = "undo manifest"
           \/ UndoManifest(p) /\ at = "undo service"
  BY DEF UndoHooks, UndoPlugin, UndoManifest
<1>5. PICK x : x = [tx[p] EXCEPT !.at = at]
  OBVIOUS
<1>6. x \in Setups /\ tx' = [tx EXCEPT ![p] = x]
  <2>1. at \in SetupSteps
    BY DEF SetupSteps
  <2> QED
    BY <1>1, <1>4, <1>5, <2>1, GoTypes DEF SetupInv, SetupTypes
<1>7. /\ x.at = at /\ x.build = tx[p].build
      /\ x.h0 = tx[p].h0 /\ x.p0 = tx[p].p0 /\ x.m0 = tx[p].m0
  BY <1>2, <1>5 DEF Setups
<1>8. Undone(x)'
  <2>1. CASE UndoHooks(p) /\ at = "undo plugin"
    BY <1>7, <2>1 DEF UndoHooks, Undone
  <2>2. CASE UndoPlugin(p) /\ at = "undo manifest"
    BY <1>2, <1>3, <1>7, <2>2 DEF UndoPlugin, Undone, At
  <2>3. CASE UndoManifest(p) /\ at = "undo service"
    BY <1>2, <1>3, <1>7, <2>3 DEF UndoManifest, Undone, At
  <2> QED
    BY <1>4, <2>1, <2>2, <2>3
<1>9. Recorded(x)' /\ Serves(x)'
  BY <1>7 DEF Recorded, Serves, RemovalSteps
<1>10. x \in Commands /\ x.at \in Locked /\ x.build <= build
  BY <1>2, <1>6, <1>7 DEF Commands, Setups, Locked
<1>11. /\ hooks' \in HookFiles \cup {None} /\ plugin' \in BOOLEAN
       /\ manifest' \in Manifests \cup {None}
  BY <1>2 DEF UndoHooks, UndoPlugin, UndoManifest, Setups, SetupInv, SetupTypes
<1>12. Kept(hooks)' /\ Kept(x.h0)
  BY <1>2, <1>3, <1>7 DEF UndoHooks, UndoPlugin, UndoManifest, Kept
<1> QED
  BY <1>2, <1>3, <1>6, <1>8, <1>9, <1>10, <1>11, <1>12, LockedStep

\* The rollback ends with the service, which the lock's holder alone starts or stops.
LEMMA UndoServiceKeeps ==
    ASSUME SetupInv, NEW p \in Proc, UndoService(p)
    PROVE  SetupInv'
<1>1. At(p) \in SetupSteps
  BY DEF UndoService, SetupSteps
<1>2. lock = p /\ Kept(hooks)
  BY <1>1, HolderFacts
<1>3. End(p) /\ UNCHANGED <<hooks, plugin, manifest, build, wanted, raced, crashes>>
  BY DEF UndoService, files, world, bounds
<1> QED
  BY <1>2, <1>3, LastStep DEF SetupInv, SetupTypes, Kept

\* A teardown or purge strips hooks.json, and stops the service.
LEMMA RemovalKeeps ==
    ASSUME SetupInv, NEW p \in Proc, RemoveHooks(p) \/ RemoveService(p)
    PROVE  SetupInv'
<1>1. At(p) \in RemovalSteps
  BY DEF RemoveHooks, RemoveService, RemovalSteps
<1>2. tx[p] \in LockedRemovals /\ lock = p /\ Kept(tx[p].h0) /\ Kept(hooks) /\ Recorded(tx[p])
  BY <1>1, HolderFacts
<1>3. UNCHANGED <<plugin, manifest, build, wanted, raced, crashes, lock>>
  BY DEF RemoveHooks, RemoveService, files, world, bounds
<1>4. PICK at \in RemovalSteps : Go(p, at)
  <2>1. CASE RemoveHooks(p)
    BY <2>1 DEF RemoveHooks, RemovalSteps
  <2>2. CASE RemoveService(p)
    <3>1. Go(p, "remove manifest") \/ Go(p, "restore hooks")
      BY <2>2 DEF RemoveService
    <3> QED
      BY <3>1 DEF RemovalSteps
  <2> QED
    BY <2>1, <2>2
<1>5. PICK x : x = [tx[p] EXCEPT !.at = at]
  OBVIOUS
<1>6. x \in LockedRemovals /\ tx' = [tx EXCEPT ![p] = x]
  BY <1>1, <1>4, <1>5, GoTypes DEF SetupInv, SetupTypes
<1>7. x.at = at /\ x.h0 = tx[p].h0
  BY <1>2, <1>5 DEF LockedRemovals
<1>8. hooks' \in HookFiles \cup {None} /\ Kept(hooks)'
  <2>1. tx[p].h0 \in HookFiles \cup {None} /\ tx[p].m0 \in Manifests
    BY <1>2 DEF LockedRemovals
  <2> QED
    BY <1>2, <1>3, <2>1, StrippedKeeps, ZenonT(40)
       DEF RemoveHooks, RemoveService, files, Kept, SetupInv, SetupTypes
<1>9. Undone(x)' /\ Serves(x)'
  BY <1>7 DEF Undone, Serves, RemovalSteps
<1>10. Recorded(x)'
  BY <1>1, <1>2, <1>3, <1>7 DEF Recorded, RemovalSteps, At
<1>11. x \in Commands /\ x.at \in Locked /\ x.at \notin SetupSteps
  BY <1>6, <1>7 DEF Commands, Locked, SetupSteps, RemovalSteps
<1>12. plugin' \in BOOLEAN /\ manifest' \in Manifests \cup {None}
  BY <1>3 DEF SetupInv, SetupTypes
<1> QED
  BY <1>2, <1>3, <1>6, <1>7, <1>8, <1>9, <1>10, <1>11, <1>12, LockedStep

\* The last step of a teardown or purge.
LEMMA RemovalEnds ==
    ASSUME SetupInv, NEW p \in Proc, RestoreHooks(p) \/ RemoveManifest(p) \/ FailRemoval(p)
    PROVE  SetupInv'
<1>1. At(p) \in RemovalSteps
  BY DEF RestoreHooks, RemoveManifest, FailRemoval, RemovalSteps
<1>2. tx[p] \in LockedRemovals /\ lock = p /\ Kept(tx[p].h0) /\ Kept(hooks) /\ Recorded(tx[p])
  BY <1>1, HolderFacts
<1>3. End(p) /\ UNCHANGED <<plugin, build, wanted, raced, crashes>>
  BY DEF RestoreHooks, RemoveManifest, FailRemoval, files, world, bounds
<1>4. manifest \in Manifests
  BY <1>1, <1>2 DEF Recorded, At, SetupInv, SetupTypes
<1>5. hooks' \in {hooks, tx[p].h0} /\ manifest' \in {manifest, None, Tombstone(manifest)}
  BY DEF RestoreHooks, RemoveManifest, FailRemoval, files
<1>6. hooks' \in HookFiles \cup {None} /\ Kept(hooks)'
  BY <1>2, <1>3, <1>5 DEF LockedRemovals, Kept, SetupInv, SetupTypes
<1>7. manifest' \in Manifests \cup {None}
  BY <1>4, <1>5, ManifestUpdates
<1> QED
  BY <1>2, <1>3, <1>6, <1>7, LastStep DEF SetupInv, SetupTypes

\* A command that is killed leaves everything where it was.
LEMMA CrashKeeps ==
    ASSUME SetupInv, NEW p \in Proc, Crash(p)
    PROVE  SetupInv'
<1>1. /\ End(p) /\ crashes' \in Nat
      /\ UNCHANGED <<files, daemon, build, wanted, raced>>
      /\ UNCHANGED <<hooks, plugin, manifest>>
  BY DEF Crash, files, runtime, world, SetupInv, SetupTypes
<1>2. CASE lock = p
  BY <1>1, <1>2, LastStep DEF SetupInv, SetupTypes, KeptInv, Kept
<1>3. CASE lock # p
  <2>1. At(p) \notin Locked
    BY <1>3 DEF SetupInv, LockInv
  <2>2. Idle \in Commands /\ Idle.at \notin Locked /\ Idle.at # "setup"
    BY DEF Commands, Idle, Locked, SetupSteps, RemovalSteps
  <2> QED
    BY <1>1, <1>3, <2>1, <2>2, FreeStep DEF End
<1> QED
  BY <1>2, <1>3

-----------------------------------------------------------------------------
(***************************************************************************)
(* The user, the package and the machine.                                  *)
(***************************************************************************)
\* What the user does to hooks.json is what the user wants there.
LEMMA EditKeeps ==
    ASSUME SetupInv, EditHooks
    PROVE  SetupInv'
<1> USE DEF SetupInv
<1>1. /\ UNCHANGED <<plugin, manifest, unit, daemon, build, crashes, lock, tx>>
      /\ raced' = (raced \/ lock # None)
  BY DEF EditHooks, runtime, bounds
<1>2. Content(hooks) \in HookFiles
  BY ContentTypes DEF SetupTypes
<1>3. /\ hooks' \in HookFiles \cup {None} /\ wanted' \in SUBSET {"u"}
      /\ Content(hooks).user = wanted => Content(hooks').user = wanted'
  <2>1. ASSUME NEW user \in SUBSET {"u"}, wanted' = user,
               hooks' = [user |-> user, ours |-> Content(hooks).ours]
        PROVE  hooks' \in HookFiles /\ Content(hooks').user = wanted'
    <3>1. hooks' \in HookFiles
      BY <1>2, <2>1 DEF HookFiles
    <3> QED
      BY <2>1, <3>1, SetupAssumption DEF Content
  <2>2. ASSUME Content(hooks).ours # {}, hooks' = [hooks EXCEPT !.ours = {Edited}],
               UNCHANGED wanted
        PROVE  /\ hooks' \in HookFiles /\ wanted' \in SUBSET {"u"}
               /\ Content(hooks).user = wanted => Content(hooks').user = wanted'
    <3>1. hooks \in HookFiles /\ Content(hooks) = hooks
      BY <2>2, SetupAssumption DEF SetupTypes, Content
    <3>2. hooks' \in HookFiles /\ hooks'.user = hooks.user
      BY <2>2, <3>1 DEF HookFiles, Generations, Edited
    <3>3. Content(hooks') = hooks'
      BY <3>2, SetupAssumption DEF Content
    <3> QED
      BY <2>2, <3>1, <3>2, <3>3 DEF SetupTypes
  <2> QED
    BY <2>1, <2>2 DEF EditHooks
<1>4. SetupTypes'
  BY <1>1, <1>3 DEF SetupTypes
<1>5. LockInv'
  BY <1>1 DEF LockInv, At
<1>6. KeptInv'
  <2>1. CASE raced'
    BY <2>1 DEF KeptInv, Kept
  <2>2. CASE ~raced'
    BY <1>1, <1>3, <2>2, SetupAssumption DEF KeptInv, Kept
  <2> QED
    BY <2>1, <2>2
<1>7. ASSUME NEW p \in Proc
      PROVE  (Undone(tx[p]) /\ Recorded(tx[p]) /\ Serves(tx[p]))'
  <2>1. tx[p].at \in Locked => raced'
    BY <1>1, SetupAssumption DEF LockInv, At
  <2> QED
    BY <1>1, <2>1
       DEF HolderInv, Undone, Recorded, Serves, Runs, Construction, Outside, Locked, SetupSteps
<1> QED
  BY <1>4, <1>5, <1>6, <1>7 DEF HolderInv

\* A package that was upgraded, and a service that the login started, are told apart.
LEMMA MachineKeeps ==
    ASSUME SetupInv, Upgrade \/ Relogin
    PROVE  SetupInv'
<1> USE DEF SetupInv
<1>1. /\ UNCHANGED <<hooks, plugin, manifest, wanted, raced, crashes, lock, tx>>
      /\ build' \in {build, build + 1}
  BY DEF Upgrade, Relogin, files, world, bounds
<1>2. SetupTypes'
  BY <1>1 DEF SetupTypes
<1>3. LockInv'
  <2>1. ASSUME NEW p \in Proc, At(p) \in SetupSteps \cup {"setup"}
        PROVE  tx[p].build <= build'
    <3>1. tx[p].build \in Nat /\ tx[p].build <= build
      BY <2>1, StepShapes DEF SetupTypes, LockInv, At, Setups, Asked
    <3> QED
      BY <1>1, <3>1 DEF SetupTypes
  <2> QED
    BY <1>1, <2>1 DEF LockInv, At
<1>4. KeptInv'
  BY <1>1 DEF KeptInv, Kept
<1>5. ASSUME NEW p \in Proc
      PROVE  (Undone(tx[p]) /\ Recorded(tx[p]) /\ Serves(tx[p]))'
  <2>1. (Undone(tx[p]) /\ Recorded(tx[p]))'
    BY <1>1 DEF HolderInv, Undone, Recorded
  <2>2. ASSUME tx[p].at \in {"verify", "commit"}, tx[p].mode = "managed", daemon' # None,
               ~Outside(daemon')
        PROVE  Runs(daemon, manifest)'
    <3>1. CASE Upgrade
      <4>1. daemon' = daemon /\ build' = build + 1
        BY <3>1 DEF Upgrade, runtime
      <4>2. manifest.build = tx[p].build
        BY <2>2 DEF HolderInv, Recorded
      <4>3. tx[p].build \in Nat /\ tx[p].build <= build
        BY <2>2, StepShapes DEF SetupTypes, LockInv, At, Setups, SetupSteps
      <4>4. build' # manifest.build
        BY <4>1, <4>2, <4>3 DEF SetupTypes
      <4>5. daemon.for = Construction(manifest)
        BY <2>2, <4>1 DEF HolderInv, Serves, Runs
      <4> QED
        BY <1>1, <4>1, <4>4, <4>5 DEF Runs, Construction
    <3>2. CASE Relogin
      <4>1. daemon' = Fresh("managed", manifest) /\ build' = build
        BY <2>2, <3>2 DEF Relogin, world
      <4>2. daemon'.for = Construction(manifest) /\ daemon'.build = build
        BY <4>1 DEF Fresh
      <4> QED
        BY <1>1, <4>1, <4>2 DEF Runs, Construction
    <3> QED
      BY <3>1, <3>2
  <2>3. Serves(tx[p])'
    BY <1>1, <2>2 DEF Serves
  <2> QED
    BY <2>1, <2>3
<1> QED
  BY <1>2, <1>3, <1>4, <1>5 DEF HolderInv

\* Every step keeps it.
LEMMA NextKeeps ==
    ASSUME SetupInv, [Next]_vars
    PROVE  SetupInv'
<1>1. ASSUME NEW p \in Proc, Command(p)
      PROVE  SetupInv'
  BY <1>1, FreeSteps
<1>2. ASSUME NEW p \in Proc, Setup(p)
      PROVE  SetupInv'
  <2>1. CASE Inspect(p) \/ Refuse(p)
    BY <2>1, InspectKeeps, FreeSteps
  <2>2. CASE WriteHooks(p) \/ RemovePlugin(p) \/ SaveManifest(p)
    BY <2>2, WriteKeeps
  <2>3. CASE StartService(p) \/ Verify(p) \/ Fail(p) \/ Commit(p)
    BY <2>3, StartServiceKeeps, VerifyFailKeeps, CommitKeeps
  <2>4. CASE UndoHooks(p) \/ UndoPlugin(p) \/ UndoManifest(p) \/ UndoService(p)
    BY <2>4, UndoKeeps, UndoServiceKeeps
  <2> QED
    BY <1>2, <2>1, <2>2, <2>3, <2>4 DEF Setup
<1>3. ASSUME NEW p \in Proc, Removal(p)
      PROVE  SetupInv'
  BY <1>3, LockRemovalKeeps, RemovalKeeps, RemovalEnds DEF Removal
<1>4. ASSUME NEW p \in Proc, Crash(p)
      PROVE  SetupInv'
  BY <1>4, CrashKeeps
<1>5. CASE EditHooks \/ Upgrade \/ Relogin
  BY <1>5, EditKeeps, MachineKeeps
<1>6. CASE UNCHANGED vars
  BY <1>6 DEF vars, files, runtime, world, bounds, SetupInv, SetupTypes, LockInv, At, KeptInv, Kept,
       HolderInv, Undone, Recorded, Serves, Runs, Construction, Outside
<1> QED
  BY <1>1, <1>2, <1>3, <1>4, <1>5, <1>6 DEF Next

\* All of it, at every moment.
LEMMA SetupStays == Spec => []SetupInv
<1>1. SetupInv /\ [Next]_vars => SetupInv'
  BY NextKeeps
<1> QED
  BY <1>1, InitKeeps, PTL DEF Spec

-----------------------------------------------------------------------------
(***************************************************************************)
(* What follows.                                                           *)
(***************************************************************************)
\* Whatever commands run, fail, are rolled back or are killed, hooks.json has the entries of the
\* user as the user left them, unless they were edited while a command held the lock
\* (integration.setup, teardown, purge).
THEOREM UserEntriesStay == Spec => []UserHooksKept
<1>1. SetupInv => UserHooksKept
  BY DEF SetupInv, KeptInv, Kept, UserHooksKept
<1> QED
  BY <1>1, SetupStays, PTL

\* A setup that failed and was rolled back leaves hooks.json, the plugins of Codex and the
\* manifest as it found them (integration.setup, rollback).
THEOREM RollbackRestores == Spec => FailureRestores
<1>1. ASSUME SetupInv, [Next]_vars, NEW p \in Proc,
             At(p) = "undo service", tx'[p] = Idle, crashes' = crashes, ~raced
      PROVE  hooks' = tx[p].h0 /\ plugin' = tx[p].p0 /\ manifest' = tx[p].m0
  <2>1. hooks = tx[p].h0 /\ plugin = tx[p].p0 /\ manifest = tx[p].m0
    BY <1>1, HolderFacts DEF Undone, At
  <2>2. lock = p /\ tx[p].at = "undo service" /\ Idle.at = "idle"
    BY <1>1, HolderFacts DEF SetupSteps, At, Idle
  <2>3. UNCHANGED files
    <3>1. tx'[p] # tx[p]
      BY <1>1, <2>2
    <3>2. ASSUME NEW q \in Proc, Command(q) \/ Setup(q) \/ Removal(q)
          PROVE  UNCHANGED files
      <4>1. CASE q = p
        BY <1>1, <3>2, <4>1
           DEF Command, Setup, Removal, At, BeginSetup, BeginTeardown, BeginPurge, Inspect, Refuse,
               WriteHooks, RemovePlugin, SaveManifest, StartService, Verify, Commit, Fail, UndoHooks,
               UndoPlugin, UndoManifest, UndoService, LockRemoval, RemoveHooks, RemoveService,
               RestoreHooks, RemoveManifest, FailRemoval
      <4>2. CASE q # p
        <5>1. At(q) \notin Locked
          BY <1>1, <2>2, <4>2 DEF SetupInv, LockInv
        <5> QED
          BY <3>2, <5>1
             DEF Command, Setup, Removal, At, BeginSetup, BeginTeardown, BeginPurge, Inspect, Refuse,
                 WriteHooks, RemovePlugin, SaveManifest, StartService, Verify, Commit, Fail,
                 UndoHooks, UndoPlugin, UndoManifest, UndoService, LockRemoval, RemoveHooks,
                 RemoveService, RestoreHooks, RemoveManifest, FailRemoval, Locked, SetupSteps,
                 RemovalSteps
      <4> QED
        BY <4>1, <4>2
    <3>3. ASSUME NEW q \in Proc, Crash(q)
          PROVE  UNCHANGED files
      BY <3>3 DEF Crash
    <3>4. CASE EditHooks \/ UNCHANGED vars
      BY <3>1, <3>4 DEF EditHooks, vars
    <3>5. CASE Upgrade \/ Relogin
      BY <3>5 DEF Upgrade, Relogin
    <3> QED
      BY <1>1, <3>2, <3>3, <3>4, <3>5 DEF Next
  <2> QED
    BY <2>1, <2>3 DEF files
<1>2. SetupInv /\ [Next]_vars =>
        [ \A p \in Proc :
            (At(p) = "undo service" /\ tx'[p] = Idle /\ crashes' = crashes /\ ~raced) =>
               hooks' = tx[p].h0 /\ plugin' = tx[p].p0 /\ manifest' = tx[p].m0 ]_vars
  BY <1>1
<1> QED
  BY <1>2, SetupStays, PTL DEF Spec, FailureRestores

\* A setup that reports success about a managed service does so while this build, or the one it
\* was upgraded to meanwhile, runs with the generation and the App Server of the manifest
\* (integration.setup, daemon.ServiceManager).
THEOREM SuccessRunsTheManifest == Spec => ManagedReadyRuns
<1>1. ASSUME SetupInv, Succeeds, daemon # None, manifest.mode = "managed", ~Outside(daemon)
      PROVE  /\ daemon.for = Construction(manifest)
             /\ daemon.build = manifest.build \/ build # manifest.build
  <2>1. PICK p \in Proc : At(p) = "commit"
    BY <1>1 DEF Succeeds
  <2>2. tx[p].mode = "managed"
    BY <1>1, <2>1, HolderFacts DEF Recorded, At
  <2> QED
    BY <1>1, <2>1, <2>2, HolderFacts DEF Serves, Runs, At
<1>2. SetupInv =>
        [ Succeeds /\ daemon # None /\ manifest.mode = "managed" /\ ~Outside(daemon) =>
             /\ daemon.for = Construction(manifest)
             /\ daemon.build = manifest.build \/ build # manifest.build ]_vars
  BY <1>1
<1> QED
  BY <1>2, SetupStays, PTL DEF Spec, ManagedReadyRuns
=============================================================================
