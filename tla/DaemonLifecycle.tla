---------------------------- MODULE DaemonLifecycle ----------------------------
(***************************************************************************)
(* Which spotterd owns the control socket (src/spotter/daemon.py): the     *)
(* lock, the socket file and its inode, start and close of DaemonServer,   *)
(* ManualServiceManager, which spawns processes of its own, and            *)
(* ManagedServiceManager, which has systemd do it.  Any process may die at *)
(* any step and leave its socket file; a status request may time out       *)
(* although its daemon runs; the package may be upgraded or removed.       *)
(***************************************************************************)
EXTENDS Naturals, FiniteSets

CONSTANTS
    Daemons,        \* processes, each spawned once at most
    Manual, Managed,    \* the invocations of the two managers
    NoProcess,
    NoSocket

ASSUME LifecycleAssumption ==
    /\ NoProcess \notin Daemons /\ NoSocket \notin Daemons
    /\ Manual \cap Managed = {}

Managers == Manual \cup Managed
Operations == {"start", "stop", "restart", "uninstall"}

VARIABLES
    daemon,     \* what each process is doing
    build,      \* the build it runs
    lock,       \* who holds the flock of the .lock file
    socket,     \* who bound the socket file: its inode
    installed,  \* the build of the package; 0 once it is removed
    unit,       \* the process systemd runs for the service, or NoProcess
    enabled,    \* the unit file is installed and started
    caller      \* each manager: its operation, where it is, its child and what it returned

daemonVars == <<daemon, build, lock, socket, installed, unit, enabled, caller>>

Starting == {"spawned", "locked", "cleared"}
Alive(p) == daemon[p] \in Starting \cup {"serving", "stopping", "closed", "unlinked"}
Answering == {p \in Daemons : socket = p /\ daemon[p] \in {"serving", "stopping"}}

LifecycleInit ==
    /\ daemon = [p \in Daemons |-> "unused"] /\ build = [p \in Daemons |-> 0]
    /\ lock = NoProcess /\ socket = NoSocket
    /\ installed = 1 /\ unit = NoProcess /\ enabled = FALSE
    /\ caller \in [Managers -> [op : Operations, at : {"idle"}, child : {NoProcess}, result : {"none"}]]

-----------------------------------------------------------------------------
(***************************************************************************)
(* DaemonServer.start() and close().                                       *)
(***************************************************************************)
Move(p, at) == daemon' = [daemon EXCEPT ![p] = at]
Rest == <<build, installed, unit, enabled, caller>>

Lock(p) ==
    /\ daemon[p] = "spawned"
    /\ IF lock = NoProcess THEN lock' = p /\ Move(p, "locked")
                        ELSE lock' = lock /\ Move(p, "failed")
    /\ UNCHANGED <<socket, Rest>>

\* A socket file that exists is asked for its status; one nobody answers is removed.
CheckSocket(p) ==
    /\ daemon[p] = "locked"
    /\ IF Answering = {} THEN Move(p, "cleared") /\ lock' = lock /\ socket' = NoSocket
                         ELSE Move(p, "failed") /\ lock' = NoProcess /\ socket' = socket
    /\ UNCHANGED Rest

Bind(p) ==
    /\ daemon[p] = "cleared" /\ socket = NoSocket
    /\ socket' = p /\ Move(p, "serving")
    /\ UNCHANGED <<lock, Rest>>

\* The package watcher: the executable is gone for longer than the grace.
PackageGone(p) ==
    /\ daemon[p] = "serving" /\ installed = 0
    /\ Move(p, "stopping")
    /\ UNCHANGED <<lock, socket, Rest>>

\* close(): watchers, executor and recovery first, then the server.
CloseServer(p) ==
    /\ daemon[p] = "stopping"
    /\ Move(p, "closed")
    /\ UNCHANGED <<lock, socket, Rest>>

\* Mutant: whatever socket file is there is removed, and after the lock was released.
UnlinkAfterRelease(p) ==
    /\ daemon[p] \in {"closed", "unlinked"}
    /\ IF daemon[p] = "closed" THEN lock' = NoProcess /\ socket' = socket /\ Move(p, "unlinked")
       ELSE lock' = lock /\ socket' = NoSocket /\ Move(p, "exited")
    /\ UNCHANGED Rest

\* The socket file is removed if it is its own, and the lock released after that.
Unlink(p) ==
    /\ daemon[p] \in {"closed", "unlinked"}
    /\ IF daemon[p] = "closed"
       THEN lock' = lock /\ socket' = (IF socket = p THEN NoSocket ELSE socket) /\ Move(p, "unlinked")
       ELSE lock' = NoProcess /\ socket' = socket /\ Move(p, "exited")
    /\ UNCHANGED Rest

\* A killed process leaves its socket file; its lock is released with it.
Kill(p, exit) ==
    /\ Alive(p)
    /\ Move(p, exit)
    /\ lock' = IF lock = p THEN NoProcess ELSE lock

DaemonDies(p) == Kill(p, "failed") /\ UNCHANGED <<socket, Rest>>

Upgrade ==
    /\ installed = 1 /\ installed' \in {0, 2}
    /\ UNCHANGED <<daemon, build, lock, socket, unit, enabled, caller>>

-----------------------------------------------------------------------------
(***************************************************************************)
(* Managers.                                                               *)
(***************************************************************************)
Unused == {p \in Daemons : daemon[p] = "unused"}
Step(m, at) == caller' = [caller EXCEPT ![m].at = at]
Answer(m, result) == caller' = [caller EXCEPT ![m].at = "done", ![m].result = result]
Outside == <<lock, socket, installed>>

\* What status() may say: who answers, or nobody because the request timed out.
Status == Answering \cup {NoProcess}
Current(p) == p # NoProcess /\ build[p] = installed

Begin(m) ==
    /\ caller[m].at = "idle" /\ installed # 0
    /\ Step(m, IF caller[m].op = "start" THEN "start" ELSE "stop")
    /\ UNCHANGED <<daemon, build, unit, enabled, Outside>>

ManualStart(m) ==
    /\ m \in Manual /\ caller[m].at = "start"
    /\ \E p \in Status :
          IF p = NoProcess THEN Step(m, "spawn")
          ELSE IF Current(p) THEN Answer(m, "available") ELSE Step(m, "stop")
    /\ UNCHANGED <<daemon, build, unit, enabled, Outside>>

Spawn(m, p) ==
    /\ m \in Manual /\ caller[m].at = "spawn" /\ p \in Unused /\ installed # 0
    /\ daemon' = [daemon EXCEPT ![p] = "spawned"]
    /\ build' = [build EXCEPT ![p] = installed]
    /\ caller' = [caller EXCEPT ![m].at = "wait", ![m].child = p]
    /\ UNCHANGED <<unit, enabled, Outside>>

Wait(m) ==
    /\ caller[m].at = "wait"
    /\ \/ \E p \in Status : Current(p) /\ Answer(m, "available")
       \/ caller[m].child # NoProcess /\ ~Alive(caller[m].child) /\ Answer(m, "exited")
       \/ caller[m].child = NoProcess /\ Answer(m, "not ready")
    /\ UNCHANGED <<daemon, build, unit, enabled, Outside>>

\* The child did not become ready in time: it is terminated.
TimeOut(m) ==
    /\ caller[m].at = "wait" /\ caller[m].child # NoProcess
    /\ Kill(caller[m].child, "exited")
    /\ Answer(m, "not ready")
    /\ UNCHANGED <<build, socket, installed, unit, enabled>>

AfterStop(m) == IF caller[m].op \in {"start", "restart"}
                THEN (IF m \in Manual /\ caller[m].op = "start" THEN Step(m, "spawn")
                      ELSE Step(m, "start"))
                ELSE Answer(m, "stopped")

\* stop() asks the daemon that answers to shut down, then waits until none answers.
AskStop(m) ==
    /\ m \in Manual /\ caller[m].at = "stop"
    /\ \/ NoProcess \in Status /\ AfterStop(m) /\ daemon' = daemon
       \/ \E p \in Answering : Move(p, "stopping") /\ Step(m, "stopped?")
    /\ UNCHANGED <<build, unit, enabled, Outside>>

AwaitStop(m) ==
    /\ m \in Manual /\ caller[m].at = "stopped?"
    /\ \/ NoProcess \in Status /\ AfterStop(m)
       \/ Answering # {} /\ Answer(m, "did not stop")
    /\ UNCHANGED <<daemon, build, unit, enabled, Outside>>

-----------------------------------------------------------------------------
(***************************************************************************)
(* systemd and the managed service.                                        *)
(***************************************************************************)
Active == unit # NoProcess /\ Alive(unit)

\* systemctl stop terminates the process of the unit; start spawns one.
StopUnit ==
    IF Active THEN Kill(unit, "exited") ELSE UNCHANGED <<daemon, lock>>

ManagedStop(m) ==
    /\ m \in Managed /\ caller[m].at = "stop"
    /\ caller[m].op \in {"stop", "uninstall"}
    /\ StopUnit /\ unit' = NoProcess /\ enabled' = FALSE
    /\ Answer(m, "stopped")
    /\ UNCHANGED <<build, socket, installed>>

\* A daemon that runs outside of the service is left alone.
ManagedLeave(m) ==
    /\ m \in Managed /\ caller[m].at = "start"
    /\ \E p \in Answering :
          \/ ~Active /\ Answer(m, "outside")
          \/ Active /\ Current(p) /\ Answer(m, "available")
    /\ UNCHANGED <<daemon, build, unit, enabled, Outside>>

\* enable --now of an inactive unit, or restart of an active one.
ManagedStart(m, p) ==
    /\ m \in Managed /\ p \in Unused /\ installed # 0
    /\ \/ caller[m].at = "start" /\ (~Active \/ \E q \in Status : ~Current(q))
       \/ caller[m].at = "stop" /\ caller[m].op = "restart"
    /\ daemon' = [daemon EXCEPT ![p] = "spawned",
                                ![IF Active THEN unit ELSE p] =
                                    IF Active THEN "exited" ELSE "spawned"]
    /\ lock' = IF Active /\ lock = unit THEN NoProcess ELSE lock
    /\ build' = [build EXCEPT ![p] = installed]
    /\ unit' = p /\ enabled' = TRUE
    /\ Step(m, "wait")
    /\ UNCHANGED <<socket, installed>>

\* Restart=on-failure
Respawn(p) ==
    /\ enabled /\ unit # NoProcess /\ daemon[unit] = "failed" /\ p \in Unused /\ installed # 0
    /\ daemon' = [daemon EXCEPT ![p] = "spawned"]
    /\ build' = [build EXCEPT ![p] = installed]
    /\ unit' = p
    /\ UNCHANGED <<enabled, caller, Outside>>

LifecycleNext ==
    \/ \E p \in Daemons : Lock(p) \/ CheckSocket(p) \/ Bind(p) \/ PackageGone(p)
                          \/ CloseServer(p) \/ Unlink(p) \/ DaemonDies(p) \/ Respawn(p)
    \/ Upgrade
    \/ \E m \in Managers : Begin(m) \/ ManualStart(m) \/ Wait(m) \/ TimeOut(m)
                           \/ AskStop(m) \/ AwaitStop(m) \/ ManagedStop(m) \/ ManagedLeave(m)
    \/ \E m \in Managers, p \in Daemons : Spawn(m, p) \/ ManagedStart(m, p)

LifecycleSpec == LifecycleInit /\ [][LifecycleNext]_daemonVars

-----------------------------------------------------------------------------
\* The socket leads to the daemon that serves, whoever starts, stops, crashes, is restarted or
\* upgraded around it: none is left serving a socket that was unlinked or taken over.
SocketReachesServer ==
    \A p \in Daemons : daemon[p] = "serving" => socket = p /\ lock = p
=============================================================================
