----------------------------- MODULE RuntimeConfig -----------------------------
(***************************************************************************)
(* Configuration of a running daemon (src/spotter/config.py and daemon.py):*)
(* the snapshot store with its active and its staged generation, reloads   *)
(* run in worker threads for the file watcher and for the operator, and    *)
(* the event loop, which publishes hot settings after a reload and staged  *)
(* ones when a turn starts and no thread has an active turn.  Which turns  *)
(* are active is what AppServerRecoveryLoop makes of notifications and of  *)
(* its reconciliation after a reconnect; the App Server is external.       *)
(*                                                                         *)
(* The content of the files is a record of three settings, one for each    *)
(* way a change takes effect: at once, at a turn, or not in this process.  *)
(***************************************************************************)
EXTENDS ThreadLifecycle, FiniteSets, Sequences

CONSTANTS
    Threads,
    Callers,        \* who may ask for a reload, each once at a time
    Contents,       \* valid contents: [hot, turn, fixed]
    Initial,        \* the content the daemon starts with
    Invalid,        \* a content that does not parse or validate
    Nobody,
    Nothing,        \* no staged generation
    MaxWrites,      \* bound: changes of the files
    MaxConnections, \* bound: connections made
    MaxInbox        \* bound: notifications under way

ASSUME ConfigAssumption ==
    /\ Initial \in Contents /\ Invalid \notin Contents /\ Nothing \notin Contents
    /\ Nobody \notin Callers
    /\ MaxWrites \in Nat /\ MaxConnections \in Nat /\ MaxInbox \in Nat

VARIABLES
    \* the files
    disk,       \* what they hold
    unseen,     \* whether their signatures differ from the watcher's
    writes,     \* observer: how often they changed
    \* ConfigSnapshotStore
    active, pending,
    holder,     \* who holds _reload_lock
    job,        \* the reload of each caller
    \* DaemonServer
    watching,   \* the watcher has taken its first signatures
    early,      \* observer: the files changed between the first load and that moment
    hot,        \* reviewer_config, snapshot_on_patch and config_generation in use
    semantics,  \* observation_only and mcp_semantics in use
    blocked,    \* the event loop waits for _reload_lock at a turn boundary
    \* the App Server
    load,       \* each thread: loaded or notLoaded
    live,       \* its live turn
    \* the connection
    conn, phase,    \* its number; down, listing, reconciling or ready
    todo,           \* threads not yet reconciled
    reply,          \* the thread/resume reply not yet reconciled
    subscribed,     \* threads whose notifications this connection gets
    inbox,          \* notifications not yet consumed
    st,             \* the ThreadState of each thread
    \* observers
    used,       \* under which settings the items of each turn were normalized
    steady      \* turns that started on a ready connection, which is still up

files == <<disk, unseen, writes>>
store == <<active, pending, holder, job>>
server == <<watching, early, hot, semantics, blocked>>
agent == <<load, live>>
link == <<conn, phase, todo, reply, subscribed, inbox, st>>
observers == <<used, steady>>
vars == <<files, store, server, agent, link, observers>>

IdleJob == [at |-> "idle", candidate |-> Nothing, applied |-> FALSE]

Init ==
    /\ disk = Initial /\ unseen = FALSE /\ writes = 0
    /\ active = Initial /\ pending = Nothing /\ holder = Nobody
    /\ job = [c \in Callers |-> IdleJob]
    /\ watching = FALSE /\ early = FALSE /\ blocked = FALSE
    /\ hot = Initial /\ semantics = Initial.turn
    /\ load = [t \in Threads |-> "loaded"] /\ live = [t \in Threads |-> NoTurn]
    /\ conn = 0 /\ phase = "down" /\ todo = {} /\ reply = <<>>
    /\ subscribed = {} /\ inbox = <<>>
    /\ st = [t \in Threads |-> Unobserved]
    /\ used = [t \in Threads |-> [u \in Turns |-> {}]]
    /\ steady = {}

-----------------------------------------------------------------------------
(***************************************************************************)
(* Files, watcher and reload.                                              *)
(***************************************************************************)
Edit(content) ==
    /\ writes < MaxWrites /\ content # disk
    /\ disk' = content
    /\ writes' = writes + 1
    /\ unseen' = watching
    /\ early' = (early \/ ~watching)
    /\ UNCHANGED <<store, watching, hot, semantics, blocked, agent, link, observers>>

\* start() reads the signatures after the socket is bound, main() loaded the files before.
Watch ==
    /\ ~watching
    /\ watching' = TRUE
    /\ UNCHANGED <<files, store, early, hot, semantics, blocked, agent, link, observers>>

\* The watcher notices new signatures before it reloads; the operator just asks.
Ask(c) ==
    /\ watching /\ ~blocked /\ job[c].at = "idle"
    /\ c = "watcher" => unseen
    /\ unseen' = IF c = "watcher" THEN FALSE ELSE unseen
    /\ job' = [job EXCEPT ![c].at = "asked"]
    /\ UNCHANGED <<disk, writes, active, pending, holder, server, agent, link, observers>>

\* reload() of the store, in a worker thread: _reload_lock, then the loader.
Load(c) ==
    /\ job[c].at = "asked" /\ holder = Nobody
    /\ holder' = c
    /\ job' = [job EXCEPT ![c] = [at |-> "loaded", candidate |-> disk, applied |-> FALSE]]
    /\ UNCHANGED <<files, active, pending, server, agent, link, observers>>

\* Mutant: a reload that needs a restart leaves what an earlier one staged.
DispositionKeepsStaged(candidate) ==
    CASE candidate = Invalid -> [active |-> active, pending |-> pending]
      [] candidate # Invalid /\ candidate.fixed # active.fixed ->
            [active |-> active, pending |-> pending]
      [] OTHER -> IF candidate.turn # active.turn
                  THEN [active |-> active, pending |-> candidate]
                  ELSE [active |-> candidate, pending |-> pending]

\* classify_config_changes() against the active snapshot, and what reload() makes of it.
Disposition(candidate) ==
    CASE candidate = Invalid -> [active |-> active, pending |-> pending]
      [] candidate # Invalid /\ candidate.fixed # active.fixed ->
            [active |-> active, pending |-> Nothing]
      [] OTHER -> IF candidate.turn # active.turn
                  THEN [active |-> active, pending |-> candidate]
                  ELSE [active |-> candidate, pending |-> Nothing]

Publish(c) ==
    /\ job[c].at = "loaded"
    /\ LET next == Disposition(job[c].candidate)
       IN  /\ active' = next.active /\ pending' = next.pending
           /\ job' = [job EXCEPT ![c] = [@ EXCEPT !.at = "returned",
                                                  !.applied = next.active = job[c].candidate]]
    /\ holder' = Nobody
    /\ UNCHANGED <<files, server, agent, link, observers>>

\* reload_config() goes on in the event loop: _apply_active_config().
Return(c) ==
    /\ ~blocked /\ job[c].at = "returned"
    /\ hot' = IF job[c].applied THEN active ELSE hot
    /\ job' = [job EXCEPT ![c] = IdleJob]
    /\ UNCHANGED <<files, active, pending, holder, watching, early, semantics, blocked,
                   agent, link, observers>>

-----------------------------------------------------------------------------
(***************************************************************************)
(* The App Server.                                                         *)
(***************************************************************************)
Note(kind, t, u) == [kind |-> kind, thread |-> t, turn |-> u]
Told(t, note) == IF phase # "down" /\ t \in subscribed THEN Append(inbox, note) ELSE inbox
Room == Len(inbox) < MaxInbox

\* The status of a thread is announced to every connection, its turns to subscribers.
Announce(t) ==
    /\ phase # "down" /\ Room /\ load[t] = "loaded" /\ live[t] # NoTurn /\ t \notin subscribed
    /\ inbox' = Append(inbox, Note("status", t, NoTurn))
    /\ UNCHANGED <<files, store, server, agent, conn, phase, todo, reply, subscribed, st,
                   observers>>

\* A turn id is new: nothing was recorded under it, nothing about it is under way.
ServerStarts(t, u) ==
    /\ load[t] = "loaded" /\ live[t] = NoTurn /\ Room
    /\ u \in Turns /\ u \notin st[t].completed /\ used[t][u] = {}
    /\ \A i \in DOMAIN inbox : inbox[i].thread # t \/ inbox[i].turn # u
    /\ live' = [live EXCEPT ![t] = u]
    /\ inbox' = Told(t, Note("start", t, u))
    /\ UNCHANGED <<files, store, server, load, conn, phase, todo, reply, subscribed, st,
                   observers>>

ServerWorks(t) ==
    /\ live[t] # NoTurn /\ t \in subscribed /\ phase # "down" /\ Room
    /\ inbox' = Append(inbox, Note("item", t, live[t]))
    /\ UNCHANGED <<files, store, server, agent, conn, phase, todo, reply, subscribed, st,
                   observers>>

ServerEnds(t) ==
    /\ live[t] # NoTurn /\ Room
    /\ live' = [live EXCEPT ![t] = NoTurn]
    /\ inbox' = Told(t, Note("done", t, live[t]))
    /\ UNCHANGED <<files, store, server, load, conn, phase, todo, reply, subscribed, st,
                   observers>>

\* A server that restarts has its threads on disk only.
ServerRestarts ==
    /\ phase = "down"
    /\ load' = [t \in Threads |-> "notLoaded"]
    /\ live' = [t \in Threads |-> NoTurn]
    /\ UNCHANGED <<files, store, server, link, observers>>

ServerLoads(t) ==
    /\ load[t] = "notLoaded"
    /\ load' = [load EXCEPT ![t] = "loaded"]
    /\ UNCHANGED <<files, store, server, live, link, observers>>

-----------------------------------------------------------------------------
(***************************************************************************)
(* Connection and reconciliation.                                          *)
(***************************************************************************)
Connect ==
    /\ ~blocked /\ watching /\ phase = "down" /\ conn < MaxConnections
    /\ conn' = conn + 1 /\ phase' = "listing"
    /\ subscribed' = {} /\ inbox' = <<>>
    /\ UNCHANGED <<files, store, server, agent, todo, reply, st, observers>>

Lose ==
    /\ ~blocked /\ phase # "down"
    /\ phase' = "down" /\ todo' = {} /\ reply' = <<>>
    /\ subscribed' = {} /\ inbox' = <<>> /\ steady' = {}
    /\ UNCHANGED <<files, store, server, agent, conn, st, used>>

\* A thread that is not loaded is skipped: nothing is recorded of it.
List ==
    /\ phase = "listing" /\ ~blocked
    /\ todo' = {t \in Threads : load[t] = "loaded"}
    /\ phase' = "reconciling"
    /\ UNCHANGED <<files, store, server, agent, conn, reply, subscribed, inbox, st, observers>>

Resume(t) ==
    /\ phase = "reconciling" /\ ~blocked /\ reply = <<>> /\ t \in todo
    /\ reply' = <<t, live[t]>>
    /\ subscribed' = subscribed \cup {t}
    /\ UNCHANGED <<files, store, server, agent, conn, phase, todo, inbox, st, observers>>

\* observation_gap, then runtime_reconciled with the active turn of the reply.
Reconcile ==
    /\ phase = "reconciling" /\ ~blocked /\ reply # <<>>
    /\ st' = [st EXCEPT ![reply[1]] = Reconciled(@, reply[2], conn)]
    /\ todo' = todo \ {reply[1]}
    /\ reply' = <<>>
    /\ UNCHANGED <<files, store, server, agent, conn, phase, subscribed, inbox, observers>>

Ready ==
    /\ phase = "reconciling" /\ ~blocked /\ todo = {}
    /\ phase' = "ready"
    /\ UNCHANGED <<files, store, server, agent, conn, todo, reply, subscribed, inbox, st,
                   observers>>

-----------------------------------------------------------------------------
(***************************************************************************)
(* _consume(): the turn boundary, normalization, reduction, subscription.  *)
(***************************************************************************)
Quiescent == \A t \in Threads : st[t].active = NoTurn
Next1 == Head(inbox)
Consuming(kinds) == phase # "down" /\ ~blocked /\ inbox # <<>> /\ Next1.kind \in kinds

\* Mutant: only the thread whose turn starts has to be quiet.
BoundaryOfThread == pending # Nothing /\ st[Next1.thread].active = NoTurn

\* activate_pending_config_at_turn_boundary() would activate.
Boundary == pending # Nothing /\ Quiescent

\* It waits for the lock, and the event loop with it.
ReachBoundary ==
    /\ Consuming({"start"}) /\ Boundary
    /\ blocked' = TRUE
    /\ UNCHANGED <<files, store, watching, early, hot, semantics, agent, link, observers>>

\* The handler of a start subscribes to its thread.
Reduce(note, settings) ==
    LET t == note.thread
        u == note.turn
    IN  /\ inbox' = Tail(inbox)
        /\ st' = [st EXCEPT ![t] =
                    CASE note.kind = "start" -> Started(@, u, conn)
                      [] note.kind = "done" -> Completed(@, u, conn)
                      [] note.kind = "item" -> Rebased(@, conn)
                      [] OTHER -> @]
        /\ subscribed' = IF note.kind \in {"start", "status"} THEN subscribed \cup {t}
                         ELSE subscribed
        /\ used' = IF note.kind # "item" THEN used
                   ELSE [used EXCEPT ![t][u] = @ \cup {settings}]
        /\ steady' = IF note.kind = "start" /\ phase = "ready" THEN steady \cup {<<t, u>>}
                     ELSE steady

\* activate_next_turn() and _apply_turn_config(), then the notification itself.
Activate ==
    /\ blocked /\ holder = Nobody
    /\ active' = IF pending = Nothing THEN active ELSE pending
    /\ pending' = Nothing
    /\ hot' = active' /\ semantics' = active'.turn
    /\ blocked' = FALSE
    /\ Reduce(Next1, semantics')
    /\ UNCHANGED <<files, holder, job, watching, early, agent, conn, phase, todo, reply>>

Consume ==
    /\ Consuming({"start", "item", "done", "status"})
    /\ Next1.kind = "start" => ~Boundary
    /\ Reduce(Next1, semantics)
    /\ UNCHANGED <<files, store, server, agent, conn, phase, todo, reply>>

Next ==
    \/ \E content \in Contents \cup {Invalid} : Edit(content)
    \/ Watch
    \/ \E c \in Callers : Ask(c) \/ Load(c) \/ Publish(c) \/ Return(c)
    \/ \E t \in Threads : Announce(t) \/ ServerWorks(t) \/ ServerEnds(t) \/ ServerLoads(t)
    \/ \E t \in Threads, u \in Turns : ServerStarts(t, u)
    \/ ServerRestarts
    \/ Connect \/ Lose \/ List \/ Reconcile \/ Ready
    \/ \E t \in Threads : Resume(t)
    \/ ReachBoundary \/ Activate \/ Consume

Spec == Init /\ [][Next]_vars

-----------------------------------------------------------------------------
(***************************************************************************)
(* Properties.                                                             *)
(***************************************************************************)
\* "A turn must not reinterpret tool effects midway through execution": the items of a turn
\* are normalized under one generation, whatever reloads, other threads, reconnects come in
\* between.  For turns that start and work on one ready connection.
TurnKeepsPolicy ==
    \A t \in Threads, u \in Turns : <<t, u>> \in steady => Cardinality(used[t][u]) <= 1

\* The same for every turn: "prevents a concurrent old turn from inheriting the new reviewer
\* or MCP-semantics generation midway through execution".
TurnNeverMixes ==
    \A t \in Threads, u \in Turns : Cardinality(used[t][u]) <= 1

\* When the watcher has nothing to notice and no reload runs, what is in the files is what is
\* active, or what is staged: no race of reloads and boundaries loses the last change.
Settled == watching /\ ~unseen /\ ~blocked /\ \A c \in Callers : job[c].at = "idle"
Takes(content) == content # Invalid /\ content.fixed = active.fixed
Follows ==
    /\ hot = active /\ semantics = active.turn
    /\ Takes(disk) => disk = IF pending = Nothing THEN active ELSE pending
    /\ disk # Invalid /\ ~Takes(disk) => pending = Nothing
ReloadConverges == Settled /\ ~early => Follows

\* The same with changes between the first load and the watcher's first look: "the daemon
\* automatically detects creation, atomic replacement, edits, and removal".
EditNeverMissed == Settled => Follows

\* On a connection that is ready, a turn that starts when no other is live takes the staged
\* generation: "only when no older turn remains active".
QuietBoundaryActivates ==
    [][ phase = "ready" /\ inbox # <<>> /\ Next1.kind = "start" /\ Len(inbox) = 1
        /\ (\A t \in Threads : live[t] # NoTurn => t = Next1.thread)
        /\ inbox' = <<>> /\ phase' = "ready"
        => pending' = Nothing ]_vars
=============================================================================
