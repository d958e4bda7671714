---------------------------- MODULE TraceIngestion ----------------------------
(***************************************************************************)
(* AppServerTraceIngestor (src/spotter/ingestion.py): notifications of the *)
(* App Server are normalized, deduplicated against what the journal holds, *)
(* appended, and indexed.  The event loop appends observations and their   *)
(* effects; a worker thread appends control telemetry, which the event     *)
(* loop indexes afterwards.  The daemon may crash at any step, and its     *)
(* next process rebuilds the indexes from the journal.                     *)
(*                                                                         *)
(* One thread is modelled, hence one journal.  A notification is a record  *)
(* of the fields the ingestor looks at; its content is its event id, as    *)
(* the hash of the content is.                                             *)
(***************************************************************************)
EXTENDS StepJournal, RuntimeIdentity

CONSTANTS
    Loop, Worker,       \* the two writers of a daemon
    Notifications,      \* what the App Server may send, any number of times
    Controls,           \* control events, each enqueued once
    Class,              \* the reversibility class of each operation
    MaxEpoch,           \* bound: connections
    NoOp, None

ASSUME IngestionAssumption ==
    /\ {Loop, Worker} \subseteq Writers /\ Loop # Worker
    /\ MaxEpoch \in Nat
    /\ NoTurn \notin Turns
    /\ None \notin Notifications \cup Controls /\ None \notin {"started", "attempted", "completed"}
    /\ \A n \in Notifications \cup Controls : n.turn \in Turns \cup {NoTurn} /\ n.at \in Nat
    /\ \A c \in Controls : c.kind = "control" /\ c.op = NoOp
    /\ \A n \in Notifications :
          /\ n.kind # "control"
          /\ n.op # NoOp => n.kind = "item" /\ n.life \in {"started", "completed"}
          /\ n.kind \in {"turn_started", "turn_completed"} => n.turn \in Turns
          /\ n.kind = "turn_completed" => n.outcome \in {"completed", "interrupted"}

VARIABLES
    up,         \* whether the daemon runs
    conn,       \* the epoch of the live connection; 0 when there is none
    epoch,      \* _connection_epoch
    mem,        \* the indexes of the ingestor and the identity registry
    todo,       \* what the event loop has still to append for the notification it handles
    queue,      \* the control telemetry queue
    queued,     \* _control_telemetry_ids
    refused     \* observer: completions refused as a change of outcome

ingestVars == <<up, conn, epoch, mem, todo, queue, queued, refused>>
vars == <<journalVars, ingestVars>>

\* Methods whose notifications can be told from one another by content.
ReplaySafe == {"thread_started", "turn_started", "turn_completed", "item"}

Event(n) == [note |-> n, effect |-> FALSE, epoch |-> 0, seq |-> 0, late |-> FALSE, begun |-> FALSE]

Id(e) == IF e.effect \/ e.note.kind \notin ReplaySafe \cup {"control"} THEN None ELSE e.note
Life(e) == IF e.effect /\ e.note.life = "started" THEN "attempted" ELSE e.note.life
Outcome(e) == IF e.effect THEN None ELSE e.note.outcome
At(e) == IF e.effect THEN 0 ELSE e.note.at

OpKey(e) == <<e.note.turn, e.epoch, e.note.op>>
Said(e) == [life |-> Life(e), outcome |-> Outcome(e)]
TimeKey(e) == <<e.note.turn, e.epoch>>
Put(f, k, v) == [x \in DOMAIN f \cup {k} |-> IF x = k THEN v ELSE f[x]]
Lookup(f, k, default) == IF k \in DOMAIN f THEN f[k] ELSE default
Larger(a, b) == IF a < b THEN b ELSE a

-----------------------------------------------------------------------------
(***************************************************************************)
(* Indexes.                                                                *)
(***************************************************************************)
NoMemory == [seen |-> {}, ops |-> <<>>, terminal |-> {}, lastAt |-> <<>>, lastSeq |-> <<>>,
             epoch |-> 0, repo |-> FALSE, registry |-> NoRegistry]

Remember(m, e) ==
    [m EXCEPT
        !.repo = @ \/ (e.note.kind = "thread_started"),
        !.seen = IF Id(e) = None THEN @ ELSE @ \cup {Id(e)},
        !.ops = IF e.note.op = NoOp THEN @
                ELSE Put(@, OpKey(e), Said(e)),
        !.terminal = IF e.note.kind = "turn_completed" THEN @ \cup {e.note.turn} ELSE @,
        !.lastAt = IF At(e) = 0 THEN @
                   ELSE Put(@, TimeKey(e), Larger(At(e), Lookup(@, TimeKey(e), 0))),
        !.epoch = Larger(@, e.epoch),
        !.lastSeq = IF e.seq = 0 THEN @
                    ELSE Put(@, e.epoch, Larger(e.seq, Lookup(@, e.epoch, 0)))]

\* _identity() and _finish_turn() of the normalizer, _restore_identity() of the recovery.
Identify(r, n) ==
    LET seen == ObserveThread(r)
    IN  CASE n.turn = NoTurn -> seen
          [] n.kind = "turn_completed" -> FinishTurn(seen, n.turn, n.outcome)
          [] OTHER -> StartTurn(seen, n.turn, n.kind = "turn_started")

\* _restore_identity() of every record: a turn that ended keeps how it ended.
Restored(f) ==
    LET notes == {f[i].event.note : i \in DOMAIN f}
        Finishes(t) == {i \in DOMAIN f : f[i].event.note.kind = "turn_completed"
                                         /\ f[i].event.note.turn = t}
        Status(t) == CASE Finishes(t) # {} -> f[Max(Finishes(t))].event.note.outcome
                       [] \A n \in notes : n.turn # t -> "unknown"
                       [] OTHER -> "active"
    IN  [NoRegistry EXCEPT
            !.observed = f # <<>>,
            !.turns = [t \in Turns |->
                         [status |-> Status(t),
                          begun |-> \E n \in notes : n.turn = t /\ n.kind = "turn_started"]]]

\* The highest value of each key.
Highest(pairs) == [k \in {q[1] : q \in pairs} |-> Max({q[2] : q \in {q \in pairs : q[1] = k}})]

\* _remember() of the records at I: what a later one says of an operation replaces what an
\* earlier one said, and the clocks are the highest.
Indexes(f, I) ==
    LET events == {f[i].event : i \in I}
        operations == {i \in I : f[i].event.note.op # NoOp}
        About(k) == {i \in operations : OpKey(f[i].event) = k}
    IN  [repo |-> \E e \in events : e.note.kind = "thread_started",
         seen |-> {Id(e) : e \in events} \ {None},
         ops |-> [k \in {OpKey(f[i].event) : i \in operations} |-> Said(f[Max(About(k))].event)],
         terminal |-> {e.note.turn : e \in {e \in events : e.note.kind = "turn_completed"}},
         lastAt |-> Highest({<<TimeKey(e), At(e)>> : e \in {e \in events : At(e) # 0}}),
         lastSeq |-> Highest({<<e.epoch, e.seq>> : e \in {e \in events : e.seq # 0}}),
         epoch |-> Max({0} \cup {e.epoch : e \in events}),
         registry |-> NoRegistry]

\* Mutant: recovery restores the identities only.
RecoveredIdentity(f) == [NoMemory EXCEPT !.registry = Restored(f)]

Recovered(f) == [Indexes(f, DOMAIN f) EXCEPT !.registry = Restored(f)]

-----------------------------------------------------------------------------
(***************************************************************************)
(* Notifications.                                                          *)
(***************************************************************************)
Handling == up /\ conn # 0 /\ todo = <<>> /\ doing[Loop].at = "idle"

Previous(e) == Lookup(mem.ops, OpKey(e), [life |-> None, outcome |-> None])
Completes(e) == e.note.op # NoOp /\ e.note.life = "completed"

\* Mutant: a late start is not recognised.
DuplicateById(e) ==
    \/ Id(e) # None /\ Id(e) \in mem.seen
    \/ e.note.op # NoOp /\ e.note.life = "started" /\ Previous(e).life # None
    \/ Completes(e) /\ Previous(e).life = "completed" /\ Previous(e).outcome = Outcome(e)

Duplicate(e) ==
    \/ Id(e) # None /\ Id(e) \in mem.seen
    \/ e.note.kind = "turn_started" /\ e.note.turn \in mem.terminal
    \/ e.note.op # NoOp /\ e.note.life = "started" /\ Previous(e).life # None
    \/ Completes(e) /\ Previous(e).life = "completed" /\ Previous(e).outcome = Outcome(e)

ChangesOutcome(e) ==
    /\ Id(e) \notin mem.seen
    /\ Completes(e) /\ Previous(e).life = "completed" /\ Previous(e).outcome # Outcome(e)

\* What record() adds to the event before it appends it.
Stamped(e) ==
    [e EXCEPT !.begun = IF Completes(e) THEN Previous(e).life # None
                        ELSE e.note.kind = "turn_completed"
                             /\ mem.registry.turns[e.note.turn].begun,
              !.late = At(e) # 0 /\ At(e) < Lookup(mem.lastAt, TimeKey(e), 0),
              !.seq = Lookup(mem.lastSeq, e.epoch, 0) + 1]

\* effect_event(): a command, a file change or a tool call of class C, also an uncheckpointed B.
HasEffect(e) == e.note.op # NoOp /\ Class[e.note.op] \in {"B", "C"}
EffectOf(e) == [e EXCEPT !.effect = TRUE, !.seq = 0, !.late = FALSE, !.begun = FALSE]

Received(n) == [Event(n) EXCEPT !.epoch = conn]

\* A turn that ended as something else raises ConflictingRuntimeIdentity: the connection goes.
Contradicts(n) ==
    /\ Handling
    /\ n.kind = "turn_completed" /\ Conflicts(mem.registry, n.turn, n.outcome)
    /\ conn' = 0
    /\ mem' = [mem EXCEPT !.registry = Detach(@, @.attached)]
    /\ UNCHANGED <<up, epoch, todo, queue, queued, refused, journalVars>>

Normalize(n) ==
    /\ Handling
    /\ n.kind = "turn_completed" => ~Conflicts(mem.registry, n.turn, n.outcome)
    /\ mem' = [mem EXCEPT !.registry = Attach(Identify(@, n), conn)]

Drop(n) ==
    /\ Normalize(n)
    /\ Duplicate(Received(n))
    /\ UNCHANGED <<up, conn, epoch, todo, queue, queued, refused, journalVars>>

\* IngestionError: the consumer keeps it as last_error and goes on.
Refuse(n) ==
    /\ Normalize(n)
    /\ ChangesOutcome(Received(n))
    /\ refused' = refused \cup {Received(n)}
    /\ UNCHANGED <<up, conn, epoch, todo, queue, queued, journalVars>>

Accept(n) ==
    LET e == Received(n) IN
    /\ Normalize(n)
    /\ ~Duplicate(e) /\ ~ChangesOutcome(e)
    /\ todo' = IF HasEffect(e) THEN <<Stamped(e), EffectOf(e)>> ELSE <<Stamped(e)>>
    /\ UNCHANGED <<up, conn, epoch, queue, queued, refused, journalVars>>

\* A thread_started names a repository, and so does the result of a class B call that follows.
Checkpoints(e) ==
    /\ ~e.effect
    /\ \/ e.note.kind = "thread_started"
       \/ mem.repo /\ Completes(e) /\ Class[e.note.op] = "B"

\* snapshot_worktree() may fail, and the record then names no snapshot.
LoopOpens ==
    /\ up /\ todo # <<>>
    /\ \E snap \in IF Checkpoints(Head(todo)) THEN BOOLEAN ELSE {FALSE} :
          Open(Loop, Head(todo), snap)
    /\ UNCHANGED ingestVars

LoopWrites == (Write(Loop) \/ Cache(Loop)) /\ up /\ UNCHANGED ingestVars

\* Mutant: an effect is appended and not remembered.
LoopIndexesObservation ==
    /\ up /\ Leave(Loop)
    /\ mem' = IF doing[Loop].event.effect THEN mem ELSE Remember(mem, doing[Loop].event)
    /\ todo' = Tail(todo)
    /\ UNCHANGED <<up, conn, epoch, queue, queued, refused>>

LoopIndexes ==
    /\ up /\ Leave(Loop)
    /\ mem' = Remember(mem, doing[Loop].event)
    /\ todo' = Tail(todo)
    /\ UNCHANGED <<up, conn, epoch, queue, queued, refused>>

-----------------------------------------------------------------------------
(***************************************************************************)
(* Control telemetry.                                                      *)
(***************************************************************************)
\* A control is aimed at the active turn of the thread, and the registry knows that turn.
Aimed(c) == c.turn # NoTurn => mem.registry.turns[c.turn].status # "unknown"

Enqueue(c) ==
    /\ Handling /\ c \notin queued /\ Aimed(c)
    /\ queued' = queued \cup {c}
    /\ queue' = Append(queue, Received(c))
    /\ UNCHANGED <<up, conn, epoch, mem, todo, refused, journalVars>>

WorkerOpens ==
    /\ up /\ queue # <<>>
    /\ Open(Worker, Head(queue), FALSE)
    /\ queue' = Tail(queue)
    /\ UNCHANGED <<up, conn, epoch, mem, todo, queued, refused>>

WorkerWrites == (Write(Worker) \/ Cache(Worker)) /\ up /\ UNCHANGED ingestVars

\* index_operational() runs on the event loop, after the append.
WorkerIndexed ==
    /\ up /\ todo = <<>> /\ Leave(Worker)
    /\ mem' = Remember(mem, doing[Worker].event)
    /\ UNCHANGED <<up, conn, epoch, todo, queue, queued, refused>>

-----------------------------------------------------------------------------
(***************************************************************************)
(* Connections and processes.                                              *)
(***************************************************************************)
\* The reconciliation attaches the thread when the server lists it.
Connect ==
    /\ up /\ conn = 0 /\ epoch < MaxEpoch
    /\ epoch' = epoch + 1 /\ conn' = epoch + 1
    /\ mem' = [mem EXCEPT !.registry = IF @.observed THEN Attach(@, epoch + 1) ELSE @]
    /\ UNCHANGED <<up, todo, queue, queued, refused, journalVars>>

Disconnect ==
    /\ Handling
    /\ conn' = 0
    /\ mem' = [mem EXCEPT !.registry = Detach(@, @.attached)]
    /\ UNCHANGED <<up, epoch, todo, queue, queued, refused, journalVars>>

Crash ==
    /\ up /\ Die(Writers)
    /\ up' = FALSE /\ conn' = 0 /\ epoch' = 0 /\ mem' = NoMemory
    /\ todo' = <<>> /\ queue' = <<>> /\ queued' = {}
    /\ UNCHANGED refused

\* _recover(): the torn tail is repaired, and a journal that cannot be read stops the daemon.
Boot ==
    /\ ~up /\ Readable(file)
    /\ up' = TRUE
    /\ file' = Kept(file)
    /\ mem' = Recovered(Kept(file))
    /\ epoch' = mem'.epoch
    /\ queued' = {c \in Controls : \E i \in DOMAIN file' : file'[i].event.note = c}
    /\ UNCHANGED <<conn, todo, queue, refused, sidecar, lock, doing, acked, crashes>>

IngestInit ==
    /\ up = TRUE /\ conn = 0 /\ epoch = 0 /\ mem = NoMemory
    /\ todo = <<>> /\ queue = <<>> /\ queued = {} /\ refused = {}

IngestNext ==
    \/ \E n \in Notifications : Contradicts(n) \/ Drop(n) \/ Refuse(n) \/ Accept(n)
    \/ LoopOpens \/ LoopWrites \/ LoopIndexes
    \/ \E c \in Controls : Enqueue(c)
    \/ WorkerOpens \/ WorkerWrites \/ WorkerIndexed
    \/ Connect \/ Disconnect \/ Crash \/ Boot

Init == JournalInit /\ IngestInit
Spec == Init /\ [][IngestNext]_vars

-----------------------------------------------------------------------------
(***************************************************************************)
(* Properties.                                                             *)
(***************************************************************************)
Events == {file[i].event : i \in DOMAIN file}
Precede(e, g) == \E i, j \in DOMAIN file : i < j /\ file[i].event = e /\ file[j].event = g
Quiet == up /\ todo = <<>> /\ \A w \in Writers : doing[w].at = "idle"

\* "Append normalized events once": no two records carry one event id, whatever connections,
\* redeliveries, crashes and telemetry come between them.
JournaledOnce ==
    \A i, j \in DOMAIN file :
        Id(file[i].event) # None /\ Id(file[i].event) = Id(file[j].event) => i = j

\* What the journal says of a turn and of an operation of one connection is in the order of
\* its life: no start after its end, one start and one end (record()).
LifecycleInOrder ==
    \A i, j \in DOMAIN file :
        LET e == file[i].event
            g == file[j].event
        IN  /\ i < j /\ e.note.kind = "turn_completed" /\ g.note.kind = "turn_started"
               => e.note.turn # g.note.turn
            /\ i < j /\ ~e.effect /\ ~g.effect /\ e.note.op # NoOp /\ OpKey(e) = OpKey(g)
               => e.note.life = "started" /\ g.note.life = "completed"

\* Whenever nothing is being appended, the indexes in memory are those a restart would build
\* from the journal: what a crash loses is nothing the ingestor decides by.
IndexesFollowJournal ==
    Quiet => LET m == Recovered(Kept(file))
             IN  /\ [mem EXCEPT !.registry = NoRegistry] = [m EXCEPT !.registry = NoRegistry]
                 /\ \A t \in Turns : m.registry.turns[t].status
                                     \in {"unknown", mem.registry.turns[t].status}

\* A completion is refused as a change of outcome only when the journal has another outcome
\* for the operation: "operation ... changed terminal outcome" (record()).
RefusedChangedOutcome ==
    \A e \in refused : \E g \in Events :
        ~g.effect /\ g.note.op # NoOp /\ OpKey(g) = OpKey(e) /\ g.note.outcome # e.note.outcome
=============================================================================
