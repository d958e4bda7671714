-------------------------- MODULE AppServerSession ---------------------------
(***************************************************************************)
(* One attachment of spotterd to a Codex App Server after another           *)
(* (app_server.CodexAppServerClient and the recovery loop of                *)
(* runtime_connection): the handshake, the walk over the server's threads,  *)
(* and the consumer task that records notifications and subscribes to       *)
(* threads it did not know, both with requests on the same socket.          *)
(*                                                                          *)
(* The socket carries messages in order; a request ends with its reply, an  *)
(* error, or the end of the whole connection, which one timeout is enough   *)
(* to bring about.  The server (external) lists its threads from the most   *)
(* recently updated, a page at a time, and may refuse to resume a thread,   *)
(* or not know the method.                                                  *)
(***************************************************************************)
EXTENDS Integers, Sequences, FiniteSets

CONSTANTS
    Threads,      \* the threads the server has
    Refusing,     \* those of which thread/resume is refused
    MaxEpoch,     \* bound: connections
    MaxUpdates,   \* bound: threads that start, load or begin a turn
    MaxFaults     \* bound: timeouts, closes, failed records

ASSUME SessionAssumption ==
    /\ IsFiniteSet(Threads) /\ Refusing \subseteq Threads
    /\ {MaxEpoch, MaxUpdates, MaxFaults} \subseteq Nat
    /\ "none" \notin Threads

None == "none"
Callers == {"loop", "consumer"}

VARIABLES
    supports,     \* the server knows thread/resume
    updated,      \* updated[t]: position of t's last update, 0 before it exists
    loaded,       \* threads that are loaded in the server
    subscribers,  \* threads whose events the server sends on this connection
    socket,       \* messages on their way to the client
    call,         \* call[c]: the request of task c
    client,       \* CodexAppServerClient: closed, its queue of events
    loop,         \* _run: where it is, and the locals of _reconcile (todo: threads to resume)
    consumer,     \* _consume: where it is, and the thread it resumes
    state,        \* RecoveryState
    epoch,        \* _connection_epoch
    entry,        \* entry[t]: epoch of the ThreadState, 0 without one
    subscribed,   \* _subscribed_threads
    gaps,         \* observation_gap records: thread and new epoch
    gone,         \* runtime_attachment_unavailable records, the same
    faults

vars == <<supports, updated, loaded, subscribers, socket, call, client, loop,
          consumer, state, epoch, entry, subscribed, gaps, gone, faults>>
server == <<supports, updated, loaded>>
records == <<entry, gaps, gone>>

Idle == [stage |-> "idle", method |-> None, thread |-> None, cursor |-> 0, reply |-> None]
NoWalk == [pc |-> "backoff", discovered |-> {}, unloaded |-> {},
           known |-> [t \in Threads |-> 0], todo |-> {}]

Init ==
    /\ supports \in BOOLEAN
    /\ updated \in {f \in [Threads -> 0 .. Cardinality(Threads)] :
                       \A t, u \in Threads : f[t] = f[u] => t = u \/ f[t] = 0}
    /\ loaded \in SUBSET {t \in Threads : updated[t] > 0}
    /\ subscribers = {} /\ socket = <<>>
    /\ call = [c \in Callers |-> Idle]
    /\ client = [closed |-> TRUE, queue |-> <<>>]
    /\ loop = NoWalk
    /\ consumer = [pc |-> "none", thread |-> None]
    /\ state = "backing_off"
    /\ epoch = 0
    /\ entry = [t \in Threads |-> 0]
    /\ subscribed = {} /\ gaps = {} /\ gone = {}
    /\ faults = 0

Fault == faults < MaxFaults /\ faults' = faults + 1

-----------------------------------------------------------------------------
(* The server (external).                                                  *)

Latest == CHOOSE n \in 0 .. Cardinality(Threads) + MaxUpdates :
             /\ \A t \in Threads : updated[t] <= n
             /\ \E t \in Threads : updated[t] = n

Event(t) == [kind |-> "event", caller |-> None, thread |-> t, reply |-> None]
Reply(c, r) == [kind |-> "reply", caller |-> c, thread |-> None, reply |-> r]
Sent(m) == socket' = IF client.closed THEN socket ELSE Append(socket, m)

\* A thread starts, is loaded again or changes status: the notification that every
\* connection gets, subscribed or not.
Update(t) ==
    /\ Latest < Cardinality(Threads) + MaxUpdates
    /\ updated' = [updated EXCEPT ![t] = Latest + 1]
    /\ loaded' = loaded \cup {t}
    /\ Sent(Event(t))
    /\ UNCHANGED <<supports, subscribers, call, client, loop, consumer, state, epoch,
                   subscribed, records, faults>>

\* The server drops a thread nobody watches from memory.
Unload(t) ==
    /\ t \in loaded \ subscribers
    /\ loaded' = loaded \ {t}
    /\ UNCHANGED <<supports, updated, subscribers, socket, call, client, loop, consumer,
                   state, epoch, subscribed, records, faults>>

\* thread/list, sorted by updated_at, one thread to a page; the cursor is the position
\* of the last thread returned, 0 for the first page.
Below(cursor) == {t \in Threads : updated[t] > 0 /\ (cursor = 0 \/ updated[t] < cursor)}
First(S) == CHOOSE t \in S : \A u \in S : updated[u] <= updated[t]

Page(cursor) ==
    IF Below(cursor) = {}
    THEN [kind |-> "page", threads |-> {}, loaded |-> FALSE, next |-> 0]
    ELSE LET t == First(Below(cursor))
         IN  [kind |-> "page", threads |-> {t}, loaded |-> t \in loaded,
              next |-> IF Below(updated[t]) = {} THEN 0 ELSE updated[t]]

Outcome(k) == [kind |-> k, threads |-> {}, loaded |-> FALSE, next |-> 0]

Answer(request) ==
    CASE request.method = "list" -> Page(request.cursor)
      [] request.method = "read" -> Outcome("result")
      [] request.method = "resume" /\ ~supports -> Outcome("unsupported")
      [] request.method = "resume" /\ supports /\ request.thread \in Refusing -> Outcome("refused")
      [] OTHER -> Outcome("result")

Subscribes(request) ==
    request.method = "resume" /\ supports /\ request.thread \notin Refusing

Serve(c) ==
    /\ call[c].stage = "sent"
    /\ ~client.closed
    /\ call' = [call EXCEPT ![c].stage = "served"]
    /\ Sent(Reply(c, Answer(call[c])))
    /\ IF Subscribes(call[c])
       THEN /\ subscribers' = subscribers \cup {call[c].thread}
            /\ loaded' = loaded \cup {call[c].thread}
       ELSE UNCHANGED <<subscribers, loaded>>
    /\ UNCHANGED <<supports, updated, client, loop, consumer, state, epoch, subscribed,
                   records, faults>>

-----------------------------------------------------------------------------
(* CodexAppServerClient.                                                   *)

Lost == Outcome("lost")

\* What is left of the requests when the connection ends: those in flight are lost.
Failed ==
    [c \in Callers |-> IF call[c].stage \in {"sent", "served"}
                       THEN [call[c] EXCEPT !.stage = "done", !.reply = Lost] ELSE call[c]]

\* The reader takes the next message.
Deliver ==
    /\ socket # <<>> /\ ~client.closed
    /\ socket' = Tail(socket)
    /\ LET m == Head(socket) IN
       IF m.kind = "event"
       THEN /\ client' = [client EXCEPT !.queue = Append(@, m.thread)]
            /\ UNCHANGED call
       ELSE /\ call' = [call EXCEPT ![m.caller].stage = "done", ![m.caller].reply = m.reply]
            /\ UNCHANGED client
    /\ UNCHANGED <<server, subscribers, loop, consumer, state, epoch, subscribed, records,
                   faults>>

\* A request times out, the peer closes, or a message cannot be read: the connection ends.
ConnectionFailed ==
    /\ Fault
    /\ ~client.closed
    /\ client' = [closed |-> TRUE, queue |-> Append(client.queue, None)]
    /\ call' = Failed
    /\ socket' = <<>> /\ subscribers' = {}
    /\ UNCHANGED <<server, loop, consumer, state, epoch, subscribed, records>>

\* A request is sent; on a connection that has ended it fails at once.
Request(c, method, t, cursor) ==
    call' = [call EXCEPT ![c] =
                [stage |-> IF client.closed THEN "done" ELSE "sent", method |-> method,
                 thread |-> t, cursor |-> cursor, reply |-> Lost]]

Answered(c, method) == call[c].stage = "done" /\ call[c].method = method
Forget(c) == call' = [call EXCEPT ![c] = Idle]

-----------------------------------------------------------------------------
(* The recovery loop.                                                      *)

\* connect(): the socket, the handshake, and a first page asked as a probe.
Connect ==
    /\ loop.pc = "backoff" /\ epoch < MaxEpoch
    /\ client' = [closed |-> FALSE, queue |-> <<>>]
    /\ state' = "connecting"
    /\ loop' = [NoWalk EXCEPT !.pc = "probe"]
    /\ call' = [call EXCEPT !["loop"] =
                   [stage |-> "sent", method |-> "list", thread |-> None, cursor |-> 0,
                    reply |-> Lost]]
    /\ UNCHANGED <<server, subscribers, socket, consumer, epoch, subscribed, records, faults>>

\* The connection is up: the epoch advances and the consumer starts.
Connected ==
    /\ loop.pc = "probe" /\ Answered("loop", "list")
    /\ call["loop"].reply.kind = "page"
    /\ epoch' = epoch + 1
    /\ subscribed' = {}
    /\ consumer' = [pc |-> "get", thread |-> None]
    /\ state' = "reconciling"
    /\ loop' = [loop EXCEPT !.pc = "list"]
    /\ Request("loop", "list", None, 0)
    /\ UNCHANGED <<server, subscribers, socket, client, records, faults>>

\* A page: the next one is asked for, or the paging is over, and what is known by now is
\* what gaps are measured against.
Listed ==
    /\ loop.pc = "list" /\ Answered("loop", "list")
    /\ LET page == call["loop"].reply
           found == loop.discovered \cup page.threads
           asleep == IF page.loaded THEN loop.unloaded \ page.threads
                     ELSE loop.unloaded \cup page.threads
       IN  /\ page.kind = "page"
           /\ IF page.next # 0
              THEN /\ loop' = [loop EXCEPT !.discovered = found, !.unloaded = asleep]
                   /\ Request("loop", "list", None, page.next)
              ELSE /\ loop' = [loop EXCEPT !.pc = "resume", !.discovered = found,
                                           !.unloaded = asleep, !.known = entry,
                                           !.todo = found \ asleep]
                   /\ Forget("loop")
    /\ UNCHANGED <<server, subscribers, socket, client, consumer, state, epoch, subscribed,
                   records, faults>>

Resume(t) ==
    /\ loop.pc = "resume" /\ call["loop"].stage = "idle"
    /\ t \in loop.todo
    /\ Request("loop", "resume", t, 0)
    /\ UNCHANGED <<server, subscribers, socket, client, loop, consumer, state, epoch,
                   subscribed, records, faults>>

\* The thread of the answered call is recorded as reconciled, after a gap unless its
\* state was of this epoch when the paging ended.
Reconciled(t) ==
    /\ gaps' = IF loop.known[t] = epoch THEN gaps ELSE gaps \cup {<<t, epoch>>}
    /\ entry' = [entry EXCEPT ![t] = epoch]
    /\ loop' = [loop EXCEPT !.todo = @ \ {t}]
    /\ Forget("loop")
    /\ UNCHANGED gone

Resumed ==
    /\ loop.pc = "resume" /\ Answered("loop", "resume")
    /\ call["loop"].reply.kind = "result"
    /\ subscribed' = subscribed \cup {call["loop"].thread}
    /\ Reconciled(call["loop"].thread)
    /\ UNCHANGED <<server, subscribers, socket, client, consumer, state, epoch, faults>>

\* One thread that cannot be subscribed to is read instead.
Degraded ==
    /\ loop.pc = "resume" /\ Answered("loop", "resume")
    /\ call["loop"].reply.kind = "refused"
    /\ Request("loop", "read", call["loop"].thread, 0)
    /\ UNCHANGED <<server, subscribers, socket, client, loop, consumer, state, epoch,
                   subscribed, records, faults>>

ReadInstead ==
    /\ loop.pc = "resume" /\ Answered("loop", "read")
    /\ call["loop"].reply.kind = "result"
    /\ Reconciled(call["loop"].thread)
    /\ UNCHANGED <<server, subscribers, socket, client, consumer, state, epoch, subscribed,
                   faults>>

\* Every discovered thread is done; those known and not discovered are unavailable.
Ready ==
    /\ loop.pc = "resume" /\ loop.todo = {} /\ call["loop"].stage = "idle"
    /\ LET missing == {t \in Threads : loop.known[t] # 0} \ loop.discovered
           now == missing \X {epoch}
       IN  /\ gaps' = gaps \cup now
           /\ gone' = gone \cup now
           /\ entry' = [t \in Threads |-> IF t \in missing THEN epoch ELSE entry[t]]
    /\ state' = "ready"
    /\ loop' = [NoWalk EXCEPT !.pc = "ready"]
    /\ UNCHANGED <<server, subscribers, socket, call, client, consumer, epoch, subscribed,
                   faults>>

\* Mutant: a thread that refuses to be resumed ends the connection.
RaisesOnRefusal ==
    \/ /\ call["loop"].stage = "done"
       /\ call["loop"].reply.kind \in {"lost", "unsupported", "refused"}
    \/ loop.pc = "ready" /\ client.closed

\* The outcomes that _reconcile and connect raise on, and the end of a connection waited
\* for: the consumer is cancelled, the client disconnected, and the loop backs off.
Raises ==
    \/ /\ call["loop"].stage = "done"
       /\ call["loop"].reply.kind \in {"lost", "unsupported"}
    \/ loop.pc = "ready" /\ client.closed

BackOff ==
    /\ Raises
    /\ loop' = NoWalk
    /\ state' = "backing_off"
    /\ consumer' = [pc |-> "none", thread |-> None]
    /\ call' = [c \in Callers |-> Idle]
    /\ client' = [closed |-> TRUE, queue |-> <<>>]
    /\ socket' = <<>> /\ subscribers' = {}
    /\ UNCHANGED <<server, epoch, subscribed, records, faults>>

-----------------------------------------------------------------------------
(* The consumer.                                                           *)

Record(t) ==
    /\ entry' = [entry EXCEPT ![t] = epoch]
    /\ UNCHANGED <<gaps, gone>>

\* Mutant: a thread the walk has listed is left to the walk.
SubscribedOrListed(t) == t \in subscribed \cup loop.discovered

Subscribed(t) == t \in subscribed

\* An event is recorded; a thread this connection is not subscribed to is resumed.
Consume ==
    /\ consumer.pc = "get" /\ client.queue # <<>> /\ Head(client.queue) # None
    /\ client' = [client EXCEPT !.queue = Tail(@)]
    /\ LET t == Head(client.queue) IN
       /\ Record(t)
       /\ IF Subscribed(t)
          THEN UNCHANGED <<call, consumer>>
          ELSE /\ consumer' = [pc |-> "resume", thread |-> t]
               /\ Request("consumer", "resume", t, 0)
    /\ UNCHANGED <<server, subscribers, socket, loop, state, epoch, subscribed, faults>>

\* Mutant: so does the refusal of one thread.
EndsOnRefusal(reply) == reply.kind # "result"

\* The end of the connection, or a reply that says observation is unavailable, ends the
\* task; a thread that refuses does not.
EndsConsumer(reply) == reply.kind \in {"lost", "unsupported"}

ConsumerAnswered ==
    /\ consumer.pc = "resume" /\ Answered("consumer", "resume")
    /\ LET reply == call["consumer"].reply IN
       /\ consumer' = [pc |-> IF EndsConsumer(reply) THEN "ended" ELSE "get", thread |-> None]
       /\ subscribed' = IF reply.kind = "result" THEN subscribed \cup {consumer.thread}
                        ELSE subscribed
    /\ Forget("consumer")
    /\ UNCHANGED <<server, subscribers, socket, client, loop, state, epoch, records, faults>>

ConsumerEnds ==
    /\ consumer.pc = "get" /\ client.closed
    /\ client.queue = <<>> \/ Head(client.queue) = None
    /\ consumer' = [pc |-> "ended", thread |-> None]
    /\ UNCHANGED <<server, subscribers, socket, call, client, loop, state, epoch, subscribed,
                   records, faults>>

\* An event cannot be recorded: the consumer disconnects the client and raises.
ConsumerFails ==
    /\ Fault
    /\ consumer.pc = "get" /\ client.queue # <<>> /\ Head(client.queue) # None
    /\ state' = "degraded"
    /\ consumer' = [pc |-> "ended", thread |-> None]
    /\ client' = [closed |-> TRUE, queue |-> <<>>]
    /\ call' = Failed
    /\ socket' = <<>> /\ subscribers' = {}
    /\ UNCHANGED <<server, loop, epoch, subscribed, records>>

-----------------------------------------------------------------------------

Loop ==
    \/ Connect \/ Connected \/ Listed \/ Resumed \/ Degraded \/ ReadInstead \/ Ready \/ BackOff
    \/ \E t \in Threads : Resume(t)

Consumer == Consume \/ ConsumerAnswered \/ ConsumerEnds

Next ==
    \/ \E t \in Threads : Update(t) \/ Unload(t)
    \/ \E c \in Callers : Serve(c)
    \/ Deliver \/ ConnectionFailed
    \/ Loop \/ Consumer \/ ConsumerFails

\* The server answers, the reader reads, and neither task is starved by the event loop.
Fairness ==
    /\ \A c \in Callers : WF_vars(Serve(c))
    /\ WF_vars(Deliver)
    /\ WF_vars(Loop)
    /\ WF_vars(Consumer)

Spec == Init /\ [][Next]_vars /\ Fairness

-----------------------------------------------------------------------------
(* Properties.                                                             *)

\* One thread that refuses thread/resume, and any finite number of lost connections, do
\* not keep the daemon from an attachment that stays up (the comment in _reconcile tells
\* of eleven epochs in three minutes that never became ready).
ReadyReached == supports => <>[](state = "ready")

InFlight ==
    \/ socket # <<>> \/ client.queue # <<>>
    \/ \E c \in Callers : call[c].stage # "idle"

\* In a ready attachment with nothing in flight every loaded thread that can be subscribed
\* to is: none falls between the walk over the pages and the notifications that arrived
\* while it ran (_reconcile, _subscribe_from_event).
QuietMeansSubscribed ==
    supports /\ state = "ready" /\ ~client.closed /\ ~InFlight
        => loaded \subseteq subscribers \cup Refusing

\* While a ready attachment lives somebody consumes its notifications, whatever single
\* thread could not be subscribed to (_consume, _subscribe_from_event).
ConsumedWhileReady ==
    supports /\ state = "ready" /\ ~client.closed => consumer.pc \in {"get", "resume"}

\* A thread the walk of this connection has resumed or read.
Walked(t) == loop.pc = "resume" /\ t \in loop.discovered \ (loop.unloaded \cup loop.todo)

\* A thread observed before this connection and reconciled on it has a gap between the
\* two ("Disconnect intervals produce per-thread observation_gap records").
NoSilentGap ==
    \A t \in Threads, e \in 1 .. MaxEpoch :
        [](entry[t] \in 1 .. e - 1 => [](epoch = e /\ Walked(t) => <<t, e>> \in gaps))

\* A thread recorded as unavailable on a connection is not one the server has loaded.
UnavailableWasGone ==
    [][\A t \in Threads : <<t, epoch>> \in gone' \ gone => t \notin loaded]_vars

\* As ConsumedWhileReady, for a server that does not know thread/resume.
ReadyIsConsumed ==
    state = "ready" /\ ~client.closed => consumer.pc \in {"get", "resume"}
=============================================================================
