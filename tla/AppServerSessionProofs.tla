------------------------ MODULE AppServerSessionProofs ------------------------
(***************************************************************************)
(* A ready attachment that lives is consumed, for any number of threads,   *)
(* refusing ones among them, of connections, updates and faults.           *)
(*                                                                         *)
(* The consumer ends only on a reply that tells of a lost connection or of *)
(* an unavailable method.  A server that knows the method never sends the  *)
(* second, and nobody holds the first while the connection lives: that is  *)
(* the invariant, over the socket, the calls and the two tasks.  A second  *)
(* one, further down, says that no loaded thread falls between the walk    *)
(* and the notifications.                                                  *)
(***************************************************************************)
EXTENDS AppServerSession, FiniteSetTheorems, WellFoundedInduction, TLAPS

Ending == {"lost", "unsupported"}

\* The records have the fields the code gives them.
Shapes ==
    /\ call = [c \in Callers |-> call[c]]
    /\ \A c \in Callers :
          call[c] = [stage |-> call[c].stage, method |-> call[c].method, thread |-> call[c].thread,
                     cursor |-> call[c].cursor, reply |-> call[c].reply]
    /\ client = [closed |-> client.closed, queue |-> client.queue]
    /\ client.closed \in BOOLEAN
    /\ loop = [pc |-> loop.pc, discovered |-> loop.discovered, unloaded |-> loop.unloaded,
               known |-> loop.known, todo |-> loop.todo]

\* No reply on its way tells a request that it ends.
Sound(m) == m.kind # "event" => m.reply.kind \notin Ending
SocketSound == supports => \E S : socket \in Seq(S) /\ \A m \in S : Sound(m)

\* Only the end of the connection gives such a reply.
EndingMeansClosed ==
    supports /\ ~client.closed =>
        \A c \in Callers : call[c].stage = "done" => call[c].reply.kind \notin Ending

BackOffIsIdle ==
    loop.pc = "backoff" => /\ client.closed /\ consumer.pc = "none"
                           /\ \A c \in Callers : call[c].stage = "idle"
ReadyIsLast == state = "ready" => loop.pc = "ready"

\* The consumer lives from the handshake until the connection ends.
ConsumerLives ==
    supports /\ ~client.closed /\ loop.pc \in {"list", "resume", "ready"} =>
        consumer.pc \in {"get", "resume"}

SessionInv ==
    /\ Shapes
    /\ SocketSound
    /\ EndingMeansClosed
    /\ BackOffIsIdle
    /\ ReadyIsLast
    /\ ConsumerLives

-----------------------------------------------------------------------------
LEMMA InitInv == Init => SessionInv
<1>. SUFFICES ASSUME Init PROVE SessionInv
  OBVIOUS
<1>1. Shapes
  BY DEF Init, Shapes, Idle, NoWalk
<1>2. SocketSound
  <2>1. socket \in Seq({})
    BY DEF Init
  <2>. QED
    BY <2>1 DEF SocketSound
<1>3. EndingMeansClosed /\ BackOffIsIdle /\ ReadyIsLast /\ ConsumerLives
  BY DEF Init, EndingMeansClosed, BackOffIsIdle, ReadyIsLast, ConsumerLives, Idle, NoWalk
<1>. QED
  BY <1>1, <1>2, <1>3 DEF SessionInv

\* A message sent joins the socket.
LEMMA SentSound ==
    ASSUME SocketSound, supports, NEW m, Sound(m), Sent(m)
    PROVE  \E S : socket' \in Seq(S) /\ \A n \in S : Sound(n)
<1>1. PICK S : socket \in Seq(S) /\ \A n \in S : Sound(n)
  BY DEF SocketSound
<1>2. CASE client.closed
  BY <1>1, <1>2 DEF Sent
<1>3. CASE ~client.closed
  <2>1. socket \in Seq(S \cup {m})
    BY <1>1
  <2>2. socket' \in Seq(S \cup {m})
    BY <1>3, <2>1 DEF Sent
  <2>. QED
    BY <1>1, <2>2
<1>. QED
  BY <1>2, <1>3

\* The server's replies to whoever it knows are no ends.
LEMMA AnswerSound == ASSUME supports, NEW r PROVE Answer(r).kind \notin Ending
BY DEF Answer, Page, Outcome, Ending

LEMMA ServerStep ==
    ASSUME SessionInv, \/ \E t \in Threads : Update(t) \/ Unload(t)
                       \/ \E c \in Callers : Serve(c)
    PROVE  SessionInv'
<1>. USE DEF SessionInv
<1>1. /\ UNCHANGED <<supports, client, loop, consumer, state>>
      /\ \/ UNCHANGED call
         \/ \E c \in Callers : call' = [call EXCEPT ![c].stage = "served"]
  BY DEF Update, Unload, Serve
<1>2. SocketSound'
  <2>. SUFFICES ASSUME supports PROVE \E S : socket' \in Seq(S) /\ \A n \in S : Sound(n)
    BY <1>1 DEF SocketSound
  <2>1. ASSUME NEW t \in Threads, Update(t) PROVE Sent(Event(t)) /\ Sound(Event(t))
    <3>1. Sent(Event(t))
      BY <2>1 DEF Update
    <3>2. Sound(Event(t))
      BY DEF Event, Sound
    <3>. QED
      BY <3>1, <3>2
  <2>2. ASSUME NEW c \in Callers, Serve(c)
        PROVE  Sent(Reply(c, Answer(call[c]))) /\ Sound(Reply(c, Answer(call[c])))
    BY <2>2, AnswerSound DEF Serve, Reply, Sound
  <2>3. ASSUME NEW t \in Threads, Unload(t) PROVE socket' = socket
    BY <2>3 DEF Unload
  <2>. QED
    BY <2>1, <2>2, <2>3, SentSound DEF SocketSound
<1>3. Shapes' /\ EndingMeansClosed' /\ BackOffIsIdle'
  <2>1. CASE UNCHANGED call
    BY <1>1, <2>1 DEF Shapes, EndingMeansClosed, BackOffIsIdle
  <2>2. ASSUME NEW c \in Callers, Serve(c), call' = [call EXCEPT ![c].stage = "served"]
        PROVE  Shapes' /\ EndingMeansClosed' /\ BackOffIsIdle'
    <3>1. call[c].stage = "sent"
      BY <2>2 DEF Serve
    <3>2. /\ \A d \in Callers : d # c => call'[d] = call[d]
          /\ call'[c] = [stage |-> "served", method |-> call[c].method, thread |-> call[c].thread,
                         cursor |-> call[c].cursor, reply |-> call[c].reply]
          /\ call' = [d \in Callers |-> call'[d]]
      BY <2>2 DEF Shapes
    <3>. QED
      BY <1>1, <3>1, <3>2 DEF Shapes, EndingMeansClosed, BackOffIsIdle
  <2>. QED
    BY <2>1, <2>2 DEF Update, Unload, Serve
<1>4. ReadyIsLast' /\ ConsumerLives'
  BY <1>1 DEF ReadyIsLast, ConsumerLives
<1>. QED
  BY <1>2, <1>3, <1>4


\* The reader hands a message on.
LEMMA DeliverStep == ASSUME SessionInv, Deliver PROVE SessionInv'
<1>. USE DEF SessionInv
<1>. DEFINE m == Head(socket)
<1>1. /\ socket # <<>> /\ ~client.closed /\ socket' = Tail(socket)
      /\ UNCHANGED <<supports, loop, consumer, state>>
  BY DEF Deliver, server
<1>2. SocketSound' /\ (supports => Sound(m))
  <2>. SUFFICES ASSUME supports
                PROVE  Sound(m) /\ \E S : socket' \in Seq(S) /\ \A n \in S : Sound(n)
    BY <1>1 DEF SocketSound
  <2>1. PICK S : socket \in Seq(S) /\ \A n \in S : Sound(n)
    BY DEF SocketSound
  <2>2. m \in S /\ socket' \in Seq(S)
    BY <1>1, <2>1
  <2>. QED
    BY <2>1, <2>2
<1>3. CASE m.kind = "event"
  <2>1. call' = call /\ client' = [closed |-> client.closed, queue |-> Append(client.queue, m.thread)]
    BY <1>3 DEF Deliver, Shapes
  <2>. QED
    BY <1>1, <1>2, <2>1
       DEF Shapes, EndingMeansClosed, BackOffIsIdle, ReadyIsLast, ConsumerLives
<1>4. CASE m.kind # "event"
  <2>1. client' = client
        /\ call' = [call EXCEPT ![m.caller].stage = "done", ![m.caller].reply = m.reply]
    BY <1>4 DEF Deliver
  <2>2. /\ \A d \in Callers : d # m.caller => call'[d] = call[d]
        /\ m.caller \in Callers => call'[m.caller] =
             [stage |-> "done", method |-> call[m.caller].method, thread |-> call[m.caller].thread,
              cursor |-> call[m.caller].cursor, reply |-> m.reply]
        /\ call' = [d \in Callers |-> call'[d]]
    <3>1. CASE m.caller \in Callers
      <4>. DEFINE mid == [call EXCEPT ![m.caller].stage = "done"]
      <4>1. call' = [mid EXCEPT ![m.caller].reply = m.reply]
        BY <2>1
      <4>2. /\ mid = [d \in Callers |-> mid[d]]
            /\ \A d \in Callers : d # m.caller => mid[d] = call[d]
            /\ mid[m.caller] =
                 [stage |-> "done", method |-> call[m.caller].method,
                  thread |-> call[m.caller].thread, cursor |-> call[m.caller].cursor,
                  reply |-> call[m.caller].reply]
        BY <3>1 DEF Shapes
      <4>. HIDE DEF mid
      <4>. QED
        BY <3>1, <4>1, <4>2
    <3>2. CASE m.caller \notin Callers
      <4>1. call' = call
        BY <2>1, <3>2 DEF Shapes
      <4>. QED
        BY <3>2, <4>1 DEF Shapes
    <3>. QED
      BY <3>1, <3>2
  <2>3. Shapes'
    <3>1. \A d \in Callers :
             call'[d] = [stage |-> call'[d].stage, method |-> call'[d].method,
                         thread |-> call'[d].thread, cursor |-> call'[d].cursor,
                         reply |-> call'[d].reply]
      BY <2>2 DEF Shapes
    <3>. QED
      BY <1>1, <2>1, <2>2, <3>1 DEF Shapes
  <2>4. EndingMeansClosed'
    <3>1. supports => m.reply.kind \notin Ending
      BY <1>2, <1>4 DEF Sound
    <3>2. ASSUME supports, NEW d \in Callers, call'[d].stage = "done"
          PROVE  call'[d].reply.kind \notin Ending
      <4>1. CASE d = m.caller
        BY <2>2, <3>1, <3>2, <4>1
      <4>2. CASE d # m.caller
        BY <1>1, <2>2, <3>2, <4>2 DEF EndingMeansClosed
      <4>. QED
        BY <4>1, <4>2
    <3>. QED
      BY <1>1, <3>2 DEF EndingMeansClosed
  <2>5. loop.pc # "backoff"
    BY <1>1 DEF BackOffIsIdle
  <2>. QED
    BY <1>1, <1>2, <2>1, <2>3, <2>4, <2>5 DEF BackOffIsIdle, ReadyIsLast, ConsumerLives
<1>. QED
  BY <1>3, <1>4

\* The connection ends.
LEMMA FailedStep == ASSUME SessionInv, ConnectionFailed \/ ConsumerFails PROVE SessionInv'
<1>1. /\ client'.closed /\ client' = [closed |-> TRUE, queue |-> client'.queue]
      /\ call' = Failed /\ socket' = <<>> /\ UNCHANGED <<supports, loop>>
      /\ state' = state \/ state' = "degraded"
  BY DEF ConnectionFailed, ConsumerFails, server
<1>2. loop.pc # "backoff"
  BY DEF ConnectionFailed, ConsumerFails, SessionInv, BackOffIsIdle
<1>3. Shapes' /\ \A c \in Callers : call[c].stage = "idle" => call'[c].stage = "idle"
  BY <1>1 DEF Failed, SessionInv, Shapes
<1>4. SocketSound'
  <2>1. socket' \in Seq({})
    BY <1>1
  <2>. QED
    BY <2>1 DEF SocketSound
<1>. QED
  BY <1>1, <1>3, <1>4, <1>2
     DEF SessionInv, EndingMeansClosed, BackOffIsIdle, ReadyIsLast, ConsumerLives

\* One task begins or forgets a request.
LEMMA CallPut ==
    ASSUME Shapes, NEW c \in Callers,
           Forget(c) \/ \E method, t, cursor : Request(c, method, t, cursor)
    PROVE  /\ call' = [d \in Callers |-> call'[d]]
           /\ \A d \in Callers :
                 call'[d] = [stage |-> call'[d].stage, method |-> call'[d].method,
                             thread |-> call'[d].thread, cursor |-> call'[d].cursor,
                             reply |-> call'[d].reply]
           /\ \A d \in Callers : d # c => call'[d] = call[d]
           /\ call'[c].stage = "done" => client.closed
<1>1. CASE Forget(c)
  BY <1>1 DEF Forget, Idle, Shapes
<1>2. ASSUME NEW method, NEW t, NEW cursor, Request(c, method, t, cursor)
      PROVE  /\ call' = [d \in Callers |-> call'[d]]
             /\ call'[c] = [stage |-> call'[c].stage, method |-> call'[c].method,
                            thread |-> call'[c].thread, cursor |-> call'[c].cursor,
                            reply |-> call'[c].reply]
             /\ \A d \in Callers : d # c => call'[d] = call[d]
             /\ call'[c].stage = "done" => client.closed
  BY <1>2 DEF Request, Shapes
<1>. QED
  BY <1>1, <1>2 DEF Shapes

\* A step of the walk: the loop's own call changes, the consumer is left alone.
LEMMA WalkStep ==
    ASSUME SessionInv,
           \/ Listed \/ Resumed \/ Degraded \/ ReadInstead
           \/ \E t \in Threads : Resume(t)
    PROVE  SessionInv'
<1>. USE DEF SessionInv
<1>1. /\ UNCHANGED <<supports, socket, client, consumer, state>>
      /\ Forget("loop") \/ \E method, t, cursor : Request("loop", method, t, cursor)
      /\ loop.pc \in {"list", "resume"} /\ loop'.pc \in {"list", "resume"}
      /\ loop' = [pc |-> loop'.pc, discovered |-> loop'.discovered, unloaded |-> loop'.unloaded,
                  known |-> loop'.known, todo |-> loop'.todo]
  <2>1. CASE Listed
    BY <2>1 DEF Listed, Shapes, server
  <2>2. CASE Resumed
    BY <2>2 DEF Resumed, Reconciled, Shapes, server
  <2>3. CASE Degraded
    BY <2>3 DEF Degraded, Shapes, server
  <2>4. CASE ReadInstead
    BY <2>4 DEF ReadInstead, Reconciled, Shapes, server
  <2>5. ASSUME NEW t \in Threads, Resume(t) PROVE <1>1
    BY <2>5 DEF Resume, Shapes, server
  <2>. QED
    BY <2>1, <2>2, <2>3, <2>4, <2>5
<1>2. Shapes' /\ EndingMeansClosed'
  BY <1>1, CallPut DEF Shapes, EndingMeansClosed, Callers
<1>3. SocketSound' /\ BackOffIsIdle' /\ ReadyIsLast' /\ ConsumerLives'
  BY <1>1 DEF SocketSound, BackOffIsIdle, ReadyIsLast, ConsumerLives
<1>. QED
  BY <1>2, <1>3

LEMMA ConnectStep == ASSUME SessionInv, Connect PROVE SessionInv'
<1>. USE DEF SessionInv
<1>1. /\ loop.pc = "backoff" /\ client' = [closed |-> FALSE, queue |-> <<>>]
      /\ state' = "connecting" /\ loop' = [NoWalk EXCEPT !.pc = "probe"]
      /\ call' = [call EXCEPT !["loop"] = [stage |-> "sent", method |-> "list", thread |-> None,
                                           cursor |-> 0, reply |-> Lost]]
      /\ UNCHANGED <<supports, socket, consumer>>
  BY DEF Connect, server
<1>2. /\ \A c \in Callers : call'[c].stage \in {"sent", "idle"}
      /\ loop'.pc = "probe"
      /\ Shapes'
  BY <1>1 DEF Shapes, BackOffIsIdle, NoWalk, Callers
<1>. QED
  BY <1>1, <1>2 DEF SocketSound, EndingMeansClosed, BackOffIsIdle, ReadyIsLast, ConsumerLives

LEMMA ConnectedStep == ASSUME SessionInv, Connected PROVE SessionInv'
<1>. USE DEF SessionInv
<1>1. /\ consumer'.pc = "get" /\ state' = "reconciling" /\ loop' = [loop EXCEPT !.pc = "list"]
      /\ Request("loop", "list", None, 0)
      /\ UNCHANGED <<supports, socket, client>>
  BY DEF Connected, server
<1>2. loop'.pc = "list" /\ Shapes'
  BY <1>1, CallPut DEF Shapes, Callers
<1>3. EndingMeansClosed'
  BY <1>1, CallPut DEF EndingMeansClosed, Callers
<1>. QED
  BY <1>1, <1>2, <1>3 DEF SocketSound, BackOffIsIdle, ReadyIsLast, ConsumerLives

LEMMA ReadyStep == ASSUME SessionInv, Ready PROVE SessionInv'
<1>1. /\ loop.pc = "resume" /\ state' = "ready" /\ loop' = [NoWalk EXCEPT !.pc = "ready"]
      /\ UNCHANGED <<supports, socket, call, client, consumer>>
  BY DEF Ready, server
<1>2. loop'.pc = "ready" /\ Shapes'
  BY <1>1 DEF SessionInv, Shapes, NoWalk
<1>. QED
  BY <1>1, <1>2
     DEF SessionInv, SocketSound, EndingMeansClosed, BackOffIsIdle, ReadyIsLast, ConsumerLives

LEMMA BackOffStep == ASSUME SessionInv, BackOff PROVE SessionInv'
<1>1. /\ loop' = NoWalk /\ state' = "backing_off" /\ call' = [c \in Callers |-> Idle]
      /\ client' = [closed |-> TRUE, queue |-> <<>>] /\ socket' = <<>>
      /\ consumer'.pc = "none"
  BY DEF BackOff
<1>2. loop'.pc = "backoff" /\ Shapes' /\ \A c \in Callers : call'[c].stage = "idle"
  BY <1>1 DEF Shapes, NoWalk, Idle
<1>3. SocketSound'
  <2>1. socket' \in Seq({})
    BY <1>1
  <2>. QED
    BY <2>1 DEF SocketSound
<1>. QED
  BY <1>1, <1>2, <1>3
     DEF SessionInv, EndingMeansClosed, BackOffIsIdle, ReadyIsLast, ConsumerLives

\* The consumer takes an event, and perhaps begins to resume its thread.
LEMMA ConsumeStep == ASSUME SessionInv, Consume PROVE SessionInv'
<1>. USE DEF SessionInv
<1>1. /\ client' = [client EXCEPT !.queue = Tail(@)] /\ UNCHANGED <<supports, socket, loop, state>>
      /\ consumer.pc = "get"
      /\ \/ UNCHANGED <<call, consumer>>
         \/ consumer'.pc = "resume" /\ Request("consumer", "resume", Head(client.queue), 0)
  BY DEF Consume, server
<1>2. client'.closed = client.closed /\ client' = [closed |-> client'.closed, queue |-> client'.queue]
  BY <1>1 DEF Shapes
<1>3. Shapes' /\ EndingMeansClosed'
  BY <1>1, <1>2, CallPut DEF Shapes, EndingMeansClosed, Callers
<1>4. BackOffIsIdle'
  <2>1. loop.pc = "backoff" => client.closed
    BY DEF BackOffIsIdle
  <2>. QED
    BY <1>1, <1>2, <2>1 DEF BackOffIsIdle
<1>. QED
  BY <1>1, <1>2, <1>3, <1>4 DEF SocketSound, ReadyIsLast, ConsumerLives

\* The reply to the consumer ends it only if the connection ended.
LEMMA ConsumerAnsweredStep == ASSUME SessionInv, ConsumerAnswered PROVE SessionInv'
<1>. USE DEF SessionInv
<1>1. /\ call["consumer"].stage = "done"
      /\ consumer'.pc = IF EndsConsumer(call["consumer"].reply) THEN "ended" ELSE "get"
      /\ Forget("consumer") /\ UNCHANGED <<supports, socket, client, loop, state>>
  BY DEF ConsumerAnswered, Answered, server
<1>2. Shapes' /\ EndingMeansClosed'
  BY <1>1, CallPut DEF Shapes, EndingMeansClosed, Callers
<1>3. loop.pc # "backoff"
  BY <1>1 DEF BackOffIsIdle, Callers
<1>4. supports /\ ~client.closed => ~EndsConsumer(call["consumer"].reply)
  BY <1>1 DEF EndingMeansClosed, EndsConsumer, Ending, Callers
<1>. QED
  BY <1>1, <1>2, <1>3, <1>4 DEF SocketSound, BackOffIsIdle, ReadyIsLast, ConsumerLives

LEMMA ConsumerEndsStep == ASSUME SessionInv, ConsumerEnds PROVE SessionInv'
BY DEF ConsumerEnds, SessionInv, Shapes, SocketSound, EndingMeansClosed, BackOffIsIdle, ReadyIsLast,
       ConsumerLives, server

LEMMA SessionInvariant == Spec => []SessionInv
<1>1. SessionInv /\ [Next]_vars => SessionInv'
  <2>. SUFFICES ASSUME SessionInv, [Next]_vars PROVE SessionInv'
    OBVIOUS
  <2>1. CASE UNCHANGED vars
    BY <2>1 DEF vars, SessionInv, Shapes, SocketSound, EndingMeansClosed, BackOffIsIdle, ReadyIsLast,
                ConsumerLives
  <2>2. CASE Loop
    BY <2>2, WalkStep, ConnectStep, ConnectedStep, ReadyStep, BackOffStep DEF Loop
  <2>3. CASE Consumer
    BY <2>3, ConsumeStep, ConsumerAnsweredStep, ConsumerEndsStep DEF Consumer
  <2>. QED
    BY <2>1, <2>2, <2>3, ServerStep, DeliverStep, FailedStep DEF Next
<1>. QED
  BY <1>1, InitInv, PTL DEF Spec

\* While a ready attachment lives its notifications are consumed.
THEOREM ReadyIsServed == Spec => []ConsumedWhileReady
<1>1. SessionInv => ConsumedWhileReady
  BY DEF SessionInv, ReadyIsLast, ConsumerLives, ConsumedWhileReady
<1>. QED
  BY <1>1, SessionInvariant, PTL

-----------------------------------------------------------------------------
(***************************************************************************)
(* No thread is missed.  Every loaded thread that can be subscribed to is, *)
(* or an event of it is on the way, or the consumer is asking for it, or   *)
(* the walk will come to it: it is below the cursor, on a page on the way, *)
(* or among those still to be resumed.  A thread that moves up past the    *)
(* cursor does so with an event.                                           *)
(***************************************************************************)

Open == supports /\ ~client.closed

\* The server numbers its updates.
Positions ==
    /\ updated \in [Threads -> 0 .. Cardinality(Threads) + MaxUpdates] /\ loaded \subseteq Threads
    /\ \A t \in loaded : updated[t] > 0
    /\ \A t, u \in Threads : updated[t] = updated[u] => t = u \/ updated[t] = 0

\* Whoever is listed, resumed or told of exists in the server.
Exists == {t \in Threads : updated[t] > 0}
Existing ==
    /\ \A i \in DOMAIN socket : IF socket[i].kind = "event" THEN socket[i].thread \in Exists
                                ELSE socket[i].reply.threads \subseteq Exists
    /\ \A i \in DOMAIN client.queue : client.queue[i] \in Exists \cup {None}
    /\ \A c \in Callers : /\ call[c].stage = "done" => call[c].reply.threads \subseteq Exists
                          /\ call[c].method = "resume" => call[c].thread \in Exists
    /\ loop.discovered \subseteq Exists /\ loop.todo \subseteq Exists

IsSequence(q) == \E S : q \in Seq(S)

\* A served request has at most one reply on the way, every other none.
Told(c) == {i \in DOMAIN socket : socket[i].kind = "reply" /\ socket[i].caller = c}
OneReply ==
    /\ IsSequence(socket) /\ IsSequence(client.queue)
    /\ \A i \in DOMAIN socket : IF socket[i].kind = "event" THEN TRUE
                                ELSE socket[i].kind = "reply" /\ socket[i].caller \in Callers
    /\ \A c \in Callers : /\ call[c].stage # "served" => Told(c) = {}
                          /\ \A i, j \in Told(c) : i = j

\* The two tasks and their calls.
Tasks ==
    /\ IF consumer.pc = "resume"
       THEN call["consumer"].method = "resume" /\ call["consumer"].thread = consumer.thread
       ELSE call["consumer"].stage = "idle"
    /\ loop.pc \in {"backoff", "probe", "list", "resume", "ready"}
    /\ loop.pc \in {"probe", "list"} => call["loop"].method = "list"
    /\ loop.pc \in {"probe", "backoff"} => consumer.pc = "none"

\* Subscribed to, or not to be: what an answered resume leaves of a thread.
Dealt(t) == t \in subscribers \cup Refusing
Dealings ==
    Open => /\ \A c \in Callers :
                  /\ call[c].method = "resume" /\ call[c].stage \in {"served", "done"}
                         => Dealt(call[c].thread)
                  /\ call[c].method = "read" /\ call[c].stage # "idle" => Dealt(call[c].thread)
            /\ loop.pc \in {"list", "resume", "ready"} => \A t \in subscribed : Dealt(t)

\* A page leads the walk to a thread: it has the thread, or the next page may, or an earlier
\* one had it.
Leads(page, t) ==
    \/ t \in page.threads /\ page.loaded
    \/ page.next # 0 /\ t \in Below(page.next)
    \/ t \in loop.discovered \ loop.unloaded /\ ~(t \in page.threads /\ ~page.loaded)

WalkComes(t) ==
    \/ loop.pc = "probe"
    \/ /\ loop.pc = "list" /\ call["loop"].stage = "sent"
       /\ t \in Below(call["loop"].cursor) \/ t \in loop.discovered \ loop.unloaded
    \/ /\ loop.pc = "list" /\ call["loop"].stage = "served"
       /\ \A i \in Told("loop") : Leads(socket[i].reply, t)
    \/ loop.pc = "list" /\ call["loop"].stage = "done" /\ Leads(call["loop"].reply, t)
    \/ loop.pc = "resume" /\ t \in loop.todo

EventComes(t) ==
    \/ \E i \in DOMAIN socket : socket[i].kind = "event" /\ socket[i].thread = t
    \/ \E i \in DOMAIN client.queue : client.queue[i] = t

ConsumerAsks(t) ==
    /\ call["consumer"].stage = "sent" /\ call["consumer"].method = "resume"
    /\ call["consumer"].thread = t

Covered == Open => \A t \in loaded : Dealt(t) \/ EventComes(t) \/ ConsumerAsks(t) \/ WalkComes(t)

CoverInv == Positions /\ Existing /\ OneReply /\ Tasks /\ Dealings /\ Covered

-----------------------------------------------------------------------------
(* The latest of finitely many updates. *)

LEMMA LessIsLess == ASSUME NEW m \in Nat, NEW n \in Nat, m < n PROVE <<m, n>> \in OpToRel(<, Nat)
BY DEF OpToRel

LEMMA LeastExists ==
    ASSUME NEW S, S \subseteq Nat, S # {}
    PROVE  \E n \in S : \A m \in S : n <= m
<1>1. PICK n \in S : \A m \in S : ~(<<m, n>> \in OpToRel(<, Nat))
  BY NatLessThanWellFounded, WFMin
<1>2. \A m \in S : ~(m < n)
  BY <1>1, LessIsLess
<1>. QED
  BY <1>2

LEMMA LatestExists ==
    ASSUME NEW bound \in Nat, NEW S, S \subseteq 0 .. bound, S # {}
    PROVE  \E n \in S : \A m \in S : m <= n
<1>. DEFINE Above == {k \in 0 .. bound : \A m \in S : m <= k}
<1>1. PICK k \in Above : \A m \in Above : k <= m
  <2>1. Above \subseteq Nat /\ bound \in Above
    OBVIOUS
  <2>. HIDE DEF Above
  <2>. QED
    BY <2>1, LeastExists
<1>2. k \in 0 .. bound /\ \A m \in S : m <= k
  BY <1>1
<1>3. CASE k \in S
  BY <1>2, <1>3
<1>4. CASE k \notin S
  <2>0. PICK m \in S : m <= k /\ m # k /\ m \in 0 .. bound
    BY <1>2, <1>4
  <2>1. k > 0
    BY <1>2, <2>0
  <2>2. k - 1 \in 0 .. bound
    BY <1>2, <2>1
  <2>3. \A l \in S : l <= k - 1
    BY <1>2, <1>4
  <2>4. k - 1 \in Above
    BY <2>2, <2>3
  <2>5. k <= k - 1
    BY <1>1, <2>4
  <2>. QED
    BY <1>2, <2>5
<1>. QED
  BY <1>3, <1>4

LEMMA BoundIsNatural == Cardinality(Threads) + MaxUpdates \in Nat
<1>1. Cardinality(Threads) \in Nat /\ MaxUpdates \in Nat
  BY SessionAssumption, FS_CardinalityType
<1>. QED
  BY <1>1

LEMMA FirstIsLatest ==
    ASSUME Positions, NEW S, S \subseteq Threads, S # {}
    PROVE  First(S) \in S /\ \A u \in S : updated[u] <= updated[First(S)]
<1>. DEFINE numbers == {updated[t] : t \in S}
            bound == Cardinality(Threads) + MaxUpdates
<1>1. numbers \subseteq 0 .. bound /\ numbers # {}
  BY DEF Positions
<1>2. PICK n \in numbers : \A m \in numbers : m <= n
  <2>1. bound \in Nat
    BY BoundIsNatural
  <2>. HIDE DEF numbers, bound
  <2>. QED
    BY <1>1, <2>1, LatestExists
<1>3. \E t \in S : \A u \in S : updated[u] <= updated[t]
  BY <1>2
<1>. QED
  BY <1>3 DEF First

LEMMA LatestIsLatest ==
    ASSUME Positions, Threads # {}
    PROVE  /\ Latest \in 0 .. Cardinality(Threads) + MaxUpdates
           /\ \A t \in Threads : updated[t] <= Latest
<1>1. First(Threads) \in Threads /\ \A t \in Threads : updated[t] <= updated[First(Threads)]
  BY FirstIsLatest
<1>2. \E n \in 0 .. Cardinality(Threads) + MaxUpdates :
          (\A t \in Threads : updated[t] <= n) /\ \E t \in Threads : updated[t] = n
  BY <1>1 DEF Positions
<1>. QED
  BY <1>2 DEF Latest

\* A page of what is below the cursor leads to every loaded thread there.
LEMMA PageLeads ==
    ASSUME Positions, NEW cursor, NEW t \in loaded,
           t \in Below(cursor) \/ t \in loop.discovered \ loop.unloaded
    PROVE  Leads(Page(cursor), t)
<1>. DEFINE f == First(Below(cursor))
<1>1. CASE Below(cursor) = {}
  BY <1>1 DEF Page, Leads
<1>2. CASE Below(cursor) # {}
  <2>1. Below(cursor) \subseteq Threads
    BY DEF Below
  <2>2. f \in Below(cursor) /\ \A u \in Below(cursor) : updated[u] <= updated[f]
    BY <1>2, <2>1, FirstIsLatest
  <2>3. Page(cursor) = [kind |-> "page", threads |-> {f}, loaded |-> f \in loaded,
                        next |-> IF Below(updated[f]) = {} THEN 0 ELSE updated[f]]
    BY <1>2 DEF Page
  <2>. HIDE DEF f
  <2>4. /\ Page(cursor).threads = {f} /\ Page(cursor).loaded = (f \in loaded)
        /\ Page(cursor).next = IF Below(updated[f]) = {} THEN 0 ELSE updated[f]
    BY <2>3
  <2>5. CASE t = f
    <3>1. Page(cursor).loaded
      BY <2>4, <2>5
    <3>. QED
      BY <2>4, <2>5, <3>1 DEF Leads
  <2>6. CASE t # f /\ t \in Below(cursor)
    <3>1. /\ updated[t] > 0 /\ updated[f] > 0 /\ updated[t] # updated[f] /\ updated[t] <= updated[f]
          /\ updated[t] \in Nat /\ updated[f] \in Nat /\ t \in Threads
      BY <2>1, <2>2, <2>6 DEF Positions, Below
    <3>2. t \in Below(updated[f])
      BY <3>1 DEF Below
    <3>3. Page(cursor).next = updated[f] /\ updated[f] # 0
      BY <2>4, <3>1, <3>2
    <3>. QED
      BY <3>2, <3>3 DEF Leads
  <2>7. CASE t # f /\ t \in loop.discovered \ loop.unloaded
    BY <2>4, <2>7 DEF Leads
  <2>. QED
    BY <2>5, <2>6, <2>7
<1>. QED
  BY <1>1, <1>2

\* What is told: nothing is, of nobody, on an empty socket.
LEMMA CoverInit == Init => CoverInv
<1>. SUFFICES ASSUME Init PROVE CoverInv
  OBVIOUS
<1>1. Positions
  <2>1. Cardinality(Threads) \in Nat /\ MaxUpdates \in Nat
    BY SessionAssumption, FS_CardinalityType
  <2>2. /\ updated \in [Threads -> 0 .. Cardinality(Threads)] /\ loaded \subseteq Threads
        /\ \A t \in loaded : updated[t] > 0
        /\ \A t, u \in Threads : updated[t] = updated[u] => t = u \/ updated[t] = 0
    BY DEF Init
  <2>3. \A t \in Threads : updated[t] \in 0 .. Cardinality(Threads) + MaxUpdates
    BY <2>1, <2>2
  <2>4. updated \in [Threads -> 0 .. Cardinality(Threads) + MaxUpdates]
    BY <2>2, <2>3
  <2>. QED
    BY <2>2, <2>4 DEF Positions
<1>2. OneReply
  <2>1. socket \in Seq({}) /\ client.queue \in Seq({})
    BY DEF Init
  <2>2. DOMAIN socket = {} /\ \A c \in Callers : Told(c) = {}
    BY DEF Init, Told
  <2>3. IsSequence(socket) /\ IsSequence(client.queue)
    BY <2>1 DEF IsSequence
  <2>4. \A i \in DOMAIN socket : IF socket[i].kind = "event" THEN TRUE
                                  ELSE socket[i].kind = "reply" /\ socket[i].caller \in Callers
    BY <2>2
  <2>5. \A c \in Callers : /\ call[c].stage # "served" => Told(c) = {}
                          /\ \A i, j \in Told(c) : i = j
    BY <2>2
  <2>. QED
    BY <2>3, <2>4, <2>5 DEF OneReply
<1>3. Tasks /\ Dealings /\ Covered
  BY DEF Init, Tasks, Dealings, Covered, Open, Idle, NoWalk, Callers
<1>4. Existing
  BY DEF Init, Existing, Idle, NoWalk, None
<1>. QED
  BY <1>1, <1>2, <1>3, <1>4 DEF CoverInv

-----------------------------------------------------------------------------
(* What a task's step does to the calls. *)

LEMMA RequestMade ==
    ASSUME Shapes, NEW c \in Callers, NEW method, NEW t, NEW cursor, Request(c, method, t, cursor)
    PROVE  /\ call'[c] = [stage |-> IF client.closed THEN "done" ELSE "sent", method |-> method,
                          thread |-> t, cursor |-> cursor, reply |-> Lost]
           /\ \A d \in Callers : d # c => call'[d] = call[d]
BY DEF Request, Shapes

LEMMA Forgotten ==
    ASSUME Shapes, NEW c \in Callers, Forget(c)
    PROVE  call'[c] = Idle /\ \A d \in Callers : d # c => call'[d] = call[d]
BY DEF Forget, Shapes

LEMMA LostHasNothing == Lost.threads = {} /\ Idle.stage = "idle" /\ Idle.method = None
BY DEF Lost, Outcome, Idle

\* A connection that has ended needs nothing of what follows.
LEMMA ClosedKeeps ==
    ASSUME client'.closed, Positions', Existing', OneReply', Tasks' PROVE CoverInv'
BY DEF CoverInv, Dealings, Covered, Open

\* The server: a thread moves up, with an event.
LEMMA UpdateCover == ASSUME SessionInv, CoverInv, NEW t \in Threads, Update(t) PROVE CoverInv'
<1>. USE DEF CoverInv
<1>. DEFINE bound == Cardinality(Threads) + MaxUpdates
<1>1. /\ Latest < bound /\ updated' = [updated EXCEPT ![t] = Latest + 1]
      /\ loaded' = loaded \cup {t} /\ Sent(Event(t))
      /\ UNCHANGED <<supports, subscribers, call, client, loop, consumer, state, subscribed>>
  BY DEF Update
<1>2. bound \in Nat /\ Latest \in 0 .. bound /\ \A u \in Threads : updated[u] <= Latest
  BY BoundIsNatural, LatestIsLatest
<1>3. /\ updated' \in [Threads -> 0 .. bound] /\ updated'[t] = Latest + 1
      /\ \A u \in Threads : u # t => updated'[u] = updated[u]
  BY <1>1, <1>2 DEF Positions
<1>4. Positions'
  <2>1. \A u \in Threads : updated[u] \in Nat
    BY <1>2 DEF Positions
  <2>2. \A u \in Threads : u # t => updated'[u] # updated'[t]
    BY <1>2, <1>3, <2>1
  <2>3. \A u \in loaded' : updated'[u] > 0
    BY <1>1, <1>2, <1>3 DEF Positions
  <2>4. \A u, v \in Threads : updated'[u] = updated'[v] => u = v \/ updated'[u] = 0
    BY <1>3, <2>2 DEF Positions
  <2>. QED
    BY <1>1, <1>3, <2>3, <2>4 DEF Positions
<1>5. Exists \subseteq Exists' /\ t \in Exists'
  BY <1>2, <1>3 DEF Exists
<1>6. /\ IsSequence(socket')
      /\ \A i \in DOMAIN socket : i \in DOMAIN socket' /\ socket'[i] = socket[i]
      /\ \A i \in DOMAIN socket' : i \in DOMAIN socket \/ socket'[i] = Event(t)
      /\ ~client.closed => \E i \in DOMAIN socket' : socket'[i] = Event(t)
  <2>1. PICK S : socket \in Seq(S)
    BY DEF OneReply, IsSequence
  <2>2. CASE client.closed
    BY <1>1, <2>1, <2>2 DEF Sent, IsSequence
  <2>3. CASE ~client.closed
    <3>1. socket' = Append(socket, Event(t))
      BY <1>1, <2>3 DEF Sent
    <3>2. socket \in Seq(S \cup {Event(t)})
      BY <2>1
    <3>3. /\ socket' \in Seq(S \cup {Event(t)}) /\ Len(socket) + 1 \in DOMAIN socket'
          /\ socket'[Len(socket) + 1] = Event(t)
          /\ \A i \in DOMAIN socket' : i \in DOMAIN socket \/ i = Len(socket) + 1
          /\ \A i \in DOMAIN socket : i \in DOMAIN socket' /\ socket'[i] = socket[i]
      BY <3>1, <3>2
    <3>. QED
      BY <3>3 DEF IsSequence
  <2>. QED
    BY <2>2, <2>3
<1>7. \A c \in Callers : Told(c)' = Told(c)
  BY <1>6 DEF Told, Event
<1>8. OneReply'
  <2>1. \A i \in DOMAIN socket' : IF socket'[i].kind = "event" THEN TRUE
                                  ELSE socket'[i].kind = "reply" /\ socket'[i].caller \in Callers
    BY <1>6 DEF OneReply, Event
  <2>2. \A c \in Callers : /\ call'[c].stage # "served" => Told(c)' = {}
                           /\ \A i, j \in Told(c)' : i = j
    BY <1>1, <1>7 DEF OneReply
  <2>. QED
    BY <1>1, <1>6, <2>1, <2>2 DEF OneReply
<1>9. Existing'
  BY <1>1, <1>5, <1>6 DEF Existing, Event
<1>10. Tasks' /\ Dealings'
  BY <1>1 DEF Tasks, Dealings, Open, Dealt
<1>11. Covered'
  <2>. SUFFICES ASSUME Open, NEW u \in loaded'
                PROVE  Dealt(u)' \/ EventComes(u)' \/ ConsumerAsks(u)' \/ WalkComes(u)'
    BY <1>1 DEF Covered, Open
  <2>1. CASE u = t
    BY <1>6, <2>1 DEF Open, EventComes, Event
  <2>2. CASE u # t
    <3>1. u \in loaded /\ u \in Threads
      BY <1>1, <2>2 DEF Positions
    <3>2. \A cursor : u \in Below(cursor) => u \in Below(cursor)'
      BY <1>3, <2>2 DEF Below
    <3>3. CASE Dealt(u)
      BY <1>1, <3>3 DEF Dealt
    <3>4. CASE EventComes(u)
      BY <1>1, <1>6, <3>4 DEF EventComes
    <3>5. CASE ConsumerAsks(u)
      BY <1>1, <3>5 DEF ConsumerAsks
    <3>6. CASE WalkComes(u)
      <4>1. \A page : Leads(page, u) => Leads(page, u)'
        BY <1>1, <3>2 DEF Leads
      <4>2. \A i \in Told("loop")' : i \in Told("loop") /\ socket'[i] = socket[i]
        BY <1>6, <1>7 DEF Told, Callers
      <4>. QED
        BY <1>1, <3>2, <3>6, <4>1, <4>2 DEF WalkComes, Leads
    <3>. QED
      BY <3>1, <3>3, <3>4, <3>5, <3>6 DEF Covered
  <2>. QED
    BY <2>1, <2>2
<1>. QED
  BY <1>4, <1>8, <1>9, <1>10, <1>11

LEMMA UnloadCover == ASSUME SessionInv, CoverInv, NEW t \in Threads, Unload(t) PROVE CoverInv'
<1>. USE DEF CoverInv
<1>1. /\ loaded' = loaded \ {t}
      /\ UNCHANGED <<supports, updated, subscribers, socket, call, client, loop, consumer, subscribed>>
  BY DEF Unload
<1>2. Positions' /\ Existing' /\ OneReply' /\ Tasks' /\ Dealings'
  BY <1>1 DEF Positions, Existing, Exists, OneReply, Told, Tasks, Dealings, Open, Dealt
<1>3. Covered'
  BY <1>1 DEF Covered, Open, Dealt, EventComes, ConsumerAsks, WalkComes, Told, Leads, Below
<1>. QED
  BY <1>2, <1>3

\* The server answers; a resume that it grants subscribes the connection.
LEMMA ServeCover == ASSUME SessionInv, CoverInv, NEW c \in Callers, Serve(c) PROVE CoverInv'
<1>. USE DEF CoverInv
<1>. DEFINE reply == Reply(c, Answer(call[c]))
            last == Len(socket) + 1
<1>1. /\ call[c].stage = "sent" /\ ~client.closed
      /\ call' = [call EXCEPT ![c].stage = "served"] /\ socket' = Append(socket, reply)
      /\ IF Subscribes(call[c])
         THEN subscribers' = subscribers \cup {call[c].thread} /\ loaded' = loaded \cup {call[c].thread}
         ELSE UNCHANGED <<subscribers, loaded>>
      /\ UNCHANGED <<supports, updated, client, loop, consumer, state, subscribed>>
  BY DEF Serve, Sent
<1>2. /\ call'[c] = [stage |-> "served", method |-> call[c].method, thread |-> call[c].thread,
                     cursor |-> call[c].cursor, reply |-> call[c].reply]
      /\ \A d \in Callers : d # c => call'[d] = call[d]
  BY <1>1 DEF SessionInv, Shapes
<1>3. Subscribes(call[c]) => call[c].method = "resume" /\ call[c].thread \in Exists
  BY DEF Subscribes, Existing
<1>4. Positions'
  BY <1>1, <1>3 DEF Positions, Exists
<1>5. Exists' = Exists /\ \A t : Dealt(t) => Dealt(t)'
  BY <1>1 DEF Exists, Dealt
<1>6. /\ reply.kind = "reply" /\ reply.caller = c /\ reply.reply = Answer(call[c])
  BY DEF Reply
<1>7. Answer(call[c]).threads \subseteq Exists
  <2>1. ASSUME NEW cursor PROVE Page(cursor).threads \subseteq Exists
    <3>1. CASE Below(cursor) = {}
      BY <3>1 DEF Page
    <3>2. CASE Below(cursor) # {}
      <4>1. Below(cursor) \subseteq Exists /\ Below(cursor) \subseteq Threads
        BY DEF Below, Exists
      <4>2. First(Below(cursor)) \in Below(cursor)
        BY <3>2, <4>1, FirstIsLatest
      <4>3. Page(cursor).threads = {First(Below(cursor))}
        BY <3>2 DEF Page
      <4>. QED
        BY <4>1, <4>2, <4>3
    <3>. QED
      BY <3>1, <3>2
  <2>2. \A k : Outcome(k).threads = {}
    BY DEF Outcome
  <2>. QED
    BY <2>1, <2>2 DEF Answer
<1>. HIDE DEF reply
<1>8. /\ IsSequence(socket') /\ last \in DOMAIN socket' /\ socket'[last] = reply
      /\ \A i \in DOMAIN socket' : i \in DOMAIN socket \/ i = last
      /\ \A i \in DOMAIN socket : i \in DOMAIN socket' /\ socket'[i] = socket[i] /\ i # last
  <2>1. PICK S : socket \in Seq(S)
    BY DEF OneReply, IsSequence
  <2>2. socket \in Seq(S \cup {reply})
    BY <2>1
  <2>3. socket' \in Seq(S \cup {reply})
    BY <1>1, <2>2
  <2>. QED
    BY <1>1, <2>2, <2>3 DEF IsSequence
<1>. HIDE DEF last
<1>9. Told(c)' = {last} /\ \A d \in Callers : d # c => Told(d)' = Told(d)
  <2>1. Told(c) = {}
    BY <1>1 DEF OneReply
  <2>. QED
    BY <1>6, <1>8, <2>1 DEF Told
<1>10. OneReply'
  <2>1. \A i \in DOMAIN socket' : IF socket'[i].kind = "event" THEN TRUE
                                  ELSE socket'[i].kind = "reply" /\ socket'[i].caller \in Callers
    BY <1>6, <1>8 DEF OneReply
  <2>2. \A d \in Callers : /\ call'[d].stage # "served" => Told(d)' = {}
                           /\ \A i, j \in Told(d)' : i = j
    BY <1>2, <1>9 DEF OneReply
  <2>. QED
    BY <1>1, <1>8, <2>1, <2>2 DEF OneReply
<1>11. Existing'
  <2>1. \A i \in DOMAIN socket' : IF socket'[i].kind = "event" THEN socket'[i].thread \in Exists
                                  ELSE socket'[i].reply.threads \subseteq Exists
    BY <1>6, <1>7, <1>8 DEF Existing
  <2>2. \A d \in Callers : /\ call'[d].stage = "done" => call'[d].reply.threads \subseteq Exists
                           /\ call'[d].method = "resume" => call'[d].thread \in Exists
    BY <1>2 DEF Existing
  <2>. QED
    BY <1>1, <1>5, <2>1, <2>2 DEF Existing
<1>12. Tasks'
  BY <1>1, <1>2 DEF Tasks, Callers
<1>13. supports /\ call[c].method = "resume" => call[c].thread \in subscribers' \cup Refusing
  BY <1>1 DEF Subscribes, Dealt
<1>14. Dealings'
  <2>. SUFFICES ASSUME Open
                PROVE  /\ \A d \in Callers :
                             /\ call'[d].method = "resume" /\ call'[d].stage \in {"served", "done"}
                                    => call'[d].thread \in subscribers' \cup Refusing
                             /\ call'[d].method = "read" /\ call'[d].stage # "idle"
                                    => call'[d].thread \in subscribers' \cup Refusing
                       /\ loop.pc \in {"list", "resume", "ready"} => \A t \in subscribed : Dealt(t)'
    BY <1>1 DEF Dealings, Open, Dealt
  <2>1. ASSUME NEW d \in Callers, d # c
        PROVE  /\ call'[d].method = "resume" /\ call'[d].stage \in {"served", "done"}
                      => call[d].thread \in subscribers' \cup Refusing
               /\ call'[d].method = "read" /\ call'[d].stage # "idle" => call[d].thread \in subscribers' \cup Refusing
    BY <1>1, <1>2, <2>1 DEF Dealings, Dealt
  <2>2. /\ call'[c].method = "resume" => call[c].thread \in subscribers' \cup Refusing
        /\ call'[c].method = "read" => call[c].thread \in subscribers' \cup Refusing
    BY <1>1, <1>2, <1>13 DEF Dealings, Open, Dealt
  <2>3. loop.pc \in {"list", "resume", "ready"} => \A t \in subscribed : Dealt(t)'
    BY <1>5 DEF Dealings
  <2>. QED
    BY <1>2, <2>1, <2>2, <2>3
<1>15. Covered'
  <2>. SUFFICES ASSUME Open, NEW t \in loaded'
                PROVE  Dealt(t)' \/ EventComes(t)' \/ ConsumerAsks(t)' \/ WalkComes(t)'
    BY <1>1 DEF Covered, Open
  <2>1. CASE t \notin loaded
    BY <1>1, <2>1 DEF Dealt
  <2>2. CASE Dealt(t)
    BY <1>5, <2>2
  <2>3. CASE EventComes(t)
    BY <1>1, <1>8, <2>3 DEF EventComes
  <2>4. CASE ConsumerAsks(t)
    <3>1. CASE c = "consumer"
      BY <1>13, <2>4, <3>1 DEF ConsumerAsks, Open, Dealt
    <3>2. CASE c # "consumer"
      BY <1>2, <2>4, <3>2 DEF ConsumerAsks, Callers
    <3>. QED
      BY <3>1, <3>2
  <2>5. CASE t \in loaded /\ WalkComes(t)
    <3>1. CASE loop.pc \in {"probe", "resume"}
      BY <1>1, <2>5, <3>1 DEF WalkComes
    <3>2. CASE loop.pc = "list" /\ c # "loop"
      <4>1. call'["loop"] = call["loop"] /\ Told("loop")' = Told("loop")
        BY <1>2, <1>9, <3>2 DEF Callers
      <4>2. \A i \in Told("loop") : socket'[i] = socket[i]
        BY <1>8 DEF Told
      <4>4. CASE call["loop"].stage = "sent"
        BY <1>1, <2>5, <3>2, <4>1, <4>4 DEF WalkComes, Below
      <4>5. CASE call["loop"].stage = "served"
        <5>1. \A i \in Told("loop") : Leads(socket'[i].reply, t)
          BY <2>5, <3>2, <4>2, <4>5 DEF WalkComes
        <5>. QED
          BY <1>1, <3>2, <4>1, <4>5, <5>1 DEF WalkComes, Leads, Below
      <4>6. CASE call["loop"].stage = "done"
        <5>1. Leads(call["loop"].reply, t)
          BY <2>5, <3>2, <4>6 DEF WalkComes
        <5>. QED
          BY <1>1, <3>2, <4>1, <4>6, <5>1 DEF WalkComes, Leads, Below
      <4>. QED
        BY <2>5, <3>2, <4>4, <4>5, <4>6 DEF WalkComes
    <3>3. CASE loop.pc = "list" /\ c = "loop"
      <4>1. t \in Below(call["loop"].cursor) \/ t \in loop.discovered \ loop.unloaded
        BY <1>1, <2>5, <3>3 DEF WalkComes
      <4>2. Leads(Page(call["loop"].cursor), t)
        BY <2>5, <4>1, PageLeads
      <4>3. Answer(call["loop"]) = Page(call["loop"].cursor)
        BY <3>3 DEF Answer, Tasks
      <4>4. Leads(socket'[last].reply, t)
        BY <1>6, <1>8, <3>3, <4>2, <4>3
      <4>5. \A i \in Told("loop")' : Leads(socket'[i].reply, t)
        BY <1>9, <3>3, <4>4
      <4>6. call'["loop"].stage = "served" /\ loop' = loop /\ updated' = updated
        BY <1>1, <1>2, <3>3
      <4>. QED
        BY <3>3, <4>5, <4>6 DEF WalkComes, Leads, Below
    <3>. QED
      BY <2>5, <3>1, <3>2, <3>3 DEF WalkComes
  <2>. QED
    BY <2>1, <2>2, <2>3, <2>4, <2>5 DEF Covered
<1>. QED
  BY <1>4, <1>10, <1>11, <1>12, <1>14, <1>15

\* The reader: an event goes from the socket to the queue, a reply from the socket to its call.
LEMMA DeliverCover == ASSUME SessionInv, CoverInv, Deliver PROVE CoverInv'
<1>. USE DEF CoverInv
<1>. DEFINE m == socket[1]
<1>1. /\ socket # <<>> /\ socket' = Tail(socket)
      /\ IF m.kind = "event"
         THEN client' = [client EXCEPT !.queue = Append(client.queue, m.thread)] /\ call' = call
         ELSE /\ call' = [call EXCEPT ![m.caller].stage = "done", ![m.caller].reply = m.reply]
              /\ client' = client
      /\ ~client.closed
      /\ UNCHANGED <<supports, updated, loaded, subscribers, loop, consumer, subscribed>>
  BY SMTT(20) DEF Deliver, server
<1>2. PICK S : socket \in Seq(S)
  BY DEF OneReply, IsSequence
<1>3. /\ 1 \in DOMAIN socket /\ IsSequence(socket')
      /\ \A i \in DOMAIN socket' : i \in Nat /\ i + 1 # 1 /\ i + 1 \in DOMAIN socket
                                   /\ socket'[i] = socket[i + 1]
      /\ \A i \in DOMAIN socket : i \in Nat /\ (i # 1 => i - 1 \in DOMAIN socket' /\ (i - 1) + 1 = i)
  <2>1. socket' \in Seq(S)
    BY <1>1, <1>2
  <2>. QED
    BY <1>1, <1>2, <2>1 DEF IsSequence
<1>. HIDE DEF m
<1>4. client' = [closed |-> client.closed, queue |-> client'.queue] /\ client'.closed = client.closed
  <2>1. client = [closed |-> client.closed, queue |-> client.queue]
    BY DEF SessionInv, Shapes
  <2>2. CASE m.kind = "event"
    <3>1. client' = [client EXCEPT !.queue = Append(client.queue, m.thread)]
      BY <1>1, <2>2
    <3>. QED
      BY <2>1, <3>1
  <2>3. CASE m.kind # "event"
    BY <1>1, <2>1, <2>3
  <2>. QED
    BY <2>2, <2>3
<1>5. \A c \in Callers : \A i \in Told(c)' : i \in Nat /\ i + 1 \in Told(c) /\ socket'[i] = socket[i + 1]
  BY <1>3 DEF Told
<1>6. Positions' /\ Exists' = Exists
  BY <1>1 DEF Positions, Exists
<1>7. \A i \in DOMAIN socket' : IF socket'[i].kind = "event" THEN socket'[i].thread \in Exists
                                ELSE socket'[i].reply.threads \subseteq Exists
  BY <1>3 DEF Existing
<1>8. \A i \in DOMAIN socket' : IF socket'[i].kind = "event" THEN TRUE
                                ELSE socket'[i].kind = "reply" /\ socket'[i].caller \in Callers
  BY <1>3 DEF OneReply
<1>9. CASE m.kind = "event"
  <2>1. m.thread \in Exists
    BY <1>3, <1>9 DEF Existing, m
  <2>2. PICK T : client.queue \in Seq(T)
    BY DEF OneReply, IsSequence
  <2>3. client.queue \in Seq(T \cup {m.thread})
    BY <2>2
  <2>4. client'.queue = Append(client.queue, m.thread) /\ call' = call
    <3>1. client = [closed |-> client.closed, queue |-> client.queue]
      BY DEF SessionInv, Shapes
    <3>2. client' = [client EXCEPT !.queue = Append(client.queue, m.thread)] /\ call' = call
      BY <1>1, <1>9
    <3>. QED
      BY <3>1, <3>2
  <2>5. /\ IsSequence(client'.queue)
        /\ \A i \in DOMAIN client'.queue : client'.queue[i] = m.thread \/
               (i \in DOMAIN client.queue /\ client'.queue[i] = client.queue[i])
        /\ \A i \in DOMAIN client.queue : i \in DOMAIN client'.queue /\ client'.queue[i] = client.queue[i]
        /\ \E i \in DOMAIN client'.queue : client'.queue[i] = m.thread
    <3>1. client'.queue \in Seq(T \cup {m.thread}) /\ Len(client.queue) + 1 \in DOMAIN client'.queue
      BY <2>3, <2>4
    <3>. QED
      BY <2>3, <2>4, <3>1 DEF IsSequence
  <2>6. Existing'
    BY <1>1, <1>6, <1>7, <2>1, <2>4, <2>5 DEF Existing
  <2>7. OneReply'
    <3>1. \A c \in Callers : /\ call'[c].stage # "served" => Told(c)' = {}
                             /\ \A i, j \in Told(c)' : i = j
      <4>. SUFFICES ASSUME NEW c \in Callers
                    PROVE  /\ call'[c].stage # "served" => Told(c)' = {}
                           /\ \A i, j \in Told(c)' : i = j
        OBVIOUS
      <4>1. call[c].stage # "served" => Told(c) = {}
        BY DEF OneReply
      <4>2. \A i, j \in Told(c) : i = j
        BY DEF OneReply
      <4>3. \A i, j \in Told(c)' : i + 1 = j + 1
        BY <1>5, <4>2
      <4>4. \A i, j \in Told(c)' : i = j
        BY <1>5, <4>3
      <4>5. call'[c].stage # "served" => Told(c)' = {}
        BY <1>5, <2>4, <4>1
      <4>. QED
        BY <4>4, <4>5
    <3>. QED
      BY <1>3, <1>8, <2>5, <3>1 DEF OneReply
  <2>8. Tasks' /\ Dealings'
    BY <1>1, <1>4, <2>4 DEF Tasks, Dealings, Open, Dealt
  <2>9. Covered'
    <3>. SUFFICES ASSUME Open, NEW t \in loaded
                  PROVE  Dealt(t)' \/ EventComes(t)' \/ ConsumerAsks(t)' \/ WalkComes(t)'
      BY <1>1, <1>4 DEF Covered, Open
    <3>1. CASE Dealt(t) \/ ConsumerAsks(t)
      BY <1>1, <2>4, <3>1 DEF Dealt, ConsumerAsks
    <3>2. CASE EventComes(t)
      <4>1. CASE \E i \in DOMAIN client.queue : client.queue[i] = t
        BY <2>5, <4>1 DEF EventComes
      <4>2. CASE \E i \in DOMAIN socket : socket[i].kind = "event" /\ socket[i].thread = t
        <5>1. PICK i \in DOMAIN socket : socket[i].kind = "event" /\ socket[i].thread = t
          BY <4>2
        <5>2. CASE i = 1
          BY <2>5, <5>1, <5>2 DEF EventComes, m
        <5>3. CASE i # 1
          <6>1. i - 1 \in DOMAIN socket' /\ socket'[i - 1] = socket[i]
            BY <1>3, <5>1, <5>3
          <6>. QED
            BY <5>1, <6>1 DEF EventComes
        <5>. QED
          BY <5>2, <5>3
      <4>. QED
        BY <3>2, <4>1, <4>2 DEF EventComes
    <3>3. CASE WalkComes(t)
      <4>1. (\A i \in Told("loop") : Leads(socket[i].reply, t))
                => \A i \in Told("loop")' : Leads(socket'[i].reply, t)
        BY <1>5 DEF Callers
      <4>. QED
        BY <1>1, <2>4, <3>3, <4>1 DEF WalkComes, Leads, Below
    <3>. QED
      BY <3>1, <3>2, <3>3 DEF Covered
  <2>. QED
    BY <1>6, <2>6, <2>7, <2>8, <2>9
<1>10. CASE m.kind # "event"
  <2>1. m.kind = "reply" /\ m.caller \in Callers /\ 1 \in Told(m.caller) /\ m.reply.threads \subseteq Exists
    BY <1>3, <1>10 DEF OneReply, Existing, Told, m
  <2>2. PICK c \in Callers : c = m.caller
    BY <2>1
  <2>3. /\ call'[c] = [stage |-> "done", method |-> call[c].method, thread |-> call[c].thread,
                       cursor |-> call[c].cursor, reply |-> m.reply]
        /\ \A d \in Callers : d # c => call'[d] = call[d]
    <3>. DEFINE mid == [call EXCEPT ![c].stage = "done"]
    <3>1. call' = [mid EXCEPT ![c].reply = m.reply]
      BY <1>1, <1>10, <2>2
    <3>2. /\ mid = [d \in Callers |-> mid[d]]
          /\ \A d \in Callers : d # c => mid[d] = call[d]
          /\ mid[c] = [stage |-> "done", method |-> call[c].method, thread |-> call[c].thread,
                       cursor |-> call[c].cursor, reply |-> call[c].reply]
      BY DEF SessionInv, Shapes
    <3>. HIDE DEF mid
    <3>. QED
      BY <3>1, <3>2
  <2>4. client' = client /\ call[c].stage = "served"
    BY <1>1, <1>10, <2>1, <2>2 DEF OneReply
  <2>5. Told(c)' = {}
    <3>1. \A i \in Told(c) : i = 1
      BY <2>1, <2>2 DEF OneReply
    <3>2. \A i \in Told(c)' : i + 1 = 1 /\ i \in Nat
      BY <1>5, <3>1
    <3>3. \A i \in Told(c)' : i + 1 # 1
      BY <1>3 DEF Told
    <3>. QED
      BY <3>2, <3>3
  <2>6. Existing'
    <3>1. \A d \in Callers : /\ call'[d].stage = "done" => call'[d].reply.threads \subseteq Exists
                             /\ call'[d].method = "resume" => call'[d].thread \in Exists
      BY <2>1, <2>3 DEF Existing
    <3>. QED
      BY <1>1, <1>6, <1>7, <2>4, <3>1 DEF Existing
  <2>7. OneReply'
    <3>1. ASSUME NEW d \in Callers
          PROVE  /\ call'[d].stage # "served" => Told(d)' = {}
                 /\ \A i, j \in Told(d)' : i = j
      <4>1. CASE d = c
        BY <2>5, <4>1
      <4>2. CASE d # c
        <5>1. call[d].stage # "served" => Told(d) = {}
          BY DEF OneReply
        <5>2. \A i, j \in Told(d) : i = j
          BY DEF OneReply
        <5>3. \A i, j \in Told(d)' : i + 1 = j + 1
          BY <1>5, <5>2
        <5>4. \A i, j \in Told(d)' : i = j
          BY <1>5, <5>3
        <5>5. call'[d].stage # "served" => Told(d)' = {}
          BY <1>5, <2>3, <4>2, <5>1
        <5>. QED
          BY <5>4, <5>5
      <4>. QED
        BY <4>1, <4>2
    <3>. QED
      BY <1>3, <1>8, <2>4, <3>1 DEF OneReply
  <2>8. Tasks'
    BY <1>1, <2>3, <2>4 DEF Tasks, Callers
  <2>9. Dealings'
    <3>1. ASSUME Open, NEW d \in Callers
          PROVE  /\ call'[d].method = "resume" /\ call'[d].stage \in {"served", "done"}
                        => call'[d].thread \in subscribers \cup Refusing
                 /\ call'[d].method = "read" /\ call'[d].stage # "idle"
                        => call'[d].thread \in subscribers \cup Refusing
      <4>1. CASE d = c
        BY <2>3, <2>4, <3>1, <4>1 DEF Dealings, Dealt
      <4>2. CASE d # c
        BY <2>3, <3>1, <4>2 DEF Dealings, Dealt
      <4>. QED
        BY <4>1, <4>2
    <3>. QED
      BY <1>1, <2>4, <3>1 DEF Dealings, Open, Dealt
  <2>10. Covered'
    <3>. SUFFICES ASSUME Open, NEW t \in loaded
                  PROVE  Dealt(t)' \/ EventComes(t)' \/ ConsumerAsks(t)' \/ WalkComes(t)'
      BY <1>1, <2>4 DEF Covered, Open
    <3>1. CASE Dealt(t)
      BY <1>1, <3>1 DEF Dealt
    <3>2. CASE EventComes(t)
      <4>1. CASE \E i \in DOMAIN client.queue : client.queue[i] = t
        BY <2>4, <4>1 DEF EventComes
      <4>2. CASE \E i \in DOMAIN socket : socket[i].kind = "event" /\ socket[i].thread = t
        <5>1. PICK i \in DOMAIN socket : socket[i].kind = "event" /\ socket[i].thread = t
          BY <4>2
        <5>2. i # 1
          BY <1>10, <5>1 DEF m
        <5>3. i - 1 \in DOMAIN socket' /\ socket'[i - 1] = socket[i]
          BY <1>3, <5>1, <5>2
        <5>. QED
          BY <5>1, <5>3 DEF EventComes
      <4>. QED
        BY <3>2, <4>1, <4>2 DEF EventComes
    <3>3. CASE ConsumerAsks(t)
      <4>1. c # "consumer"
        BY <2>4, <3>3 DEF ConsumerAsks
      <4>. QED
        BY <2>3, <3>3, <4>1 DEF ConsumerAsks, Callers
    <3>4. CASE WalkComes(t)
      <4>1. CASE loop.pc \in {"probe", "resume"}
        BY <1>1, <3>4, <4>1 DEF WalkComes
      <4>2. CASE loop.pc = "list" /\ c # "loop"
        <5>1. call'["loop"] = call["loop"]
          BY <2>3, <4>2 DEF Callers
        <5>2. (\A i \in Told("loop") : Leads(socket[i].reply, t))
                  => \A i \in Told("loop")' : Leads(socket'[i].reply, t)
          BY <1>5 DEF Callers
        <5>. QED
          BY <1>1, <3>4, <4>2, <5>1, <5>2 DEF WalkComes, Leads, Below
      <4>3. CASE loop.pc = "list" /\ c = "loop"
        <5>1. Leads(m.reply, t)
          BY <2>1, <2>2, <2>4, <3>4, <4>3 DEF WalkComes, m
        <5>2. call'["loop"].stage = "done" /\ call'["loop"].reply = m.reply
          BY <2>3, <4>3
        <5>. QED
          BY <1>1, <4>3, <5>1, <5>2 DEF WalkComes, Leads, Below
      <4>. QED
        BY <3>4, <4>1, <4>2, <4>3 DEF WalkComes
    <3>. QED
      BY <3>1, <3>2, <3>3, <3>4 DEF Covered
  <2>. QED
    BY <1>6, <2>6, <2>7, <2>8, <2>9, <2>10
<1>. QED
  BY <1>9, <1>10

\* A task's call that no reply is owed to may change while the socket is left alone.
LEMMA RepliesKept ==
    ASSUME OneReply, UNCHANGED socket, IsSequence(client'.queue), NEW c \in Callers,
           call[c].stage # "served", \A d \in Callers : d # c => call'[d] = call[d],
           call'[c].stage # "served"
    PROVE  OneReply' /\ Told(c) = {}
<1>1. Told(c) = {} /\ \A d \in Callers : Told(d)' = Told(d)
  BY DEF OneReply, Told
<1>2. \A d \in Callers : /\ call'[d].stage # "served" => Told(d)' = {}
                         /\ \A i, j \in Told(d)' : i = j
  BY <1>1 DEF OneReply
<1>. QED
  BY <1>1, <1>2 DEF OneReply

\* With the socket emptied nobody is owed a reply.
LEMMA NothingTold ==
    ASSUME socket' = <<>>, IsSequence(client'.queue) PROVE OneReply' /\ DOMAIN socket' = {}
<1>1. socket' \in Seq({}) /\ DOMAIN socket' = {}
  OBVIOUS
<1>2. \A c \in Callers : Told(c)' = {}
  BY <1>1 DEF Told
<1>. QED
  BY <1>1, <1>2 DEF OneReply, IsSequence

\* The connection ends, for the reader or for the consumer.
LEMMA FailedCover == ASSUME SessionInv, CoverInv, ConnectionFailed \/ ConsumerFails PROVE CoverInv'
<1>. USE DEF CoverInv
<1>1. /\ client'.closed /\ call' = Failed /\ socket' = <<>>
      /\ client'.queue = Append(client.queue, None) \/ client'.queue = <<>>
      /\ UNCHANGED <<supports, updated, loaded, loop>>
      /\ consumer' = consumer \/ (consumer.pc = "get" /\ consumer' = [pc |-> "ended", thread |-> None])
  BY DEF ConnectionFailed, ConsumerFails, server
<1>2. \A c \in Callers : /\ call'[c].method = call[c].method /\ call'[c].thread = call[c].thread
                         /\ call[c].stage = "idle" => call'[c].stage = "idle"
                         /\ \/ call'[c].reply = call[c].reply /\ call'[c].stage = call[c].stage
                            \/ call'[c].reply = Lost
  <2>. TAKE c \in Callers
  <2>1. call[c] = [stage |-> call[c].stage, method |-> call[c].method, thread |-> call[c].thread,
                   cursor |-> call[c].cursor, reply |-> call[c].reply]
    BY DEF SessionInv, Shapes
  <2>2. CASE call[c].stage \in {"sent", "served"}
    <3>1. call'[c] = [call[c] EXCEPT !.stage = "done", !.reply = Lost]
      BY <1>1, <2>2 DEF Failed
    <3>. QED
      BY <2>1, <2>2, <3>1
  <2>3. CASE call[c].stage \notin {"sent", "served"}
    <3>1. call'[c] = call[c]
      BY <1>1, <2>3 DEF Failed
    <3>. QED
      BY <3>1
  <2>. QED
    BY <2>2, <2>3
<1>3. /\ IsSequence(client'.queue)
      /\ \A i \in DOMAIN client'.queue : client'.queue[i] = None \/
             (i \in DOMAIN client.queue /\ client'.queue[i] = client.queue[i])
  <2>1. PICK S : client.queue \in Seq(S)
    BY DEF OneReply, IsSequence
  <2>2. client.queue \in Seq(S \cup {None})
    BY <2>1
  <2>3. client'.queue \in Seq(S \cup {None})
    <3>1. Append(client.queue, None) \in Seq(S \cup {None}) /\ <<>> \in Seq(S \cup {None})
      BY <2>2
    <3>. QED
      BY <1>1, <3>1
  <2>. QED
    BY <1>1, <2>2, <2>3 DEF IsSequence
<1>4. Positions' /\ Exists' = Exists
  BY <1>1 DEF Positions, Exists
<1>5. OneReply' /\ DOMAIN socket' = {}
  BY <1>1, <1>3, NothingTold
<1>6. Existing'
  <2>1. \A c \in Callers : /\ call'[c].stage = "done" => call'[c].reply.threads \subseteq Exists
                           /\ call'[c].method = "resume" => call'[c].thread \in Exists
    BY <1>2, LostHasNothing DEF Existing
  <2>2. \A i \in DOMAIN client'.queue : client'.queue[i] \in Exists \cup {None}
    BY <1>3 DEF Existing
  <2>. QED
    BY <1>1, <1>4, <1>5, <2>1, <2>2 DEF Existing
<1>7. Tasks'
  BY <1>1, <1>2 DEF Tasks, Callers
<1>. QED
  BY <1>1, <1>4, <1>5, <1>6, <1>7, ClosedKeeps

LEMMA BackOffCover == ASSUME SessionInv, CoverInv, BackOff PROVE CoverInv'
<1>. USE DEF CoverInv
<1>1. /\ client' = [closed |-> TRUE, queue |-> <<>>] /\ call' = [c \in Callers |-> Idle] /\ socket' = <<>>
      /\ loop' = NoWalk /\ consumer' = [pc |-> "none", thread |-> None]
      /\ UNCHANGED <<supports, updated, loaded>>
  BY DEF BackOff, server
<1>2. client'.queue \in Seq({}) /\ DOMAIN client'.queue = {}
  BY <1>1
<1>3. OneReply' /\ DOMAIN socket' = {}
  BY <1>1, <1>2, NothingTold DEF IsSequence
<1>4. \A c \in Callers : call'[c].stage = "idle" /\ call'[c].method = None
  BY <1>1 DEF Idle
<1>5. Positions' /\ Exists' = Exists
  BY <1>1 DEF Positions, Exists
<1>6. Existing'
  BY <1>1, <1>2, <1>3, <1>4, <1>5 DEF Existing, NoWalk, None
<1>7. Tasks'
  BY <1>1, <1>4 DEF Tasks, NoWalk, Callers
<1>. QED
  BY <1>1, <1>3, <1>5, <1>6, <1>7, ClosedKeeps

\* A new connection: everything is still to be walked.
LEMMA ConnectCover == ASSUME SessionInv, CoverInv, Connect PROVE CoverInv'
<1>. USE DEF CoverInv
<1>1. /\ loop.pc = "backoff" /\ client' = [closed |-> FALSE, queue |-> <<>>]
      /\ loop' = [NoWalk EXCEPT !.pc = "probe"]
      /\ call' = [call EXCEPT !["loop"] = [stage |-> "sent", method |-> "list", thread |-> None,
                                           cursor |-> 0, reply |-> Lost]]
      /\ UNCHANGED <<supports, updated, loaded, subscribers, socket, consumer, subscribed>>
  BY DEF Connect, server
<1>2. consumer.pc = "none" /\ \A c \in Callers : call[c].stage = "idle"
  BY <1>1 DEF SessionInv, BackOffIsIdle
<1>3. /\ call'["loop"] = [stage |-> "sent", method |-> "list", thread |-> None, cursor |-> 0,
                          reply |-> Lost]
      /\ \A d \in Callers : d # "loop" => call'[d] = call[d]
      /\ loop'.pc = "probe" /\ loop'.discovered = {} /\ loop'.todo = {}
      /\ client'.queue \in Seq({}) /\ DOMAIN client'.queue = {}
  <2>1. client'.queue = <<>>
    BY <1>1
  <2>2. /\ call'["loop"] = [stage |-> "sent", method |-> "list", thread |-> None, cursor |-> 0,
                            reply |-> Lost]
        /\ \A d \in Callers : d # "loop" => call'[d] = call[d]
    BY <1>1 DEF SessionInv, Shapes, Callers
  <2>3. loop'.pc = "probe" /\ loop'.discovered = {} /\ loop'.todo = {}
    BY <1>1 DEF NoWalk
  <2>. QED
    BY <2>1, <2>2, <2>3
<1>4. Positions' /\ Exists' = Exists
  BY <1>1 DEF Positions, Exists
<1>5. OneReply'
  BY <1>1, <1>2, <1>3, RepliesKept DEF Callers, IsSequence
<1>6. Existing'
  <2>1. \A c \in Callers : /\ call'[c].stage = "done" => call'[c].reply.threads \subseteq Exists
                           /\ call'[c].method = "resume" => call'[c].thread \in Exists
    BY <1>3 DEF Existing
  <2>. QED
    BY <1>1, <1>3, <1>4, <2>1 DEF Existing
<1>7. Tasks'
  BY <1>1, <1>2, <1>3 DEF Tasks, Callers
<1>8. Dealings'
  BY <1>1, <1>2, <1>3 DEF Dealings, Callers
<1>9. Covered'
  BY <1>3 DEF Covered, WalkComes
<1>. QED
  BY <1>4, <1>5, <1>6, <1>7, <1>8, <1>9

\* The connection is up: the walk starts over its first page.
LEMMA ConnectedCover == ASSUME SessionInv, CoverInv, Connected PROVE CoverInv'
<1>. USE DEF CoverInv
<1>1. /\ loop.pc = "probe" /\ call["loop"].stage = "done"
      /\ subscribed' = {} /\ consumer' = [pc |-> "get", thread |-> None]
      /\ loop' = [loop EXCEPT !.pc = "list"]
      /\ Request("loop", "list", None, 0)
      /\ UNCHANGED <<supports, updated, loaded, subscribers, socket, client>>
  BY DEF Connected, server, Answered
<1>2. /\ call'["loop"] = [stage |-> IF client.closed THEN "done" ELSE "sent", method |-> "list",
                          thread |-> None, cursor |-> 0, reply |-> Lost]
      /\ \A d \in Callers : d # "loop" => call'[d] = call[d]
  BY <1>1, RequestMade DEF SessionInv, Callers
<1>3. loop'.pc = "list" /\ loop'.discovered = loop.discovered /\ loop'.todo = loop.todo
  BY <1>1 DEF SessionInv, Shapes
<1>4. Positions' /\ Exists' = Exists
  BY <1>1 DEF Positions, Exists
<1>5. OneReply'
  <2>1. IsSequence(client'.queue)
    BY <1>1 DEF OneReply
  <2>. QED
    BY <1>1, <1>2, <2>1, RepliesKept DEF Callers
<1>6. Existing'
  <2>1. \A c \in Callers : /\ call'[c].stage = "done" => call'[c].reply.threads \subseteq Exists
                           /\ call'[c].method = "resume" => call'[c].thread \in Exists
    BY <1>2, LostHasNothing DEF Existing
  <2>. QED
    BY <1>1, <1>3, <1>4, <2>1 DEF Existing
<1>7. Tasks'
  BY <1>1, <1>2, <1>3 DEF Tasks, Callers
<1>8. Dealings'
  <2>1. \A c \in Callers : /\ call'[c].method = "resume" /\ call'[c].stage \in {"served", "done"}
                                  => c # "loop"
                           /\ call'[c].method = "read" /\ call'[c].stage # "idle" => c # "loop"
    BY <1>2
  <2>. QED
    BY <1>1, <1>2, <2>1 DEF Dealings, Open, Dealt
<1>9. Covered'
  <2>1. Open' => call'["loop"].stage = "sent" /\ call'["loop"].cursor = 0
    BY <1>1, <1>2 DEF Open
  <2>2. \A t \in loaded : t \in Below(0)'
    BY <1>1 DEF Below, Positions
  <2>3. Open' => \A t \in loaded' : WalkComes(t)'
    BY <1>1, <1>3, <2>1, <2>2 DEF WalkComes, Below
  <2>. QED
    BY <2>3 DEF Covered
<1>. QED
  BY <1>4, <1>5, <1>6, <1>7, <1>8, <1>9


\* The walk takes a page: what the page leads to is still to be walked.
LEMMA ListedCover == ASSUME SessionInv, CoverInv, Listed PROVE CoverInv'
<1>. USE DEF CoverInv
<1>. DEFINE page == call["loop"].reply
            found == loop.discovered \cup page.threads
            asleep == IF page.loaded THEN loop.unloaded \ page.threads
                      ELSE loop.unloaded \cup page.threads
<1>1. /\ loop.pc = "list" /\ call["loop"].stage = "done"
      /\ UNCHANGED <<supports, updated, loaded, subscribers, socket, client, consumer, subscribed>>
      /\ IF page.next # 0
         THEN /\ loop' = [loop EXCEPT !.discovered = found, !.unloaded = asleep]
              /\ Request("loop", "list", None, page.next)
         ELSE /\ loop' = [loop EXCEPT !.pc = "resume", !.discovered = found,
                                      !.unloaded = asleep, !.known = entry,
                                      !.todo = found \ asleep]
              /\ Forget("loop")
  BY DEF Listed, server, Answered
<1>2. page.threads \subseteq Exists
  BY <1>1 DEF Existing, Callers
<1>3. \A t : Leads(page, t) => t \in found \ asleep \/ (page.next # 0 /\ t \in Below(page.next))
  BY DEF Leads
<1>. HIDE DEF page
<1>4. /\ loop' = [pc |-> loop'.pc, discovered |-> found, unloaded |-> asleep,
                  known |-> loop'.known, todo |-> loop'.todo]
      /\ page.next # 0 => loop'.pc = "list" /\ loop'.todo = loop.todo
      /\ page.next = 0 => loop'.pc = "resume" /\ loop'.todo = found \ asleep
  <2>1. loop = [pc |-> loop.pc, discovered |-> loop.discovered, unloaded |-> loop.unloaded,
                known |-> loop.known, todo |-> loop.todo]
    BY DEF SessionInv, Shapes
  <2>. HIDE DEF found, asleep
  <2>2. CASE page.next # 0
    <3>1. loop' = [loop EXCEPT !.discovered = found, !.unloaded = asleep]
      BY <1>1, <2>2
    <3>2. loop.pc = "list"
      BY <1>1
    <3>. QED
      BY <2>1, <2>2, <3>1, <3>2
  <2>3. CASE page.next = 0
    <3>1. loop' = [loop EXCEPT !.pc = "resume", !.discovered = found, !.unloaded = asleep,
                               !.known = entry, !.todo = found \ asleep]
      BY <1>1, <2>3
    <3>. QED
      BY <2>1, <2>3, <3>1
  <2>. QED
    BY <2>2, <2>3
<1>5. /\ loop'.pc \in {"list", "resume"} /\ loop'.discovered = found /\ loop'.unloaded = asleep
      /\ found \subseteq Exists /\ loop'.todo \subseteq Exists
  <2>1. found \subseteq Exists
    BY <1>2 DEF Existing
  <2>2. loop'.todo \subseteq Exists
    BY <1>4, <2>1 DEF Existing
  <2>. QED
    BY <1>4, <2>1, <2>2
<1>6. /\ \A d \in Callers : d # "loop" => call'[d] = call[d]
      /\ page.next # 0 => call'["loop"] = [stage |-> IF client.closed THEN "done" ELSE "sent",
                                           method |-> "list", thread |-> None, cursor |-> page.next,
                                           reply |-> Lost]
      /\ page.next = 0 => call'["loop"] = Idle
  BY <1>1, RequestMade, Forgotten DEF SessionInv, Callers
<1>7. /\ call'["loop"].stage \in {"idle", "sent", "done"} /\ call'["loop"].method \in {"list", None}
      /\ call'["loop"].stage = "done" => call'["loop"].reply.threads = {}
      /\ page.next # 0 => call'["loop"].method = "list" /\ call'["loop"].cursor = page.next
      /\ page.next # 0 /\ ~client.closed => call'["loop"].stage = "sent"
  BY <1>6, LostHasNothing
<1>. HIDE DEF found, asleep
<1>8. Positions' /\ Exists' = Exists
  BY <1>1 DEF Positions, Exists
<1>9. OneReply'
  <2>1. IsSequence(client'.queue)
    BY <1>1 DEF OneReply
  <2>. QED
    BY <1>1, <1>6, <1>7, <2>1, RepliesKept DEF Callers
<1>10. Existing'
  <2>1. \A c \in Callers : /\ call'[c].stage = "done" => call'[c].reply.threads \subseteq Exists
                           /\ call'[c].method = "resume" => call'[c].thread \in Exists
    BY <1>6, <1>7 DEF Existing, None
  <2>. QED
    BY <1>1, <1>5, <1>8, <2>1 DEF Existing
<1>11. Tasks'
  BY <1>1, <1>4, <1>5, <1>6, <1>7 DEF Tasks, Callers
<1>12. Dealings'
  <2>1. \A c \in Callers : call'[c].method \in {"resume", "read"} => call'[c] = call[c]
    BY <1>6, <1>7 DEF None
  <2>. QED
    BY <1>1, <1>5, <2>1 DEF Dealings, Open, Dealt
<1>13. Covered'
  <2>. SUFFICES ASSUME Open, NEW t \in loaded
                PROVE  Dealt(t)' \/ EventComes(t)' \/ ConsumerAsks(t)' \/ WalkComes(t)'
    BY <1>1 DEF Covered, Open
  <2>1. CASE Dealt(t) \/ EventComes(t)
    BY <1>1, <2>1 DEF Dealt, EventComes
  <2>2. CASE ConsumerAsks(t)
    BY <1>6, <2>2 DEF ConsumerAsks, Callers
  <2>3. CASE WalkComes(t)
    <3>1. Leads(page, t)
      BY <1>1, <2>3 DEF WalkComes, page
    <3>2. t \in found \ asleep \/ (page.next # 0 /\ t \in Below(page.next))
      BY <1>3, <3>1
    <3>3. \A n : Below(n)' = Below(n)
      BY <1>1 DEF Below
    <3>4. CASE page.next # 0
      <4>1. t \in Below(call'["loop"].cursor) \/ t \in loop'.discovered \ loop'.unloaded
        BY <1>5, <1>7, <3>2, <3>4
      <4>2. loop'.pc = "list" /\ call'["loop"].stage = "sent"
        BY <1>4, <1>7, <3>4 DEF Open
      <4>. QED
        BY <1>1, <4>1, <4>2 DEF WalkComes, Below
    <3>5. CASE page.next = 0
      BY <1>4, <3>2, <3>5 DEF WalkComes
    <3>. QED
      BY <3>4, <3>5
  <2>. QED
    BY <2>1, <2>2, <2>3 DEF Covered
<1>. QED
  BY <1>8, <1>9, <1>10, <1>11, <1>12, <1>13

\* A thread is asked for: it is still to be resumed.
LEMMA ResumeCover == ASSUME SessionInv, CoverInv, NEW t \in Threads, Resume(t) PROVE CoverInv'
<1>. USE DEF CoverInv
<1>1. /\ loop.pc = "resume" /\ call["loop"].stage = "idle" /\ t \in loop.todo
      /\ Request("loop", "resume", t, 0)
      /\ UNCHANGED <<supports, updated, loaded, subscribers, socket, client, loop, consumer, subscribed>>
  BY DEF Resume, server
<1>2. /\ call'["loop"] = [stage |-> IF client.closed THEN "done" ELSE "sent", method |-> "resume",
                          thread |-> t, cursor |-> 0, reply |-> Lost]
      /\ \A d \in Callers : d # "loop" => call'[d] = call[d]
  BY <1>1, RequestMade DEF SessionInv, Callers
<1>3. Positions' /\ Exists' = Exists
  BY <1>1 DEF Positions, Exists
<1>4. OneReply'
  <2>1. IsSequence(client'.queue)
    BY <1>1 DEF OneReply
  <2>. QED
    BY <1>1, <1>2, <2>1, RepliesKept DEF Callers
<1>5. Existing'
  <2>1. \A c \in Callers : /\ call'[c].stage = "done" => call'[c].reply.threads \subseteq Exists
                           /\ call'[c].method = "resume" => call'[c].thread \in Exists
    BY <1>1, <1>2, LostHasNothing DEF Existing
  <2>. QED
    BY <1>1, <1>3, <2>1 DEF Existing
<1>6. Tasks'
  BY <1>1, <1>2 DEF Tasks, Callers
<1>7. Dealings'
  <2>1. Open => call'["loop"].stage = "sent" /\ call'["loop"].method = "resume"
    BY <1>2 DEF Open
  <2>. QED
    BY <1>1, <1>2, <2>1 DEF Dealings, Open, Dealt
<1>8. Covered'
  BY <1>1, <1>2 DEF Covered, Open, Dealt, EventComes, ConsumerAsks, WalkComes, Callers
<1>. QED
  BY <1>3, <1>4, <1>5, <1>6, <1>7, <1>8

\* A thread that is done leaves the walk: it was dealt with.
LEMMA DoneCover == ASSUME SessionInv, CoverInv, Resumed \/ ReadInstead PROVE CoverInv'
<1>. USE DEF CoverInv
<1>. DEFINE thread == call["loop"].thread
<1>1. /\ loop.pc = "resume" /\ call["loop"].stage = "done" /\ call["loop"].method \in {"resume", "read"}
      /\ loop' = [loop EXCEPT !.todo = loop.todo \ {thread}]
      /\ Forget("loop")
      /\ subscribed' = subscribed \/ subscribed' = subscribed \cup {thread}
      /\ UNCHANGED <<supports, updated, loaded, subscribers, socket, client, consumer>>
  BY DEF Resumed, ReadInstead, Reconciled, server, Answered
<1>2. call'["loop"] = Idle /\ \A d \in Callers : d # "loop" => call'[d] = call[d]
  BY <1>1, Forgotten DEF SessionInv, Callers
<1>3. Open => Dealt(thread)
  BY <1>1 DEF Dealings, Callers
<1>. HIDE DEF thread
<1>4. loop'.pc = loop.pc /\ loop'.discovered = loop.discovered /\ loop'.todo = loop.todo \ {thread}
  BY <1>1 DEF SessionInv, Shapes
<1>5. Positions' /\ Exists' = Exists
  BY <1>1 DEF Positions, Exists
<1>6. OneReply'
  <2>1. IsSequence(client'.queue)
    BY <1>1 DEF OneReply
  <2>. QED
    BY <1>1, <1>2, <2>1, RepliesKept, LostHasNothing DEF Callers
<1>7. Existing'
  <2>1. \A c \in Callers : /\ call'[c].stage = "done" => call'[c].reply.threads \subseteq Exists
                           /\ call'[c].method = "resume" => call'[c].thread \in Exists
    BY <1>2, LostHasNothing DEF Existing, None
  <2>. QED
    BY <1>1, <1>4, <1>5, <2>1 DEF Existing
<1>8. Tasks'
  BY <1>1, <1>2, <1>4 DEF Tasks, Callers
<1>9. Dealings'
  <2>1. \A c \in Callers : call'[c].method \in {"resume", "read"} => call'[c] = call[c]
    BY <1>2, LostHasNothing DEF None
  <2>2. Open => \A t \in subscribed' : t \in subscribers \cup Refusing
    BY <1>1, <1>3 DEF Dealings, Dealt
  <2>. QED
    BY <1>1, <2>1, <2>2 DEF Dealings, Open, Dealt
<1>10. Covered'
  <2>. SUFFICES ASSUME Open, NEW t \in loaded
                PROVE  Dealt(t)' \/ EventComes(t)' \/ ConsumerAsks(t)' \/ WalkComes(t)'
    BY <1>1 DEF Covered, Open
  <2>1. CASE Dealt(t) \/ EventComes(t) \/ ConsumerAsks(t)
    BY <1>1, <1>2, <2>1 DEF Dealt, EventComes, ConsumerAsks, Callers
  <2>2. CASE WalkComes(t)
    <3>1. t \in loop.todo
      BY <1>1, <2>2 DEF WalkComes
    <3>. QED
      BY <1>1, <1>3, <1>4, <3>1 DEF WalkComes, Dealt
  <2>. QED
    BY <2>1, <2>2 DEF Covered
<1>. QED
  BY <1>5, <1>6, <1>7, <1>8, <1>9, <1>10


\* A thread that refuses is read instead.
LEMMA DegradedCover == ASSUME SessionInv, CoverInv, Degraded PROVE CoverInv'
<1>. USE DEF CoverInv
<1>. DEFINE thread == call["loop"].thread
<1>1. /\ loop.pc = "resume" /\ call["loop"].stage = "done" /\ call["loop"].method = "resume"
      /\ Request("loop", "read", thread, 0)
      /\ UNCHANGED <<supports, updated, loaded, subscribers, socket, client, loop, consumer, subscribed>>
  BY DEF Degraded, server, Answered
<1>2. /\ call'["loop"] = [stage |-> IF client.closed THEN "done" ELSE "sent", method |-> "read",
                          thread |-> thread, cursor |-> 0, reply |-> Lost]
      /\ \A d \in Callers : d # "loop" => call'[d] = call[d]
  BY <1>1, RequestMade DEF SessionInv, Callers
<1>3. Open => Dealt(thread)
  BY <1>1 DEF Dealings, Callers
<1>. HIDE DEF thread
<1>4. Positions' /\ Exists' = Exists
  BY <1>1 DEF Positions, Exists
<1>5. OneReply'
  <2>1. IsSequence(client'.queue)
    BY <1>1 DEF OneReply
  <2>. QED
    BY <1>1, <1>2, <2>1, RepliesKept DEF Callers
<1>6. Existing'
  <2>1. \A c \in Callers : /\ call'[c].stage = "done" => call'[c].reply.threads \subseteq Exists
                           /\ call'[c].method = "resume" => call'[c].thread \in Exists
    BY <1>2, LostHasNothing DEF Existing
  <2>. QED
    BY <1>1, <1>4, <2>1 DEF Existing
<1>7. Tasks'
  BY <1>1, <1>2 DEF Tasks, Callers
<1>8. Dealings'
  <2>1. ASSUME Open, NEW d \in Callers
        PROVE  /\ call'[d].method = "resume" /\ call'[d].stage \in {"served", "done"}
                      => call'[d].thread \in subscribers \cup Refusing
               /\ call'[d].method = "read" /\ call'[d].stage # "idle"
                      => call'[d].thread \in subscribers \cup Refusing
    <3>1. CASE d = "loop"
      BY <1>2, <1>3, <2>1, <3>1 DEF Dealt
    <3>2. CASE d # "loop"
      BY <1>2, <2>1, <3>2 DEF Dealings, Dealt
    <3>. QED
      BY <3>1, <3>2
  <2>. QED
    BY <1>1, <2>1 DEF Dealings, Open, Dealt
<1>9. Covered'
  BY <1>1, <1>2 DEF Covered, Open, Dealt, EventComes, ConsumerAsks, WalkComes, Callers
<1>. QED
  BY <1>4, <1>5, <1>6, <1>7, <1>8, <1>9

\* The walk is over: nobody waits for it.
LEMMA ReadyCover == ASSUME SessionInv, CoverInv, Ready PROVE CoverInv'
<1>. USE DEF CoverInv
<1>1. /\ loop.pc = "resume" /\ loop.todo = {} /\ loop' = [NoWalk EXCEPT !.pc = "ready"]
      /\ UNCHANGED <<supports, updated, loaded, subscribers, socket, call, client, consumer, subscribed>>
  BY DEF Ready, server
<1>2. loop'.pc = "ready" /\ loop'.discovered = {} /\ loop'.todo = {}
  BY <1>1 DEF NoWalk
<1>3. Positions' /\ OneReply' /\ Tasks' /\ Dealings'
  BY <1>1, <1>2 DEF Positions, OneReply, Told, Tasks, Dealings, Open, Dealt
<1>4. Existing'
  BY <1>1, <1>2 DEF Existing, Exists
<1>5. Covered'
  BY <1>1 DEF Covered, Open, Dealt, EventComes, ConsumerAsks, WalkComes
<1>. QED
  BY <1>3, <1>4, <1>5

\* The consumer takes an event: its thread is subscribed to, or asked for.
LEMMA ConsumeCover == ASSUME SessionInv, CoverInv, Consume PROVE CoverInv'
<1>. USE DEF CoverInv
<1>. DEFINE t == client.queue[1]
<1>1. /\ consumer.pc = "get" /\ client.queue # <<>> /\ t # None
      /\ client' = [client EXCEPT !.queue = Tail(client.queue)]
      /\ UNCHANGED <<supports, updated, loaded, subscribers, socket, loop, subscribed>>
      /\ IF t \in subscribed
         THEN UNCHANGED <<call, consumer>>
         ELSE /\ consumer' = [pc |-> "resume", thread |-> t]
              /\ Request("consumer", "resume", t, 0)
  BY DEF Consume, server, Subscribed
<1>2. call["consumer"].stage = "idle" /\ loop.pc \in {"list", "resume", "ready"}
  BY <1>1 DEF Tasks
<1>3. client'.closed = client.closed /\ client'.queue = Tail(client.queue)
  <2>1. client = [closed |-> client.closed, queue |-> client.queue]
    BY DEF SessionInv, Shapes
  <2>. QED
    BY <1>1, <2>1
<1>4. PICK S : client.queue \in Seq(S)
  BY DEF OneReply, IsSequence
<1>5. /\ IsSequence(client'.queue) /\ t \in Exists
      /\ \A i \in DOMAIN client'.queue : i + 1 \in DOMAIN client.queue
                                         /\ client'.queue[i] = client.queue[i + 1]
      /\ \A i \in DOMAIN client.queue : i # 1 => i - 1 \in DOMAIN client'.queue
                                                 /\ client'.queue[i - 1] = client.queue[i]
  <2>1. client'.queue \in Seq(S) /\ 1 \in DOMAIN client.queue
    BY <1>1, <1>3, <1>4
  <2>2. t \in Exists
    BY <1>1, <2>1 DEF Existing
  <2>. HIDE DEF t
  <2>. QED
    BY <1>1, <1>3, <1>4, <2>1, <2>2 DEF IsSequence
<1>6. /\ \A d \in Callers : d # "consumer" => call'[d] = call[d]
      /\ IF t \in subscribed
         THEN call'["consumer"] = call["consumer"] /\ consumer' = consumer
         ELSE /\ consumer' = [pc |-> "resume", thread |-> t]
              /\ call'["consumer"] = [stage |-> IF client.closed THEN "done" ELSE "sent",
                                      method |-> "resume", thread |-> t, cursor |-> 0, reply |-> Lost]
  <2>. HIDE DEF t
  <2>1. CASE t \in subscribed
    BY <1>1, <2>1
  <2>2. CASE t \notin subscribed
    <3>1. Request("consumer", "resume", t, 0) /\ consumer' = [pc |-> "resume", thread |-> t]
      BY <1>1, <2>2
    <3>. QED
      BY <2>2, <3>1, RequestMade DEF SessionInv, Callers
  <2>. QED
    BY <2>1, <2>2
<1>7. Open /\ t \in subscribed => Dealt(t)
  BY <1>2 DEF Dealings
<1>8. \A u : (\E i \in DOMAIN client.queue : client.queue[i] = u)
                => u = t \/ \E i \in DOMAIN client'.queue : client'.queue[i] = u
  BY <1>5
<1>. HIDE DEF t
<1>9. Positions' /\ Exists' = Exists
  BY <1>1 DEF Positions, Exists
<1>10. OneReply'
  BY <1>1, <1>2, <1>5, <1>6, RepliesKept DEF Callers
<1>11. Existing'
  <2>1. \A c \in Callers : /\ call'[c].stage = "done" => call'[c].reply.threads \subseteq Exists
                           /\ call'[c].method = "resume" => call'[c].thread \in Exists
    BY <1>5, <1>6, LostHasNothing DEF Existing
  <2>2. \A i \in DOMAIN client'.queue : client'.queue[i] \in Exists \cup {None}
    BY <1>5 DEF Existing
  <2>. QED
    BY <1>1, <1>9, <2>1, <2>2 DEF Existing
<1>12. Tasks'
  BY <1>1, <1>2, <1>6 DEF Tasks, Callers
<1>13. Dealings'
  <2>1. \A c \in Callers : Open /\ call'[c].method = "resume" /\ call'[c].stage \in {"served", "done"}
                               => call'[c] = call[c]
    BY <1>6 DEF Open
  <2>2. \A c \in Callers : call'[c].method = "read" => call'[c] = call[c]
    BY <1>6
  <2>. QED
    BY <1>1, <1>3, <2>1, <2>2 DEF Dealings, Open, Dealt
<1>14. Covered'
  <2>. SUFFICES ASSUME Open, NEW u \in loaded
                PROVE  Dealt(u)' \/ EventComes(u)' \/ ConsumerAsks(u)' \/ WalkComes(u)'
    BY <1>1, <1>3 DEF Covered, Open
  <2>1. CASE Dealt(u)
    BY <1>1, <2>1 DEF Dealt
  <2>2. CASE u = t
    <3>1. CASE t \in subscribed
      BY <1>1, <1>7, <2>2, <3>1 DEF Dealt
    <3>2. CASE t \notin subscribed
      BY <1>6, <2>2, <3>2 DEF ConsumerAsks, Open
    <3>. QED
      BY <3>1, <3>2
  <2>3. CASE EventComes(u) /\ u # t
    BY <1>1, <1>8, <2>3 DEF EventComes
  <2>4. ~ConsumerAsks(u)
    BY <1>2 DEF ConsumerAsks
  <2>5. CASE WalkComes(u)
    <3>1. call'["loop"] = call["loop"]
      BY <1>6 DEF Callers
    <3>. QED
      BY <1>1, <2>5, <3>1 DEF WalkComes, Told, Leads, Below
  <2>. QED
    BY <2>1, <2>2, <2>3, <2>4, <2>5 DEF Covered
<1>. QED
  BY <1>9, <1>10, <1>11, <1>12, <1>13, <1>14

\* The consumer's request is answered: its thread was dealt with when it was served.
LEMMA ConsumerAnsweredCover == ASSUME SessionInv, CoverInv, ConsumerAnswered PROVE CoverInv'
<1>. USE DEF CoverInv
<1>1. /\ consumer.pc = "resume" /\ call["consumer"].stage = "done"
      /\ call["consumer"].method = "resume"
      /\ consumer'.pc \in {"ended", "get"}
      /\ subscribed' = subscribed \/ subscribed' = subscribed \cup {consumer.thread}
      /\ Forget("consumer")
      /\ UNCHANGED <<supports, updated, loaded, subscribers, socket, client, loop>>
  BY DEF ConsumerAnswered, server, Answered
<1>2. call'["consumer"] = Idle /\ \A d \in Callers : d # "consumer" => call'[d] = call[d]
  BY <1>1, Forgotten DEF SessionInv, Callers
<1>3. Open => consumer.thread \in subscribers \cup Refusing
  BY <1>1 DEF Tasks, Dealings, Dealt, Callers
<1>4. Positions' /\ Exists' = Exists
  BY <1>1 DEF Positions, Exists
<1>5. OneReply'
  <2>1. IsSequence(client'.queue)
    BY <1>1 DEF OneReply
  <2>. QED
    BY <1>1, <1>2, <2>1, RepliesKept, LostHasNothing DEF Callers
<1>6. Existing'
  <2>1. \A c \in Callers : /\ call'[c].stage = "done" => call'[c].reply.threads \subseteq Exists
                           /\ call'[c].method = "resume" => call'[c].thread \in Exists
    BY <1>2, LostHasNothing DEF Existing, None
  <2>. QED
    BY <1>1, <1>4, <2>1 DEF Existing
<1>7. Tasks'
  BY <1>1, <1>2, LostHasNothing DEF Tasks, Callers
<1>8. Dealings'
  <2>1. \A c \in Callers : call'[c].method \in {"resume", "read"} => call'[c] = call[c]
    BY <1>2, LostHasNothing DEF None
  <2>2. Open /\ loop.pc \in {"list", "resume", "ready"} =>
            \A t \in subscribed' : t \in subscribers \cup Refusing
    BY <1>1, <1>3 DEF Dealings, Dealt
  <2>. QED
    BY <1>1, <2>1, <2>2 DEF Dealings, Open, Dealt
<1>9. Covered'
  <2>1. \A t : ~ConsumerAsks(t)
    BY <1>1 DEF ConsumerAsks
  <2>2. call'["loop"] = call["loop"]
    BY <1>2 DEF Callers
  <2>3. \A t : WalkComes(t) => WalkComes(t)'
    BY <1>1, <2>2 DEF WalkComes, Told, Leads, Below
  <2>. QED
    BY <1>1, <2>1, <2>3 DEF Covered, Open, Dealt, EventComes
<1>. QED
  BY <1>4, <1>5, <1>6, <1>7, <1>8, <1>9

LEMMA ConsumerEndsCover == ASSUME SessionInv, CoverInv, ConsumerEnds PROVE CoverInv'
<1>. USE DEF CoverInv
<1>1. /\ consumer.pc = "get" /\ client.closed /\ consumer' = [pc |-> "ended", thread |-> None]
      /\ UNCHANGED <<supports, updated, loaded, subscribers, socket, call, client, loop, subscribed>>
  BY DEF ConsumerEnds, server
<1>2. Positions' /\ OneReply' /\ Tasks'
  BY <1>1 DEF Positions, OneReply, Told, Tasks, Callers
<1>3. Existing'
  BY <1>1 DEF Existing, Exists
<1>. QED
  BY <1>1, <1>2, <1>3, ClosedKeeps

LEMMA CoverInvariant == Spec => [](SessionInv /\ CoverInv)
<1>1. SessionInv /\ CoverInv /\ [Next]_vars => CoverInv'
  <2>. SUFFICES ASSUME SessionInv, CoverInv, [Next]_vars PROVE CoverInv'
    OBVIOUS
  <2>1. CASE UNCHANGED vars
    <3>1. Positions' /\ OneReply' /\ Tasks' /\ Dealings'
      BY <2>1 DEF vars, CoverInv, Positions, OneReply, Told, Tasks, Dealings, Open, Dealt
    <3>2. Existing'
      BY <2>1 DEF vars, CoverInv, Existing, Exists
    <3>3. Covered'
      BY <2>1 DEF vars, CoverInv, Covered, Open, Dealt, EventComes, ConsumerAsks, WalkComes, Told,
                  Leads, Below
    <3>. QED
      BY <3>1, <3>2, <3>3 DEF CoverInv
  <2>2. CASE Loop
    BY <2>2, ConnectCover, ConnectedCover, ListedCover, ResumeCover, DoneCover, DegradedCover,
       ReadyCover, BackOffCover DEF Loop
  <2>3. CASE Consumer
    BY <2>3, ConsumeCover, ConsumerAnsweredCover, ConsumerEndsCover DEF Consumer
  <2>. QED
    BY <2>1, <2>2, <2>3, UpdateCover, UnloadCover, ServeCover, DeliverCover, FailedCover DEF Next
<1>. QED
  BY <1>1, CoverInit, SessionInvariant, PTL DEF Spec

\* In a ready attachment with nothing in flight every loaded thread that can be subscribed to
\* is: none falls between the pages of the walk and the notifications (_reconcile,
\* _subscribe_from_event).
THEOREM NoThreadMissed == Spec => []QuietMeansSubscribed
<1>1. SessionInv /\ CoverInv => QuietMeansSubscribed
  <2>. SUFFICES ASSUME SessionInv, CoverInv, supports, state = "ready", ~client.closed, ~InFlight,
                       NEW t \in loaded
                PROVE  t \in subscribers \cup Refusing
    BY DEF QuietMeansSubscribed
  <2>1. /\ loop.pc = "ready" /\ socket = <<>> /\ client.queue = <<>>
        /\ call["consumer"].stage = "idle"
    BY DEF SessionInv, ReadyIsLast, InFlight, Callers
  <2>2. ~EventComes(t) /\ ~ConsumerAsks(t) /\ ~WalkComes(t)
    BY <2>1 DEF EventComes, ConsumerAsks, WalkComes
  <2>. QED
    BY <2>2 DEF CoverInv, Covered, Open, Dealt
<1>. QED
  BY <1>1, CoverInvariant, PTL

=============================================================================
