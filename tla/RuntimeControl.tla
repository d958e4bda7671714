---------------------------- MODULE RuntimeControl ----------------------------
(***************************************************************************)
(* AppServerRecoveryLoop (src/spotter/runtime_connection.py): one App      *)
(* Server connection at a time, its reconciliation after every reconnect   *)
(* and restart, and the two controls it sends into a live turn -- the      *)
(* reviewer's advisory steer and the interrupt -- until each is classified.*)
(*                                                                         *)
(* Replies and notifications share a socket but are handled by different   *)
(* tasks, so their order is free.  Control telemetry is journaled by a     *)
(* worker behind a bounded queue: a crash loses what is still queued.      *)
(* One thread is modelled, the rest of the Trace only as what it leaves in *)
(* the ThreadState.  The App Server is external.                           *)
(***************************************************************************)
EXTENDS ThreadLifecycle, Integers, FiniteSets, Sequences, SequencesExt

CONSTANTS
    Steers,       \* ids of advisory steers
    Interrupts,   \* ids of interrupts
    QueueSize,    \* control_telemetry_queue_size
    MaxEpoch,     \* bound: connections made
    MaxLives      \* bound: daemon processes started

ASSUME ControlAssumption ==
    /\ Steers \cap Interrupts = {} /\ IsFiniteSet(Steers \cup Interrupts)
    /\ QueueSize \in Nat \ {0} /\ MaxEpoch \in Nat /\ MaxLives \in Nat

VARIABLES
    \* the App Server
    turns,           \* what each turn is doing
    input,           \* where the text of an accepted steer is: queued, or shown in a turn
    \* the connection
    inbox,           \* notifications sent to this connection and not yet consumed
    call,            \* the control RPC of each control
    snapshot,        \* the active turn in the thread/resume reply not yet reconciled
    \* the daemon's memory
    conn,            \* off (no process), down, reconciling, ready
    epoch,           \* _connection_epoch
    st,              \* the ThreadState; its durable part is in the Trace journal too
    target,          \* the RuntimeControlTarget a control names: its turn and epoch
    requestIds,      \* _control_request_ids
    requests,        \* _control_requests
    accepted,        \* _accepted_controls
    observed,        \* _observed_control_ids
    settled,         \* _settled_interrupt_ids
    watched,         \* _interrupt_target_turns
    terminalStatus,  \* _terminal_turn_status
    deadlines,       \* _interrupt_deadlines
    queue,           \* _control_telemetry_queue
    telemetryIds,    \* _control_telemetry_ids
    \* durable
    journal,         \* the control_* records of the Trace journal
    savedEpoch,      \* last_connection_epoch recovered from the Trace journal
    lives            \* daemon processes started so far

server == <<turns, input>>
memory == <<requestIds, requests, accepted, observed, settled, watched, terminalStatus, deadlines>>
telemetry == <<queue, telemetryIds>>
durable == <<journal, savedEpoch, lives>>
vars == <<server, inbox, call, snapshot, conn, epoch, st, target, memory, telemetry, durable>>

Controls == Steers \cup Interrupts

LiveStatus == {"active", "answered"}
EndStatus == {"completed", "interrupted"}

\* No reply processed yet: undispatched, at the server, or replied.  "lost" fails with
\* acceptance unknown.
Replies == {"accept", "stale", "failed", "lost"}
InFlight == {"sent"} \cup Replies

\* An event of a control is named by its id and phase, as in its event_id.
Verdicts == {"stale", "failed", "unknown", "rpc_accepted_only",
             "turn_aborted", "turn_completed_otherwise"}
Phases == {"dispatch_started", "rpc_accepted", "observed_in_turn", "observed_outside"} \cup Verdicts
Events == Controls \X Phases

NoSnapshot == MaxTurn + 1
Unknown == "unknown"

TypeOK ==
    /\ turns \in [Turns -> {"future"} \cup LiveStatus \cup EndStatus]
    /\ input \in [Steers -> {"none", "queued", "shown"}]
    /\ inbox \in Seq([kind : {"started", "answered", "completed", "prompt"},
                      turn : Turns, control : Steers \cup {Unknown}])
    /\ call \in [Controls -> {"idle", "done"} \cup InFlight]
    /\ snapshot \in Turns \cup {NoTurn, NoSnapshot}
    /\ conn \in {"off", "down", "reconciling", "ready"}
    /\ epoch \in Nat /\ savedEpoch \in Nat /\ lives \in Nat
    /\ st \in ThreadStates
    /\ target \in [Controls -> [turn : Turns \cup {NoTurn}, epoch : Nat]]
    /\ requestIds \in SUBSET Controls /\ requests \in SUBSET Steers
    /\ accepted \in SUBSET Controls /\ observed \in SUBSET Steers
    /\ settled \in SUBSET Interrupts /\ deadlines \in SUBSET Interrupts
    /\ watched \in SUBSET Turns
    /\ terminalStatus \in [Turns -> EndStatus \cup {Unknown}]
    /\ queue \in Seq(Events) /\ Len(queue) <= QueueSize
    /\ telemetryIds \in SUBSET Events
    /\ journal \in SUBSET Events

Init ==
    /\ turns = [t \in Turns |-> "future"]
    /\ input = [c \in Steers |-> "none"]
    /\ inbox = <<>>
    /\ call = [c \in Controls |-> "idle"]
    /\ snapshot = NoSnapshot
    /\ conn = "down" /\ epoch = 0
    /\ st = Unobserved
    /\ target = [c \in Controls |-> [turn |-> NoTurn, epoch |-> 0]]
    /\ requestIds = {} /\ requests = {} /\ accepted = {} /\ observed = {} /\ settled = {}
    /\ watched = {} /\ terminalStatus = [t \in Turns |-> Unknown] /\ deadlines = {}
    /\ queue = <<>> /\ telemetryIds = {}
    /\ journal = {} /\ savedEpoch = 0 /\ lives = 1

-----------------------------------------------------------------------------
(***************************************************************************)
(* The App Server, as the code uses it.  It notifies a connection of the   *)
(* thread from the moment it answered thread/resume.                       *)
(***************************************************************************)
Live(t) == turns[t] \in LiveStatus
Subscribed == conn = "ready" \/ (conn = "reconciling" /\ snapshot # NoSnapshot)

Notify(kind, t, c) ==
    /\ inbox' = IF Subscribed
                THEN Append(inbox, [kind |-> kind, turn |-> t, control |-> c])
                ELSE inbox
    /\ UNCHANGED <<call, snapshot, conn, epoch, st, target, memory, telemetry, durable>>

StartTurn(t) ==
    /\ turns[t] = "future"
    /\ \A u \in Turns : u < t => turns[u] \in EndStatus
    /\ turns' = [turns EXCEPT ![t] = "active"]
    /\ UNCHANGED input
    /\ Notify("started", t, Unknown)

\* A final answer: the turn goes on until it completes.
Answer(t) ==
    /\ turns[t] = "active"
    /\ turns' = [turns EXCEPT ![t] = "answered"]
    /\ UNCHANGED input
    /\ Notify("answered", t, Unknown)

\* A turn may complete although its interrupt was accepted, and a user may interrupt it too.
EndTurn(t, status) ==
    /\ Live(t)
    /\ turns' = [turns EXCEPT ![t] = status]
    /\ UNCHANGED input
    /\ Notify("completed", t, Unknown)

\* The text of an accepted steer becomes visible in a live turn, not always its target.
ShowInput(c, t) ==
    /\ input[c] = "queued" /\ Live(t)
    /\ input' = [input EXCEPT ![c] = "shown"]
    /\ UNCHANGED turns
    /\ Notify("prompt", t, c)

\* The reply is sent; the task awaiting it resumes later.
AnswerCall(c) ==
    /\ call[c] = "sent"
    /\ \E reply \in {IF Live(target[c].turn) THEN "accept" ELSE "stale", "failed"} :
          /\ call' = [call EXCEPT ![c] = reply]
          /\ input' = IF reply = "accept" /\ c \in Steers
                      THEN [input EXCEPT ![c] = "queued"] ELSE input
    /\ UNCHANGED <<turns, inbox, snapshot, conn, epoch, st, target, memory, telemetry, durable>>

-----------------------------------------------------------------------------
(***************************************************************************)
(* Control telemetry.                                                      *)
(***************************************************************************)

UpTo(events, n) == SubSeq(events, 1, IF Len(events) < n THEN Len(events) ELSE n)

\* _enqueue_control_event() for each event of a sequence: what the queue has no room for is
\* dropped and its id not remembered.
Enqueue(events) ==
    LET taken == UpTo(events, QueueSize - Len(queue))
    IN  /\ queue' = queue \o taken
        /\ telemetryIds' = telemetryIds \cup ToSet(taken)

\* An event whose id is known is skipped.
New(c, phase) == IF <<c, phase>> \in telemetryIds THEN <<>> ELSE << <<c, phase>> >>

\* One for each control of a set, in any order.
NewOfEach(C, phase) ==
    {[i \in DOMAIN order |-> <<order[i], phase>>] :
        order \in SetToSeqs({c \in C : <<c, phase>> \notin telemetryIds})}

\* The writer appends the oldest event in a worker thread, or fails and loses it.
Write ==
    /\ conn # "off" /\ queue # <<>>
    /\ queue' = Tail(queue)
    /\ journal' \in {journal, journal \cup {Head(queue)}}
    /\ UNCHANGED <<telemetryIds, savedEpoch, lives>>
    /\ UNCHANGED <<server, inbox, call, snapshot, conn, epoch, st, target, memory>>

-----------------------------------------------------------------------------
(***************************************************************************)
(* Settling interrupts.                                                    *)
(***************************************************************************)

\* _interrupt_settlement(): how a turn's terminal status settles its interrupts.
Classify(status) == IF status = "interrupted" THEN "turn_aborted" ELSE "turn_completed_otherwise"

\* Mutant: the deadline of a settled interrupt is left to run.
RetireLate(C, t, status) ==
    /\ settled' = settled \cup C
    /\ UNCHANGED <<deadlines, watched>>
    /\ terminalStatus' = status

\* _settle_interrupt() of each control of a set C, all aimed at turn t, in memory: the
\* deadlines go, and the turn is forgotten once no accepted interrupt waits on it.
Retire(C, t, status) ==
    /\ settled' = settled \cup C
    /\ deadlines' = deadlines \ C
    /\ LET idle == C # {} /\ \A c \in accepted' \cap Interrupts : target[c].turn = t => c \in settled'
       IN  /\ watched' = IF idle THEN watched \ {t} ELSE watched
           /\ terminalStatus' = IF idle THEN [status EXCEPT ![t] = Unknown] ELSE status

\* The settlement deadline of an accepted interrupt passes.
Expire(c) ==
    /\ c \in deadlines
    /\ UNCHANGED <<requestIds, requests, accepted, observed>>
    /\ Retire({c}, target[c].turn, terminalStatus)
    /\ Enqueue(New(c, "unknown"))
    /\ UNCHANGED <<server, inbox, call, snapshot, conn, epoch, st, target, durable>>

-----------------------------------------------------------------------------
(***************************************************************************)
(* Dispatching a control and resuming on its reply.                        *)
(***************************************************************************)

\* _validate_target().
Valid(c, t, e) ==
    /\ conn = "ready" /\ e = epoch
    /\ st.ready /\ st.epoch = e /\ st.active = t
    /\ c \in Steers => st.answer # t

\* _dispatch_control() up to the RPC, for the turn and epoch its caller once observed.
Dispatch(c, t, e) ==
    /\ conn # "off" /\ c \notin requestIds
    /\ requestIds' = requestIds \cup {c}
    /\ target' = [target EXCEPT ![c] = [turn |-> t, epoch |-> e]]
    /\ \/ /\ Valid(c, t, e)
          /\ call' = [call EXCEPT ![c] = "sent"]
          /\ requests' = requests \cup ({c} \cap Steers)
          /\ watched' = IF c \in Interrupts THEN watched \cup {t} ELSE watched
          /\ Enqueue(New(c, "dispatch_started"))
       \/ /\ ~Valid(c, t, e)
          /\ Enqueue(New(c, "stale"))
          /\ UNCHANGED <<call, requests, watched>>
    /\ UNCHANGED <<accepted, observed, settled, terminalStatus, deadlines>>
    /\ UNCHANGED <<server, inbox, snapshot, conn, epoch, st, durable>>

\* The RPC raised: its outcome is recorded, and a watched turn stays watched.
Raise(c) ==
    /\ conn # "off" /\ call[c] \in Replies \ {"accept"}
    /\ call' = [call EXCEPT ![c] = "done"]
    /\ Enqueue(New(c, IF call[c] = "lost" THEN "unknown" ELSE call[c]))
    /\ UNCHANGED <<server, inbox, snapshot, conn, epoch, st, target, memory, durable>>

\* An accepted steer, settled at once if its turn already ended or answered and its text
\* was not seen (_reconcile_settled_acceptance).
AcceptSteer(c) ==
    /\ conn # "off" /\ call[c] = "accept" /\ c \in Steers
    /\ call' = [call EXCEPT ![c] = "done"]
    /\ accepted' = accepted \cup {c}
    /\ LET over == target[c].turn \in st.completed \/ st.answer = target[c].turn
       IN  Enqueue(IF over /\ c \notin observed
                   THEN New(c, "rpc_accepted") \o New(c, "rpc_accepted_only")
                   ELSE New(c, "rpc_accepted"))
    /\ UNCHANGED <<requestIds, requests, observed, settled, watched, terminalStatus, deadlines>>
    /\ UNCHANGED <<server, inbox, snapshot, conn, epoch, st, target, durable>>

\* An accepted interrupt, settled at once if its turn already completed, else given a deadline.
AcceptInterrupt(c) ==
    /\ conn # "off" /\ call[c] = "accept" /\ c \in Interrupts
    /\ call' = [call EXCEPT ![c] = "done"]
    /\ accepted' = accepted \cup {c}
    /\ LET t == target[c].turn
       IN  IF t \in st.completed
           THEN /\ Retire({c}, t, terminalStatus)
                /\ Enqueue(New(c, "rpc_accepted") \o New(c, Classify(terminalStatus[t])))
           ELSE /\ deadlines' = deadlines \cup {c}
                /\ Enqueue(New(c, "rpc_accepted"))
                /\ UNCHANGED <<settled, watched, terminalStatus>>
    /\ UNCHANGED <<requestIds, requests, observed>>
    /\ UNCHANGED <<server, inbox, snapshot, conn, epoch, st, target, durable>>

-----------------------------------------------------------------------------
(***************************************************************************)
(* Consuming notifications (_consume and _record).                         *)
(***************************************************************************)
Next1(kind) == conn \in {"reconciling", "ready"} /\ inbox # <<>> /\ Head(inbox).kind = kind

Consumed ==
    /\ inbox' = Tail(inbox)
    /\ savedEpoch' = epoch
    /\ UNCHANGED <<server, call, snapshot, conn, epoch, target, lives>>

ConsumeStarted ==
    /\ Next1("started")
    /\ st' = Started(st, Head(inbox).turn, epoch)
    /\ Consumed
    /\ UNCHANGED <<memory, telemetry, journal>>

\* Mutant: whether the text was seen is not looked at.
UnseenOrSeen(t) == {c \in accepted \cap Steers : target[c] = [turn |-> t, epoch |-> epoch]}

\* Accepted steers aimed at this turn of this connection whose text was not seen.
Unseen(t) == {c \in (accepted \cap Steers) \ observed : target[c] = [turn |-> t, epoch |-> epoch]}

ConsumeAnswered ==
    /\ Next1("answered")
    /\ LET t == Head(inbox).turn
       IN  /\ st' = Answered(st, t, epoch)
           /\ \E unproved \in NewOfEach(Unseen(t), "rpc_accepted_only") : Enqueue(unproved)
    /\ Consumed
    /\ UNCHANGED <<memory, journal>>

\* The boundary of a turn: its status is kept while an interrupt watches it, steers that were
\* not seen are classified, and the interrupts accepted in this epoch are settled.
ConsumeCompleted ==
    /\ Next1("completed")
    /\ LET t == Head(inbox).turn
           status == IF t \in watched THEN [terminalStatus EXCEPT ![t] = turns[t]]
                                      ELSE terminalStatus
           ended == {c \in (accepted \cap Interrupts) \ settled :
                        target[c] = [turn |-> t, epoch |-> epoch]}
       IN  /\ st' = Completed(st, t, epoch)
           /\ UNCHANGED <<requestIds, requests, accepted, observed>>
           /\ Retire(ended, t, status)
           /\ \E unproved \in NewOfEach(Unseen(t), "rpc_accepted_only"),
                 ends \in NewOfEach(ended, Classify(turns[t])) : Enqueue(unproved \o ends)
    /\ Consumed
    /\ UNCHANGED journal

\* Does the text of steer c appear in the live turn of the connection it was aimed at?
InTarget(c, t) ==
    /\ target[c] = [turn |-> t, epoch |-> epoch]
    /\ st.active = t /\ st.epoch = epoch /\ st.answer # t

\* The text of a steer shows up: the daemon recognises its own and journals where it saw it.
\* Otherwise it is a user prompt like any other.
ConsumePrompt ==
    /\ Next1("prompt")
    /\ LET c == Head(inbox).control
           t == Head(inbox).turn
       IN  /\ st' = Rebased(st, epoch)
           /\ IF c \in requests
              THEN /\ observed' = observed \cup {c}
                   /\ journal' = journal \cup
                        {<<c, IF InTarget(c, t) THEN "observed_in_turn" ELSE "observed_outside">>}
              ELSE UNCHANGED <<observed, journal>>
    /\ Consumed
    /\ UNCHANGED <<requestIds, requests, accepted, settled, watched, terminalStatus, deadlines>>
    /\ UNCHANGED telemetry

-----------------------------------------------------------------------------
(***************************************************************************)
(* The connection (_run and _reconcile).                                   *)
(***************************************************************************)
Connect ==
    /\ conn = "down" /\ epoch < MaxEpoch
    /\ conn' = "reconciling" /\ epoch' = epoch + 1 /\ inbox' = <<>> /\ snapshot' = NoSnapshot
    /\ UNCHANGED <<server, call, st, target, memory, telemetry, durable>>

\* The server answers thread/resume: the thread as it is now, and notifications from here on.
Resume ==
    /\ conn = "reconciling" /\ snapshot = NoSnapshot
    /\ snapshot' = IF \E t \in Turns : Live(t) THEN CHOOSE t \in Turns : Live(t) ELSE NoTurn
    /\ UNCHANGED <<server, inbox, call, conn, epoch, st, target, memory, telemetry, durable>>

\* The reply is reconciled, however late after the notifications that followed it.
Reconcile ==
    /\ conn = "reconciling" /\ snapshot # NoSnapshot
    /\ st' = Reconciled(st, snapshot, epoch)
    /\ conn' = "ready" /\ snapshot' = NoSnapshot /\ savedEpoch' = epoch
    /\ UNCHANGED <<server, inbox, call, epoch, target, memory, telemetry, journal, lives>>

\* The thread is not loaded in the server: it is not resumed, and its state stays behind.
SkipUnloaded ==
    /\ conn = "reconciling" /\ snapshot = NoSnapshot
    /\ \A t \in Turns : ~Live(t)
    /\ conn' = "ready" /\ savedEpoch' = epoch
    /\ UNCHANGED <<server, inbox, call, snapshot, epoch, st, target, memory, telemetry, journal, lives>>

\* The calls whose reply will never be read.  One whose reply already arrived may still be.
Cut(lost) ==
    /\ {c \in Controls : call[c] = "sent"} \subseteq lost
    /\ lost \subseteq {c \in Controls : call[c] \in InFlight}
    /\ call' = [c \in Controls |-> IF c \in lost THEN "lost" ELSE call[c]]

\* The connection fails, or a request times out: that fails the connection too.
Disconnect ==
    /\ conn \in {"reconciling", "ready"}
    /\ conn' = "down" /\ inbox' = <<>> /\ snapshot' = NoSnapshot
    /\ \E lost \in SUBSET Controls : Cut(lost)
    /\ UNCHANGED <<server, epoch, st, target, memory, telemetry, durable>>

-----------------------------------------------------------------------------
(***************************************************************************)
(* The process.                                                            *)
(***************************************************************************)
Forget ==
    /\ conn' = "off" /\ inbox' = <<>> /\ snapshot' = NoSnapshot
    /\ call' = [c \in Controls |-> IF call[c] = "idle" THEN "idle" ELSE "done"]
    /\ requestIds' = {} /\ requests' = {} /\ accepted' = {} /\ observed' = {} /\ settled' = {}
    /\ watched' = {} /\ terminalStatus' = [t \in Turns |-> Unknown] /\ deadlines' = {}
    /\ queue' = <<>> /\ telemetryIds' = {}
    /\ UNCHANGED <<server, epoch, st, target, savedEpoch, lives>>

\* Killed: what the telemetry worker had not written is gone.
Crash == conn # "off" /\ Forget /\ UNCHANGED journal

\* close(): calls in flight fail as unknown, and the queue is drained.
Close ==
    /\ conn # "off"
    /\ \A c \in Controls : call[c] \in InFlight => call[c] = "sent"
    /\ Forget
    /\ \E order \in SetToSeqs({<<c, "unknown">> : c \in {d \in Controls : call[d] = "sent"}}) :
          journal' = journal \cup ToSet(queue) \cup ToSet(UpTo(order, QueueSize - Len(queue)))

\* Controls with a durable event in some of these phases.
Durable(phases) == {c \in Controls : \E p \in phases : <<c, p>> \in journal}

\* _control_request_ids is every id the journal has seen.
\* Mutant: only accepted controls are remembered.
AcceptedIds == Durable({"rpc_accepted"})
KnownIds == Durable(Phases)

\* _control_requests is every advisory that was dispatched.
KnownRequests == Durable(Phases \ {"stale"}) \cap Steers

\* Interrupts that were accepted and, as far as the journal knows, not settled.
\* Mutant: the verdicts already journaled are not looked at.
ResumedAll == Durable({"rpc_accepted"}) \cap Interrupts
\* Mutant: interrupts are not hydrated at all.
ResumedNone == {}
Resumed == (Durable({"rpc_accepted"}) \cap Interrupts) \ Durable(Verdicts)

\* A new process hydrates from the journal, and start() rearms the deadlines.
Restart ==
    /\ conn = "off" /\ lives < MaxLives
    /\ lives' = lives + 1
    /\ conn' = "down" /\ epoch' = savedEpoch
    /\ st' = Hydrated(st)
    /\ requestIds' = KnownIds
    /\ requests' = KnownRequests
    /\ accepted' = Durable({"rpc_accepted"})
    /\ observed' = Durable({"observed_in_turn", "observed_outside"})
    /\ settled' = Durable(Verdicts) \cap Interrupts
    /\ watched' = {target[c].turn : c \in Resumed}
    /\ deadlines' = Resumed
    /\ telemetryIds' = journal
    /\ UNCHANGED <<server, inbox, call, snapshot, target, terminalStatus, queue, journal, savedEpoch>>

-----------------------------------------------------------------------------
Next ==
    \/ \E t \in Turns : StartTurn(t) \/ Answer(t) \/ \E status \in EndStatus : EndTurn(t, status)
    \/ \E c \in Steers, t \in Turns : ShowInput(c, t)
    \/ \E c \in Controls, t \in Turns, e \in 1 .. epoch : turns[t] # "future" /\ Dispatch(c, t, e)
    \/ \E c \in Controls : AnswerCall(c) \/ Raise(c) \/ AcceptSteer(c) \/ AcceptInterrupt(c)
    \/ \E c \in Interrupts : Expire(c)
    \/ ConsumeStarted \/ ConsumeAnswered \/ ConsumeCompleted \/ ConsumePrompt
    \/ Write
    \/ Connect \/ Resume \/ Reconcile \/ SkipUnloaded \/ Disconnect
    \/ Crash \/ Close \/ Restart

Spec == Init /\ [][Next]_vars

\* The event loop runs the timers it was given.
FairSpec == Spec /\ \A c \in Interrupts : WF_vars(Expire(c))
-----------------------------------------------------------------------------
(***************************************************************************)
(* Properties.                                                             *)
(***************************************************************************)
Recorded == journal \cup ToSet(queue)

\* An advisory is never both proved visible in its turn and written off as merely accepted,
\* in whatever order the reply, its text, the final answer and the boundary arrive.
AdvisoryNotBoth ==
    \A c \in Steers :
        ~(<<c, "observed_in_turn">> \in Recorded /\ <<c, "rpc_accepted_only">> \in Recorded)

\* The durable history implements the abstract promise: the record of a control only advances,
\* through crashes, drops and restarts, and its verdict is never taken back.
VerdictsOf(c) == {p \in Verdicts : <<c, p>> \in journal}
Stage == [c \in Controls |->
    IF VerdictsOf(c) # {} THEN CHOOSE p \in VerdictsOf(c) : TRUE
    ELSE IF <<c, "rpc_accepted">> \in journal THEN "accepted"
    ELSE IF <<c, "dispatch_started">> \in journal THEN "started" ELSE "absent"]
Promise == INSTANCE ControlPromise WITH stage <- Stage
PromiseKept == Promise!Spec

\* An accepted interrupt whose verdict is open is always bounded by a deadline: acceptance,
\* settlement, disconnection and restart leave none behind.
OpenInterruptIsBounded ==
    conn # "off" => (accepted \cap Interrupts) \ settled = deadlines

\* An id with any durable event is never sent to the server again, whatever crashed.
NeverResent ==
    [][\A c \in Controls :
          (call'[c] = "sent" /\ call[c] # "sent") => c \notin Durable(Phases)]_vars

\* Every interrupt known to be accepted gets its verdict if the process lives on, also the
\* one resumed from the journal by a new process, also if its turn never ends.
InterruptSettles ==
    \A c \in Interrupts :
        (c \in accepted \/ <<c, "rpc_accepted">> \in journal) ~> (c \in settled \/ conn = "off")

\* _reconcile_settled_acceptance() and _interrupt_settlement() promise that "notification-
\* versus-ACK ordering cannot change the outcome".  The code breaks it: settling the first
\* of two interrupts of a turn forgets the status the second one is classified by.
AckOrderIrrelevant ==
    \A c \in Interrupts :
        <<c, "turn_completed_otherwise">> \in Recorded => turns[target[c].turn] # "interrupted"

\* The architecture promises that "an observed terminal status always retires that deadline
\* first".  The code compares epochs, so an interrupt accepted before a reconnect waits for
\* its deadline although the daemon saw its turn end.
StatusRetiresDeadline ==
    \A c \in deadlines : target[c].turn \notin st.completed

\* The user guide promises that decisions "steer the exact active turn".  The code marks a
\* turn controllable only when it was already active at a reconnect: one that starts on a
\* live connection, all notifications consumed, is refused every control.
LiveTurnControllable ==
    \A t \in Turns :
        (conn = "ready" /\ inbox = <<>> /\ turns[t] = "active" /\ st.active = t /\ st.epoch = epoch)
            => st.ready
=============================================================================
