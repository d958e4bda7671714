---------------------------- MODULE ReviewPipeline ----------------------------
(***************************************************************************)
(* From a signal to an advisory: ReviewScheduler binds a job to the turn   *)
(* and epoch its signal was raised in (src/spotter/review_scheduler.py),   *)
(* ReviewExecutor runs the jobs one at a time (review_executor.py), and    *)
(* AppServerRecoveryLoop feeds both from the Trace and delivers the fresh  *)
(* decisions (runtime_connection.py).  Everything the executor records     *)
(* comes back through the same Trace, carrying the epoch of its job.       *)
(*                                                                         *)
(* A Trace event and the scheduler transitions it causes are appended one  *)
(* after the other: a crash in between leaves transitions owed, which the  *)
(* next process derives again from the journal.                            *)
(***************************************************************************)
EXTENDS ThreadLifecycle, FiniteSets

CONSTANTS
    Jobs,        \* review jobs, one per group of signals raised together
    NoJob,
    MaxEpoch,    \* bound: connections made
    MaxLives     \* bound: daemon processes started

ASSUME PipelineAssumption ==
    IsFiniteSet(Jobs) /\ NoJob \notin Jobs /\ MaxEpoch \in Nat /\ MaxLives \in Nat

VARIABLES
    latest,      \* the newest turn of the thread that the server started
    conn,        \* off (no process), down, ready
    epoch,       \* the epoch of the newest connection
    lives,       \* daemon processes started so far
    st,          \* the ThreadState
    target,      \* turn and epoch of each job's immutable snapshot
    seen,        \* _seen_signal_ids
    pending,     \* ReviewScheduler._jobs
    started,     \* _started_job_ids
    journal,     \* review records of the Trace journal
    owed,        \* transitions of the last event that are not appended yet
    queue,       \* the executor's queue; which job has priority is left open
    running,     \* the job the worker is busy with
    stage,       \* what the worker does: idle, inferring, delivering, dead
    runs,        \* how often each job was inferred
    delivered    \* jobs whose advisory was sent

thread == <<latest, conn, epoch, lives>>
scheduler == <<target, seen, pending, started>>
executor == <<queue, running, stage, runs, delivered>>
vars == <<thread, st, scheduler, journal, owed, executor>>

Ends == {"discarded", "stale", "decision", "error", "capped"}
Records == Jobs \X (Ends \cup {"queued", "started", "undelivered"})

TypeOK ==
    /\ latest \in 0 .. MaxTurn /\ epoch \in Nat /\ lives \in Nat
    /\ conn \in {"off", "down", "ready"}
    /\ st \in ThreadStates
    /\ target \in [Jobs -> [turn : 0 .. MaxTurn, epoch : Nat]]
    /\ seen \in SUBSET Jobs /\ pending \in SUBSET Jobs /\ started \in SUBSET pending
    /\ journal \in SUBSET Records /\ owed \in SUBSET Records
    /\ queue \in SUBSET Jobs
    /\ running \in Jobs \cup {NoJob} /\ stage \in {"idle", "inferring", "delivering", "dead"}
    /\ runs \in [Jobs -> Nat]
    /\ delivered \in SUBSET Jobs

Init ==
    /\ latest = 0 /\ conn = "down" /\ epoch = 0 /\ lives = 1
    /\ st = Unobserved
    /\ target = [j \in Jobs |-> [turn |-> NoTurn, epoch |-> 0]]
    /\ seen = {} /\ pending = {} /\ started = {}
    /\ journal = {} /\ owed = {}
    /\ queue = {} /\ running = NoJob /\ stage = "idle"
    /\ runs = [j \in Jobs |-> 0] /\ delivered = {}

-----------------------------------------------------------------------------
(***************************************************************************)
(* The scheduler.                                                          *)
(***************************************************************************)

\* update() discards the jobs whose target is not the live, unanswered turn of this epoch.
Stranded(s) ==
    {j \in pending : \/ s.epoch # target[j].epoch
                     \/ s.active # target[j].turn
                     \/ s.answer = target[j].turn}

\* The last record of a job: stale if its review started, discarded if it did not.
Withdrawn(j) == <<j, IF j \in started THEN "stale" ELSE "discarded">>
Discards(D) == {Withdrawn(j) : j \in D}

\* A Trace event reduced to s, with the jobs that leave the scheduler.
Withdraw(s, D) == st' = s /\ pending' = pending \ D /\ started' = started \ D

\* A Trace event with the jobs it discards.
Observe(s, D) == Withdraw(s, D) /\ owed' = Discards(D)

\* A final record of job j: it leaves the scheduler, which looks at no other job.  The
\* record carries the epoch of the job into the ThreadState.
Close(j) == Withdraw(Rebased(st, target[j].epoch), {j})

Settled == conn # "off" /\ owed = {}
Online == conn = "ready" /\ owed = {}

-----------------------------------------------------------------------------
(***************************************************************************)
(* The thread, as the daemon observes it.                                  *)
(***************************************************************************)
TurnStarts ==
    /\ Online /\ latest < MaxTurn
    /\ latest = NoTurn \/ st.active # latest
    /\ latest' = latest + 1
    /\ LET s == Started(st, latest + 1, epoch) IN Observe(s, Stranded(s))
    /\ UNCHANGED <<conn, epoch, lives, target, seen, journal, executor>>

TurnAnswers ==
    /\ Online /\ latest \in Turns \ st.completed
    /\ LET s == Answered(st, latest, epoch) IN Observe(s, Stranded(s))
    /\ UNCHANGED <<thread, target, seen, journal, executor>>

\* turn_completed discards every job of the thread.
TurnEnds ==
    /\ Online /\ latest \in Turns \ st.completed
    /\ Observe(Completed(st, latest, epoch), pending)
    /\ UNCHANGED <<thread, target, seen, journal, executor>>

Disconnect ==
    /\ Online
    /\ conn' = "down"
    /\ UNCHANGED <<latest, epoch, lives, st, scheduler, journal, owed, executor>>

\* observation_gap discards every job of the thread.
DroppedAtGap(turn) == pending

\* The gap and the reconciled thread.  While the daemon looked away a turn may have ended and
\* the next one started.
Reconnect ==
    /\ conn = "down" /\ owed = {} /\ epoch < MaxEpoch
    /\ conn' = "ready" /\ epoch' = epoch + 1
    /\ \E turn \in (({NoTurn, latest} \ st.completed) \cup {latest + 1}) \cap (0 .. MaxTurn) :
          /\ latest' = IF turn > latest THEN turn ELSE latest
          /\ Observe(Reconciled(st, turn, epoch + 1), DroppedAtGap(turn))
    /\ UNCHANGED <<lives, target, seen, journal, executor>>

-----------------------------------------------------------------------------
(***************************************************************************)
(* Signals.                                                                *)
(***************************************************************************)

\* A job is bound to the turn and the connection of its candidates, and never moves on.
Bound(turn) == [turn |-> turn, epoch |-> epoch]

\* Its first record.
Raised(j, live) == <<j, IF live THEN "queued" ELSE "discarded">>

\* Mutant: a signal that was already reviewed is scheduled again.
SignalAgain(j, turn) ==
    /\ Online /\ j \notin pending
    /\ target' = [target EXCEPT ![j] = Bound(turn)]
    /\ seen' = seen \cup {j}
    /\ st' = Rebased(st, epoch)
    /\ IF st'.active = turn /\ st'.answer # turn
       THEN pending' = pending \cup {j} /\ owed' = {Raised(j, TRUE)}
       ELSE pending' = pending /\ owed' = {Raised(j, FALSE)}
    /\ UNCHANGED <<thread, started, journal, executor>>

\* An event of a turn raises a new signal: the job is queued, or discarded at once unless the
\* turn is the live one and has no final answer.
Signal(j, turn) ==
    /\ Online /\ j \notin seen
    /\ target' = [target EXCEPT ![j] = Bound(turn)]
    /\ seen' = seen \cup {j}
    /\ st' = Rebased(st, epoch)
    /\ LET dropped == Stranded(st')
           live == st'.active = turn /\ st'.answer # turn
       IN  /\ pending' = (pending \ dropped) \cup (IF live THEN {j} ELSE {})
           /\ started' = started \ dropped
           /\ owed' = Discards(dropped) \cup {Raised(j, live)}
    /\ UNCHANGED <<thread, journal, executor>>

\* The signal of a pending job is resolved or goes stale.
Resolve(j) ==
    /\ Online /\ j \in pending
    /\ LET s == Rebased(st, epoch) IN Observe(s, {j} \cup Stranded(s))
    /\ UNCHANGED <<thread, target, seen, journal, executor>>

\* The transitions are appended, and a queued job is submitted to the executor, which starts
\* its worker again if that had died.
Append ==
    /\ conn # "off" /\ owed # {}
    /\ journal' = journal \cup owed /\ owed' = {}
    /\ LET new == {j \in Jobs : <<j, "queued">> \in owed}
       IN  /\ queue' = queue \cup new
           /\ stage' = IF new # {} /\ stage = "dead" THEN "idle" ELSE stage
    /\ UNCHANGED <<thread, st, scheduler, running, runs, delivered>>

-----------------------------------------------------------------------------
(***************************************************************************)
(* The executor's worker.                                                  *)
(***************************************************************************)

\* Mutant: whether the scheduler still holds the job is not looked at.
FreshTarget(j) == st.epoch = target[j].epoch /\ st.active = target[j].turn /\ st.answer # target[j].turn

\* review_job_is_fresh().
Fresh(j) ==
    /\ j \in pending
    /\ st.epoch = target[j].epoch /\ st.active = target[j].turn /\ st.answer # target[j].turn

\* Mutant: a job that is no longer fresh keeps its place in the queue.
SkipKeeps(j) ==
    /\ Settled /\ stage = "idle" /\ j \in queue /\ ~Fresh(j)
    /\ UNCHANGED vars

\* A job that is no longer fresh is dropped without a word.
Skip(j) ==
    /\ Settled /\ stage = "idle" /\ j \in queue /\ ~Fresh(j)
    /\ queue' = queue \ {j}
    /\ UNCHANGED <<thread, st, scheduler, journal, owed, running, stage, runs, delivered>>

\* The budget refuses: reached, or unreadable.
Refuse(j, end) ==
    /\ Settled /\ stage = "idle" /\ j \in queue /\ Fresh(j)
    /\ queue' = queue \ {j}
    /\ journal' = journal \cup {<<j, end>>}
    /\ Close(j)
    /\ UNCHANGED <<thread, target, seen, owed, running, stage, runs, delivered>>

\* The budget grants a slot and the model call starts.
Infer(j) ==
    /\ Settled /\ stage = "idle" /\ j \in queue /\ Fresh(j)
    /\ queue' = queue \ {j}
    /\ running' = j /\ stage' = "inferring"
    /\ runs' = [runs EXCEPT ![j] = @ + 1]
    /\ journal' = journal \cup {<<j, "started">>}
    /\ started' = started \cup {j}
    /\ UNCHANGED <<thread, st, target, seen, pending, owed, delivered>>

Busy(doing) == Settled /\ stage = doing
Free == running' = NoJob /\ stage' = "idle"

\* _validate_target() of the advisory steer.
Deliverable(j) ==
    /\ conn = "ready" /\ target[j].epoch = epoch
    /\ st.ready /\ st.epoch = epoch /\ st.active = target[j].turn /\ st.answer # target[j].turn

\* The review ends in a decision.  A nudge may leave a would_interrupt record: any record after
\* the decision lets the scheduler look at the other jobs.  A fresh VERIFY or NUDGE is sent at
\* once, unless the control target is refused.
Decide(speaks, shadow) ==
    /\ Busy("inferring")
    /\ LET s == Rebased(st, target[running].epoch)
           speak == speaks /\ Fresh(running)
           sent == speak /\ Deliverable(running)
           refused == speak /\ ~sent
           dropped == IF shadow \/ refused THEN Stranded(s) \ {running} ELSE {}
       IN  /\ Withdraw(s, dropped \cup {running}) /\ owed' = Discards(dropped)
           /\ journal' = journal \cup {<<running, "decision">>}
                \cup (IF refused THEN {<<running, "undelivered">>} ELSE {})
           /\ IF sent THEN delivered' = delivered \cup {running} /\ stage' = "delivering"
                           /\ UNCHANGED running
                      ELSE Free /\ UNCHANGED delivered
    /\ UNCHANGED <<thread, target, seen, queue, runs>>

\* The review fails; what it cost is still recorded.
Fail ==
    /\ Busy("inferring")
    /\ Close(running)
    /\ journal' = journal \cup {<<running, "error">>}
    /\ Free
    /\ UNCHANGED <<thread, target, seen, owed, queue, runs, delivered>>

\* The ledger became unreadable during the review: settle() refuses, charge() raises, and the
\* worker ends with nothing recorded.
LoseCharge ==
    /\ Busy("inferring")
    /\ running' = NoJob /\ stage' = "dead"
    /\ UNCHANGED <<thread, st, scheduler, journal, owed, queue, runs, delivered>>

\* The steer was accepted.
Acknowledge ==
    /\ Busy("delivering")
    /\ Free
    /\ UNCHANGED <<thread, st, scheduler, journal, owed, queue, runs, delivered>>

\* The steer was refused or its outcome is unknown.
Undeliver ==
    /\ Busy("delivering")
    /\ LET s == Rebased(st, target[running].epoch) IN Observe(s, Stranded(s))
    /\ journal' = journal \cup {<<running, "undelivered">>}
    /\ Free
    /\ UNCHANGED <<thread, target, seen, queue, runs, delivered>>

-----------------------------------------------------------------------------
(***************************************************************************)
(* The process.                                                            *)
(***************************************************************************)
Off ==
    /\ conn' = "off"
    /\ queue' = {} /\ running' = NoJob /\ stage' = "idle"
    /\ UNCHANGED <<latest, epoch, lives, target, seen, runs, delivered>>

\* Killed, perhaps with transitions owed.
Crash == conn # "off" /\ Off /\ UNCHANGED <<st, pending, started, journal, owed>>

\* close() cancels the worker: a running review is paid for and recorded.
Shutdown ==
    /\ Settled /\ Off
    /\ IF stage = "inferring"
       THEN Close(running) /\ journal' = journal \cup {<<running, "error">>}
       ELSE UNCHANGED <<st, pending, started, journal>>
    /\ UNCHANGED owed

\* hydrate() derives what was owed from the journal, and which jobs are pending or started.
History == journal \cup owed
Ended == {j \in Jobs : \E end \in Ends : <<j, end>> \in History}
QueuedInHistory == {j \in Jobs : <<j, "queued">> \in History}

\* Mutant: that a review had started is forgotten.
NoneStarted == {}
StartedInHistory == {j \in Jobs : <<j, "started">> \in History} \ Ended

Restart ==
    /\ conn = "off" /\ lives < MaxLives
    /\ lives' = lives + 1 /\ conn' = "down"
    /\ st' = Hydrated(st)
    /\ pending' = QueuedInHistory \ Ended
    /\ started' = StartedInHistory
    /\ journal' = History /\ owed' = {}
    /\ UNCHANGED <<latest, epoch, target, seen, executor>>

-----------------------------------------------------------------------------
Worker ==
    \/ \E j \in Jobs : Skip(j) \/ Infer(j) \/ \E end \in {"error", "capped"} : Refuse(j, end)
    \/ \E speaks, shadow \in BOOLEAN : Decide(speaks, shadow)
    \/ Fail \/ LoseCharge \/ Acknowledge \/ Undeliver

Next ==
    \/ TurnStarts \/ TurnAnswers \/ TurnEnds \/ Disconnect \/ Reconnect
    \/ \E j \in Jobs : Resolve(j) \/ \E turn \in Turns : turn <= latest /\ Signal(j, turn)
    \/ Append
    \/ Worker
    \/ Crash \/ Shutdown \/ Restart

Spec == Init /\ [][Next]_vars

\* The event loop runs what is ready, and model calls and RPCs time out.
FairSpec == Spec /\ WF_vars(Append) /\ WF_vars(Worker)
-----------------------------------------------------------------------------
(***************************************************************************)
(* Properties.                                                             *)
(***************************************************************************)

\* An advisory is never sent for a job that was withdrawn, whether its turn ended, was
\* answered or lost its connection, or its signal resolved, while the review ran.
WithdrawnNeverSpeaks ==
    \A j \in delivered : {<<j, "discarded">>, <<j, "stale">>} \cap History = {}

\* A job is paid for once, through reconnects, restarts and signals raised again.
InferredOnce == \A j \in Jobs : runs[j] <= 1

\* "discarded" says that no review was paid for: it is never the end of a started job, also
\* when the process that started it is gone.
DiscardedIsFree ==
    \A j \in Jobs : ~({<<j, "started">>, <<j, "discarded">>} \subseteq History)

\* No job of an older connection outlives the reconciliation of the next one.
PendingThisConnection ==
    conn = "ready" => \A j \in pending : target[j].epoch = epoch

\* The worker serves every queued job while it lives, in spite of failing reviews, refused
\* budgets and refused deliveries.
QueueServed == \A j \in Jobs : j \in queue ~> (j \notin queue \/ stage = "dead")

\* The architecture promises that "late results from an older connection are rejected".  The
\* code records them with their own epoch, and the ThreadState follows it back.
EpochNeverRegresses == [][st'.epoch >= st.epoch]_vars
=============================================================================
