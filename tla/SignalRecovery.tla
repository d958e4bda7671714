---------------------------- MODULE SignalRecovery ----------------------------
(***************************************************************************)
(* A thread's journal, and the ThreadState and SignalEngine the daemon     *)
(* keeps of it (src/spotter/runtime_connection.py): every event is         *)
(* journaled, reduced and evaluated, then the candidates it gives are      *)
(* journaled one by one.  Reviews of an earlier turn report through the    *)
(* same path; control telemetry is journaled by another thread, whenever   *)
(* the control ends, and reaches neither.  A daemon that is killed starts  *)
(* again from the journal, telemetry included, and appends the candidates  *)
(* that are missing.                                                       *)
(***************************************************************************)
EXTENDS SignalEngine, SequencesExt

CONSTANTS
    Alphabet,   \* what an event may say, before it is given an id, a turn and an epoch
    MaxEvents,  \* bound: events recorded
    MaxCrashes  \* bound: crashes

ASSUME RecoveryAssumption ==
    /\ MaxEvents \in Nat /\ MaxCrashes \in Nat
    /\ None \notin Nat
    /\ \A e \in Alphabet : DOMAIN e = DOMAIN Blank

VARIABLES
    journal,    \* events and candidates, in the order of the file
    engine,     \* SignalEngine
    state,      \* ThreadState
    due,        \* candidates not yet journaled
    up,         \* the daemon runs
    turn, epoch,    \* the agent's
    targets,    \* turn and epoch of every control: what telemetry may carry
    crashes         \* observer: how many there were

signalVars == <<journal, engine, state, due, up, turn, epoch, targets, crashes>>

IsEvent(record) == "kind" \in DOMAIN record
Events == {i \in DOMAIN journal : IsEvent(journal[i])}
NextId == Cardinality(Events) + 1

SignalInit ==
    /\ journal = <<>> /\ engine = Fresh /\ state = NoEvidence
    /\ due = {} /\ up = TRUE /\ turn = 1 /\ epoch = 1 /\ targets = {<<1, 1>>} /\ crashes = 0

-----------------------------------------------------------------------------
(***************************************************************************)
(* hydrate(): the records evaluated once more, in the order of the file.   *)
(***************************************************************************)
\* Mutant: without the ThreadState an event left behind.
ReplayStateless(got, record) ==
    IF ~IsEvent(record) THEN [got EXCEPT !.due = @ \ {record}]
    ELSE LET after == ReduceEvidence(got.state, record)
             result == Update(got.engine, record, {})
         IN  [engine |-> result.engine, state |-> after, due |-> got.due \cup result.out]

\* A candidate that was journaled is not missing.
Replay(got, record) ==
    IF ~IsEvent(record) THEN [got EXCEPT !.due = @ \ {record}]
    ELSE LET after == ReduceEvidence(got.state, record)
             result == Update(got.engine, record, after.stale)
         IN  [engine |-> result.engine, state |-> after, due |-> got.due \cup result.out]

HydratedJournal(records) ==
    LET run[n \in 0..Len(records)] ==
            IF n = 0 THEN [engine |-> Fresh, state |-> NoEvidence, due |-> {}]
            ELSE Replay(run[n - 1], records[n])
    IN  run[Len(records)]

-----------------------------------------------------------------------------
\* _record(): append, reduce, evaluate.
Record(e) ==
    /\ up /\ due = {} /\ NextId <= MaxEvents
    /\ journal' = Append(journal, e)
    /\ state' = ReduceEvidence(state, e)
    /\ LET result == Update(engine, e, state'.stale)
       IN  engine' = result.engine /\ due' = result.out
    /\ UNCHANGED <<up, crashes>>

Now(e) == [e EXCEPT !.id = NextId, !.turn = turn, !.epoch = epoch]
Plain(kind) == Now([Blank EXCEPT !.kind = kind])

\* A control may begin at any moment, with the turn and the epoch of then.
MoveTo(t, p) == turn' = t /\ epoch' = p /\ targets' = targets \cup {<<t, p>>}

Observe(e) == Record(Now(e)) /\ MoveTo(turn, epoch)

EndTurn == Record(Plain("turn_completed")) /\ MoveTo(turn + 1, epoch)

\* A new connection: the gap is recorded with its number.
Reconnect ==
    /\ Record([Plain("observation_gap") EXCEPT !.epoch = epoch + 1])
    /\ MoveTo(turn, epoch + 1)

\* The outcome of a review of the turn before, with the identity of its job.
LateReview ==
    /\ turn > 1
    /\ Record([Plain("reviewer_decision") EXCEPT !.turn = turn - 1])
    /\ MoveTo(turn, epoch)

\* _append_derived()
Derive ==
    /\ up /\ due # {}
    /\ \E candidate \in due :
          journal' = Append(journal, candidate) /\ due' = due \ {candidate}
    /\ UNCHANGED <<engine, state, up, turn, epoch, targets, crashes>>

\* append_operational(), in a worker thread and after the control's own awaits: the event
\* carries the turn and the epoch the control was for, whatever they are by now.  An accepted
\* interrupt that a killed daemon left open is settled by the next one.
Telemetry ==
    /\ up /\ NextId <= MaxEvents
    /\ \E t \in targets :
          journal' = Append(journal,
                            [Plain("control_terminal") EXCEPT !.turn = t[1], !.epoch = t[2]])
    /\ UNCHANGED <<engine, state, due, up, turn, epoch, targets, crashes>>

Crash ==
    /\ up /\ crashes < MaxCrashes
    /\ up' = FALSE /\ due' = {} /\ engine' = Fresh /\ state' = NoEvidence
    /\ crashes' = crashes + 1
    /\ UNCHANGED <<journal, turn, epoch, targets>>

\* __init__(): everything that is missing is journaled after the replay.
Boot ==
    /\ ~up
    /\ up' = TRUE
    /\ LET got == HydratedJournal(journal)
       IN  engine' = got.engine /\ state' = got.state /\ due' = got.due
    /\ UNCHANGED <<journal, turn, epoch, targets, crashes>>

Agent == (\E e \in Alphabet : Observe(e)) \/ EndTurn \/ Reconnect \/ LateReview
Daemon == Derive \/ Telemetry \/ Crash \/ Boot

SignalNext == Agent \/ Daemon

SignalSpec == SignalInit /\ [][SignalNext]_signalVars

-----------------------------------------------------------------------------
(***************************************************************************)
(* Properties.                                                             *)
(***************************************************************************)
Journaled(signal) ==
    SelectSeq(journal, LAMBDA r : ~IsEvent(r) /\ r.signal = signal)
Signals == {journal[i].signal : i \in DOMAIN journal \ Events}

\* Telemetry of a control that was for an earlier turn or connection than some event before
\* it: a replay takes it for the end of every streak, the live engine never heard of it.
Late ==
    {i \in Events :
        /\ journal[i].kind = "control_terminal"
        /\ \E j \in Events :
              /\ j < i /\ journal[j].kind \notin Terminal
              /\ journal[j].turn > journal[i].turn \/ journal[j].epoch > journal[i].epoch}

\* As long as no telemetry came late, a streak is announced once and ends once: whatever crash
\* and replay come between, its candidates in the journal are one active, then cooled down
\* ones, then at most one end.
AnnouncedOnce ==
    Late = {} =>
    \A signal \in Signals :
        LET told == {i \in DOMAIN journal \ Events : journal[i].signal = signal}
        IN  \A i \in told :
                /\ (\A j \in told : i <= j) <=> journal[i].status = "active"
                /\ (\E j \in told : i < j) => journal[i].status \in {"active", "cooled_down"}

\* Between two events a replay of the journal gives the live evidence; it gives the live
\* engine too, unless telemetry came late since the last boundary, so that a restart neither
\* re-arms a streak nor forgets one; and no candidate is missing, unless telemetry ever came late.
ReplayAgrees ==
    up /\ due = {} =>
        LET got == HydratedJournal(journal)
        IN  /\ got.state = state
            /\ (\A i \in Late : \E j \in Events : i < j /\ journal[j].kind \in Terminal)
               => [got.engine EXCEPT !.seen = engine.seen] = engine
            /\ Late = {} => got.due = {}

\* Conditions counted as verified rest on evidence that nothing has invalidated since, in
\* whatever order conditions, evidence and invalidations came.
SatisfiedStands == Stands(state)

\* "Success or a turn/epoch/gap boundary records resolved or stale": a streak of failures
\* that was announced in this turn and on this connection ends with an outcome or a boundary.
StreakEndsAtBoundary ==
    [][ \A s \in engine.streaks :
          s.family = "failures" /\ s.emitted /\ up'
          /\ (\A r \in engine'.streaks : r.signal # s.signal)
          => /\ Len(journal') > Len(journal)
             /\ Last(journal').kind \in Outcomes \cup Terminal \/ Last(journal').turn = turn ]_signalVars

\* "Recovery reconstructs cooldown state": what the live engine has announced and not ended is
\* there after a restart, with its count and its target.
CooldownSurvives ==
    up /\ due = {} =>
        \A s \in engine.streaks : s.emitted => s \in HydratedJournal(journal).engine.streaks

\* "When evidence is invalidated, downstream conclusions should become stale rather than
\* remaining silently authoritative".
InvalidationReaches == Reaches(state)
=============================================================================
