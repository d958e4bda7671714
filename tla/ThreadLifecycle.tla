--------------------------- MODULE ThreadLifecycle ---------------------------
(***************************************************************************)
(* The part of ThreadState (src/spotter/thread_state.py) that control      *)
(* decisions read, and how ThreadStateReducer changes it on each kind of   *)
(* Trace event.  Evidence, workspace and coverage are left out: no control *)
(* decision reads them.                                                    *)
(***************************************************************************)
EXTENDS Naturals

CONSTANT MaxTurn    \* bound: turns are numbered 1..MaxTurn in the order they start

ASSUME TurnAssumption == MaxTurn \in Nat

Turns == 1 .. MaxTurn
NoTurn == 0

ThreadStates ==
    [epoch : Nat,                    \* connection_epoch, 0 before the first event
     active : Turns \cup {NoTurn},   \* active_turn_id
     ready : BOOLEAN,                \* control_ready
     completed : SUBSET Turns,       \* execution.completed_turns
     answer : Turns \cup {NoTurn}]   \* the turn of execution.terminal_answer

Unobserved ==
    [epoch |-> 0, active |-> NoTurn, ready |-> FALSE, completed |-> {}, answer |-> NoTurn]

\* Every event of another epoch first drops what only the old connection vouched for.
Rebased(st, epoch) ==
    IF st.epoch = epoch THEN st
    ELSE [st EXCEPT !.epoch = epoch, !.active = NoTurn, !.ready = FALSE]

\* turn_started.  A late start of a completed turn is dropped by the ingestor already,
\* before anything is reduced.
Started(st, turn, epoch) ==
    IF turn \in st.completed THEN st
    ELSE [Rebased(st, epoch) EXCEPT !.active = turn,
                                    !.answer = IF @ = turn THEN turn ELSE NoTurn]

\* agent_message: a completed final answer.
Answered(st, turn, epoch) == [Rebased(st, epoch) EXCEPT !.answer = turn]

\* turn_completed, whatever turn was active.
Completed(st, turn, epoch) ==
    [Rebased(st, epoch) EXCEPT !.active = NoTurn, !.ready = FALSE, !.completed = @ \cup {turn}]

\* runtime_reconciled, from the thread/resume reply (turn is NoTurn if none is active).
Reconciled(st, turn, epoch) ==
    [Rebased(st, epoch) EXCEPT !.active = turn, !.ready = turn # NoTurn]

\* runtime_attachment_unavailable, of a thread thread/list did not return.
Unavailable(st, epoch) == [Rebased(st, epoch) EXCEPT !.active = NoTurn, !.ready = FALSE]

\* hydrate(): durable history never makes an old turn active or controllable.
Hydrated(st) == [st EXCEPT !.active = NoTurn, !.ready = FALSE]
=============================================================================
