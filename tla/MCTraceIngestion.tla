--------------------------- MODULE MCTraceIngestion ---------------------------
(***************************************************************************)
(* Small instances of TraceIngestion and of StepJournal: `writers` says    *)
(* whether the journal is that of a thread the daemon observes, or that of *)
(* a session whose Hooks, processes of their own, append to it, or one of  *)
(* which only effects and their resolutions are looked at.                 *)
(***************************************************************************)
EXTENDS TraceIngestion, EffectLedger, TLC

CONSTANTS u1, shell, network

Note(kind, turn, op, life, outcome, at) ==
    [kind |-> kind, turn |-> turn, op |-> op, life |-> life, outcome |-> outcome, at |-> at]

MCNotifications ==
    { Note("thread_started", NoTurn, NoOp, None, None, 0),
      Note("turn_started", u1, NoOp, None, None, 0),
      Note("turn_completed", u1, NoOp, None, "completed", 0),
      Note("turn_completed", u1, NoOp, None, "interrupted", 0),
      Note("item", u1, shell, "started", None, 2),
      Note("item", u1, shell, "completed", "ok", 1),
      Note("item", u1, shell, "completed", "failed", 2) }

\* One completion, described twice with different times.
MCRedelivered ==
    { Note("item", u1, shell, "completed", "ok", 1), Note("item", u1, shell, "completed", "ok", 2) }

MCControls == {Note("control", u1, NoOp, None, None, 0)}
MCClass == shell :> "B"
HookEvent == Event(Note("hook", NoTurn, NoOp, None, None, 0))

\* What is observed of two operations, and of one without an id.
MCReports ==
    {Attempted(id) : id \in {shell, network}}
    \cup {Result(shell, seen) : seen \in {"partial", "success", "exit_zero"}}
    \cup {Result(network, "failure"), Result(None, "success")}

-----------------------------------------------------------------------------

VARIABLE writers
mcVars == <<vars, effectRecords, writers>>

MCInit == Init /\ LedgerInit /\ writers \in {"daemon", "hooks", "effects"}

HookNext ==
    /\ \E w \in Writers :
          \/ \E snap \in BOOLEAN : Open(w, HookEvent, snap)
          \/ Write(w) \/ Cache(w) \/ Leave(w)
          \/ Die({w})
    /\ UNCHANGED ingestVars

MCNext ==
    /\ UNCHANGED writers
    /\ \/ writers = "daemon" /\ IngestNext /\ UNCHANGED effectRecords
       \/ writers = "hooks" /\ HookNext /\ UNCHANGED effectRecords
       \/ writers = "effects" /\ LedgerNext /\ UNCHANGED vars

MCSpec == MCInit /\ [][MCNext]_mcVars
=============================================================================
