------------------------------- MODULE MCSignals -------------------------------
(***************************************************************************)
(* Small instances of SignalRecovery.  `focus` says which events a thread  *)
(* sees besides the ends of its turns, reconnects, late reviews and        *)
(* telemetry, and so which families of signals its streaks are of.         *)
(***************************************************************************)
EXTENDS SignalRecovery

VARIABLE focus
mcVars == <<signalVars, focus>>

MCCovers == [p \in {"dir", "f", "g", "h"} |-> IF p = "dir" THEN {"f", "g"} ELSE {p}]

Says(kind) == [Blank EXCEPT !.kind = kind]
Result(kind, failed, on) == [Says(kind) EXCEPT !.failed = failed, !.on = on]
Call(failed, args, read) == [Result("tool_result", failed, {"t"}) EXCEPT !.args = args, !.read = read]
Timing(level) == [Result("command_result", "no", {"a"}) EXCEPT !.level = level]
Edit(f) == [Result("file_edit", "no", {}) EXCEPT !.files = {f}]
Test(scopes) == [Result("test_result", "no", {}) EXCEPT !.scopes = scopes]
Prompt(scopes, own) == [Says("user_prompt") EXCEPT !.scopes = scopes, !.own = own]
Hypothesizes(refs) == [Says("hypothesis") EXCEPT !.refs = refs]
Verifies(kind, target) == [Says(kind) EXCEPT !.condition = "c", !.target = target]
Tokens(level) == [Says("token_usage") EXCEPT !.level = level]

Seen ==
    [failures |-> {Result("command_result", "yes", {"a"}), Result("command_result", "no", {"a"}),
                   Result("test_result", "yes", {}), Result("file_edit", "unknown", {})},
     tools |-> {Call("no", 1, None), Call("no", 1, 1), Call("no", 1, 2), Call("yes", 1, None),
                [Says("diff_updated") EXCEPT !.files = {"f"}]},
     edits |-> {Edit("f"), Edit("g"), Edit("h"), Test({"dir"}), Test({}),
                Prompt({"h"}, FALSE), Prompt({}, TRUE)},
     evidence |-> {Result("command_result", "no", {}), Hypothesizes({1}), Hypothesizes({2}),
                   [Says("evidence_invalidated") EXCEPT !.target = 1],
                   Verifies("verification_condition", None),
                   Verifies("verification_satisfied", 1), Verifies("verification_satisfied", 3),
                   [Says("tool_started") EXCEPT !.refs = {2, 3}, !.operation = "o"]},
     budgets |-> {Tokens(50), Tokens(90), Timing(1), Timing(3)},
     blocks |-> {[Says("deterministic_gate_block") EXCEPT !.on = {k}] : k \in {"a", "b", "c"}}
                \cup {Says("thread_started")}]

MCAlphabet == UNION {Seen[f] : f \in DOMAIN Seen}

MCInit == SignalInit /\ focus \in DOMAIN Seen

Observed == (\E e \in Seen[focus] : Observe(e)) \/ EndTurn \/ Reconnect \/ LateReview

MCNext == (Observed \/ Daemon) /\ turn' <= 2 /\ epoch' <= 2 /\ UNCHANGED focus

MCSpec == MCInit /\ [][MCNext]_mcVars
=============================================================================
