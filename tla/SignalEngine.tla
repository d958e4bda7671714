----------------------------- MODULE SignalEngine -----------------------------
(***************************************************************************)
(* SignalEngine (src/spotter/signals.py) for one thread: nine families of  *)
(* streaks, each of which Trace events extend, resolve or make stale.  The *)
(* first candidate of a streak is active, the following ones are cooled    *)
(* down; a streak that never reached its threshold ends in silence.        *)
(*                                                                         *)
(* Events are those of ThreadEvidence.                                     *)
(***************************************************************************)
EXTENDS ThreadEvidence

CONSTANTS
    FailureThreshold, ToolThreshold, ReadThreshold, ScopeThreshold, EditThreshold,
    ContextThreshold,   \* percent
    DurationFactor,     \* percent
    BaselineSamples, BaselineLimit, FrontierLimit, ScopeLimit, BlockLimit

ASSUME EngineAssumption ==
    /\ {FailureThreshold, ToolThreshold, ReadThreshold, ScopeThreshold, EditThreshold}
          \subseteq Nat \ {0, 1}
    /\ ContextThreshold \in 1..100 /\ DurationFactor \in Nat /\ DurationFactor > 100
    /\ BaselineSamples \in Nat \ {0} /\ BaselineLimit >= BaselineSamples

Outcomes == {"command_result", "tool_result", "file_edit", "test_result"}
Terminal == {"observation_gap", "runtime_attachment_unavailable", "thread_archived",
             "thread_closed", "thread_deleted", "turn_completed"}
FrontierResets == {"command_result", "diff_updated", "evidence_invalidated", "file_edit",
                   "file_read", "hypothesis", "reasoning_summary", "search", "test_result",
                   "verification_satisfied"}
CausalActions == {"command_started", "file_change_started", "tool_proposal", "tool_started"}

Fresh == [streaks |-> {}, frontier |-> None, scope |-> None, baselines |-> {}, seen |-> {}]

-----------------------------------------------------------------------------
(***************************************************************************)
(* Streaks and candidates.                                                 *)
(***************************************************************************)
\* _signal_id(): the event that started it makes a streak unique.
New(family, key, e, count, on) ==
    [family |-> family, key |-> key, signal |-> <<family, key, e.id>>, turn |-> e.turn,
     epoch |-> e.epoch, count |-> count, on |-> on, emitted |-> FALSE]

Candidate(s, status, e) == [signal |-> s.signal, status |-> status, source |-> e.id]

Keep(S) == [now |-> S, out |-> {}]

\* _finish()
End(S, status, e) ==
    [now |-> {}, out |-> {Candidate(s, status, e) : s \in {s \in S : s.emitted}}]

Together(results) == [now |-> UNION {r.now : r \in results}, out |-> UNION {r.out : r \in results}]
Both(a, b) == Together({a, b})

\* Mutant: the streak is not marked as emitted.
RaisedAgain(s, threshold, e) ==
    [now |-> {s},
     out |-> IF s.count < threshold THEN {}
             ELSE {Candidate(s, IF s.emitted THEN "cooled_down" ELSE "active", e)}]

Raised(s, threshold, e) ==
    IF s.count < threshold THEN Keep({s})
    ELSE [now |-> {[s EXCEPT !.emitted = TRUE]},
          out |-> {Candidate(s, IF s.emitted THEN "cooled_down" ELSE "active", e)}]

\* One more event of the key: the streak of the key counts it, or a new one starts.
Counted(S, family, key, on, threshold, e) ==
    LET same == {s \in S : s.key = key}
    IN  IF same = {} THEN Raised(New(family, key, e, 1, on), threshold, e)
        ELSE LET s == CHOOSE s \in same : TRUE
             IN  Raised([s EXCEPT !.count = @ + 1, !.on = @ \cup on], threshold, e)

\* The streak is about a level, not a count.
Levelled(S, family, key, on, level, threshold, e) ==
    LET same == {s \in S : s.key = key}
    IN  IF same = {} THEN Raised(New(family, key, e, level, on), threshold, e)
        ELSE Raised([(CHOOSE s \in same : TRUE) EXCEPT !.count = level], threshold, e)

\* The streak is about the resources it has gathered, up to a limit.
Gathered(S, family, new, threshold, e) ==
    LET old == UNION {s.on : s \in S}
        wanted == old \cup new
        on == IF Cardinality(wanted) <= ScopeLimit THEN wanted
              ELSE CHOOSE T \in SUBSET wanted : old \subseteq T /\ Cardinality(T) = ScopeLimit
        size == Cardinality(on)
    IN  IF new \subseteq old \/ on = old THEN Keep(S)
        ELSE Raised(IF S = {} THEN New(family, <<family>>, e, size, on)
                    ELSE [(CHOOSE s \in S : TRUE) EXCEPT !.count = size, !.on = on], threshold, e)

\* _target_changed(), of streaks, frontiers, scopes and baselines alike
TargetChanged(r, e) ==
    \/ e.turn # r.turn
    \/ e.epoch # None /\ r.epoch # None /\ e.epoch # r.epoch

-----------------------------------------------------------------------------
(***************************************************************************)
(* The families: what an event makes of the streaks S of one family.       *)
(***************************************************************************)
Family(e) == [command_result |-> "command", file_edit |-> "file_change", test_result |-> "test",
              tool_result |-> "tool"][e.kind]

\* _equivalence(): a test without resources is about validation itself.
Equivalence(e) ==
    LET on == IF e.kind = "test_result" /\ e.on = {} THEN {"validation"} ELSE e.on
    IN  IF on = {} THEN None ELSE <<Family(e), on>>

Failures(S, e) ==
    LET key == Equivalence(e)
    IN  CASE e.kind \notin Outcomes -> Keep(S)
          [] e.kind \in Outcomes /\ (key = None \/ e.failed = "unknown") -> End(S, "stale", e)
          [] e.kind \in Outcomes /\ key # None /\ e.failed = "no" -> End(S, "resolved", e)
          [] OTHER -> Both(End({s \in S : s.key # key}, "stale", e),
                           Counted(S, "failures", key, e.on, FailureThreshold, e))

\* _tool_call_equivalence(): exactly one tool, with its arguments.
ToolKey(e) == IF Cardinality(e.on) = 1 /\ e.args # None THEN <<"tool", e.on, e.args>> ELSE None

RepeatedTool(S, e) ==
    CASE e.kind \notin Outcomes -> Keep(S)
      [] e.kind \in Outcomes \ {"tool_result"} -> End(S, "stale", e)
      [] e.kind = "tool_result" /\ (e.failed # "no" \/ ToolKey(e) = None) -> End(S, "stale", e)
      [] OTHER -> Both(End({s \in S : s.key # ToolKey(e)}, "stale", e),
                       Counted(S, "tools", ToolKey(e), e.on, ToolThreshold, e))

\* _read_observation()
Observation(e) == IF e.kind = "tool_result" /\ e.failed = "no" THEN e.read ELSE None
Known(frontier) == IF frontier = None THEN {} ELSE frontier.known

Reads(S, frontier, e) ==
    CASE Observation(e) = None -> IF e.kind \in FrontierResets \cup {"tool_result"}
                                  THEN End(S, "stale", e) ELSE Keep(S)
      [] Observation(e) # None /\ Observation(e) \notin Known(frontier) -> End(S, "stale", e)
      [] OTHER -> Counted(S, "reads", <<"known-resources">>, e.on, ReadThreshold, e)

\* What was read last is kept, and of the rest the greatest digests.
Expanded(frontier, e) ==
    IF Observation(e) \in {None} \cup Known(frontier) THEN frontier
    ELSE LET known == Known(frontier)
             kept == {o \in known : Cardinality({p \in known : p > o}) < FrontierLimit - 1}
         IN  [turn |-> e.turn, epoch |-> e.epoch, known |-> kept \cup {Observation(e)}]

\* A block of a key; the streak that started first makes room.
Blocks(S, e) ==
    IF e.kind # "deterministic_gate_block" \/ e.on = {} THEN Keep(S)
    ELSE LET key == <<"block", e.on>>
             full == Cardinality(S) >= BlockLimit /\ \A s \in S : s.key # key
             first == {s \in S : full /\ \A r \in S : s.signal[3] <= r.signal[3]}
         IN  Both(Both(Keep({s \in S \ first : s.key # key}), End(first, "stale", e)),
                  Counted(S, "blocks", key, e.on, 2, e))

Edits(e) == e.kind = "diff_updated" \/ (e.kind = "file_edit" /\ e.failed = "no")
Within(files, scopes) == {f \in files : \E p \in scopes : f \in Covers[p]}

ScopeGrowth(S, scope, e) ==
    CASE e.kind = "user_prompt" -> End(S, "stale", e)
      [] Edits(e) /\ scope # None ->
            Gathered(S, "scope", e.files \ Within(e.files, scope.paths), ScopeThreshold, e)
      [] OTHER -> Keep(S)

Declared(scope, e) ==
    CASE e.kind # "user_prompt" -> scope
      [] e.kind = "user_prompt" /\ e.scopes = {} -> None
      [] OTHER -> [turn |-> e.turn, epoch |-> e.epoch, paths |-> e.scopes]

\* A passed test takes the files it covers out; those left start a streak of their own.
Validated(S, e) ==
    LET s == CHOOSE s \in S : TRUE
        left == s.on \ Within(s.on, e.scopes)
    IN  CASE left = s.on -> Keep(S)
          [] left # s.on /\ Cardinality(left) >= EditThreshold ->
                Raised([s EXCEPT !.count = Cardinality(left), !.on = left], EditThreshold, e)
          [] OTHER -> Both(End(S, "resolved", e),
                           IF left = {} THEN Keep({})
                           ELSE Keep({New("edits", <<"edits">>, e, Cardinality(left), left)}))

UnvalidatedEdits(S, e) ==
    CASE e.kind = "test_result" /\ e.failed = "no" /\ S # {} /\ e.scopes # {} -> Validated(S, e)
      [] Edits(e) -> Gathered(S, "edits", e.files, EditThreshold, e)
      [] OTHER -> Keep(S)

\* stale: state.evidence.stale_hypothesis_ids
StaleReuse(S, e, stale) ==
    IF e.kind \notin CausalActions THEN Keep(S)
    ELSE LET used == e.refs \cap stale
             key(h) == <<"reuse", h>>
             one(h) == Counted(S, "reuse", key(h), {ToString(h)} \cup e.on, 1, e)
         IN  Both(Keep({s \in S : \A h \in used : s.key # key(h)}),
                  Together({one(h) : h \in used}))

ContextBudget(S, e) ==
    CASE e.kind # "token_usage" \/ e.turn = None \/ e.level = None -> Keep(S)
      [] e.kind = "token_usage" /\ e.level < ContextThreshold -> End(S, "resolved", e)
      [] OTHER -> Levelled(S, "context", <<"context-window">>, {"context-window"},
                           e.level, ContextThreshold, e)

\* median() of a sequence
Median(values) ==
    LET n == Len(values)
        below(v) == Cardinality({i \in 1..n : values[i] < v})
        upto(v) == Cardinality({i \in 1..n : values[i] <= v})
        at(k) == CHOOSE v \in {values[i] : i \in 1..n} : below(v) < k /\ k <= upto(v)
    IN  (at((n + 1) \div 2) + at(n \div 2 + 1)) \div 2

\* The baseline of the event's operation, what it says of the duration in percent (None: not
\* enough is known), and the baseline with this duration added.
Timed(e) == e.kind \in Outcomes /\ e.turn # None /\ e.level # None /\ e.on # {}
Baseline(B, e) == LET same == {b \in B : b.key = Equivalence(e)}
                  IN  IF same = {} THEN <<>> ELSE (CHOOSE b \in same : TRUE).values
Percent(B, e) ==
    LET values == Baseline(B, e)
    IN  IF Len(values) < BaselineSamples \/ Median(values) <= 0 THEN None
        ELSE (e.level * 100) \div Median(values)
Slow(B, e) == Percent(B, e) # None /\ Percent(B, e) >= DurationFactor
Sampled(B, e) ==
    IF ~Timed(e) \/ Slow(B, e) THEN B
    ELSE LET values == Append(Baseline(B, e), e.level)
         IN  {b \in B : b.key # Equivalence(e)} \cup
             {[key |-> Equivalence(e), turn |-> e.turn, epoch |-> e.epoch,
               values |-> IF Len(values) > BaselineLimit THEN Tail(values) ELSE values]}

DurationBudget(S, B, e) ==
    LET same == {s \in S : s.key = Equivalence(e)}
    IN  CASE ~Timed(e) \/ Percent(B, e) = None -> Keep(S)
          [] Timed(e) /\ Slow(B, e) ->
                Both(Keep(S \ same),
                     Levelled(S, "duration", Equivalence(e), e.on, Percent(B, e),
                              DurationFactor, e))
          [] OTHER -> Both(Keep(S \ same), End(same, "resolved", e))

-----------------------------------------------------------------------------
\* What the event's target or kind ends, whatever else it says, and what it leaves.
Over(r, e) == e.kind \in Terminal \/ TargetChanged(r, e)
Kept(r, e) == IF r = None \/ Over(r, e) THEN None ELSE r
Remaining(engine, e) ==
    [streaks |-> {s \in engine.streaks : ~Over(s, e)},
     frontier |-> Kept(engine.frontier, e), scope |-> Kept(engine.scope, e),
     baselines |-> {b \in engine.baselines : ~Over(b, e)}]

Families == {"failures", "tools", "reads", "blocks", "scope", "edits", "reuse",
             "context", "duration"}

Judged(family, rest, e, stale) ==
    LET S == {s \in rest.streaks : s.family = family}
    IN  CASE family = "failures" -> Failures(S, e)
          [] family = "tools" -> RepeatedTool(S, e)
          [] family = "reads" -> Reads(S, rest.frontier, e)
          [] family = "blocks" -> Blocks(S, e)
          [] family = "scope" -> ScopeGrowth(S, rest.scope, e)
          [] family = "edits" -> UnvalidatedEdits(S, e)
          [] family = "reuse" -> StaleReuse(S, e, stale)
          [] family = "context" -> ContextBudget(S, e)
          [] family = "duration" -> DurationBudget(S, rest.baselines, e)

Results(rest, e, stale) ==
    {Judged(family, rest, e, stale) : family \in IF e.kind \in Terminal THEN {} ELSE Families}

\* update(): what the event's target and kind end first, then every family.
Update(engine, e, stale) ==
    IF e.id = None \/ e.id \in engine.seen THEN [engine |-> engine, out |-> {}]
    ELSE
    LET rest == Remaining(engine, e)
        result == Together(Results(rest, e, stale))
    IN  [engine |-> [streaks |-> result.now,
                     frontier |-> Expanded(rest.frontier, e),
                     scope |-> Declared(rest.scope, e),
                     baselines |-> Sampled(rest.baselines, e),
                     seen |-> engine.seen \cup {e.id}],
         out |-> End(engine.streaks \ rest.streaks, "stale", e).out \cup result.out]
=============================================================================
