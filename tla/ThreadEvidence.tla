---------------------------- MODULE ThreadEvidence ----------------------------
(***************************************************************************)
(* What ThreadStateReducer (src/spotter/thread_state.py) keeps of a thread *)
(* besides its lifecycle (ThreadLifecycle): the goal, evidence and what    *)
(* rests on it, verification conditions, files touched and not validated,  *)
(* operations under way.  Texts and the bounded lists of recent outcomes   *)
(* are left out.  An event has                                             *)
(*   id, kind, turn, epoch                                                 *)
(*   failed    outcome_failure(): "yes", "no" or "unknown"                 *)
(*   on        its explicit resources; args: the arguments of a tool call  *)
(*   read      what a successful read returned, or None                    *)
(*   files     the files it touches; scopes: the paths a test validates,   *)
(*             or the paths a prompt names                                 *)
(*   refs      hypotheses an action is linked to, or what a hypothesis     *)
(*             rests on (depends_on and evidence_ids)                      *)
(*   level     tokens in percent of the window, or a duration              *)
(*   target    the item that is invalidated, or that satisfies a condition *)
(*   condition, operation                                                  *)
(*   own       a prompt that is Spotter's own advisory                     *)
(***************************************************************************)
EXTENDS Integers, Sequences, FiniteSets, TLC

CONSTANTS
    None,
    Covers  \* the files each path stands for: itself, or what is below it

Observations == {"command_result", "tool_result", "file_edit", "diff_updated", "search",
                 "test_result"}
Starts == {"command_started", "tool_started", "file_change_started"}

\* An observation_gap leaves the history partial.
NoEvidence ==
    [goal |-> None, items |-> <<>>, conditions |-> <<>>, stale |-> {},
     touched |-> {}, edits |-> {}, running |-> {}, validation |-> "unknown",
     history |-> "unknown", doubts |-> {}]

Blank == [id |-> None, kind |-> None, turn |-> None, epoch |-> None, failed |-> "unknown",
          on |-> {}, args |-> None, read |-> None, files |-> {}, scopes |-> {}, refs |-> {},
          level |-> None, target |-> None, condition |-> None, operation |-> None, own |-> FALSE]

-----------------------------------------------------------------------------
Item(kind, status, rests) == [kind |-> kind, status |-> status, rests |-> rests]
\* setdefault(): an item that is there stays.
Put(f, x, value) == [y \in DOMAIN f \cup {x} |-> IF y \in DOMAIN f THEN f[y] ELSE value]
Add(state, id, item) == [state EXCEPT !.items = Put(@, id, item)]

\* _inconsistent()
Doubt(state, what) ==
    IF what \in state.doubts THEN state
    ELSE [state EXCEPT !.doubts = @ \cup {what}, !.history = "partial"]

\* _workspace()
Touch(state, e) ==
    [state EXCEPT !.touched = @ \cup e.files,
                  !.edits = IF e.kind \in {"file_edit", "diff_updated"} THEN @ \cup e.files ELSE @]

Goal(state, e) ==
    LET said == IF state.goal = None THEN state
                ELSE Add(state, state.goal, Item("goal", "superseded", {}))
    IN  [said EXCEPT !.goal = e.id]

\* A hypothesis is stale from the start if it rests on a hypothesis known to be stale.
Hypothesis(state, e) ==
    LET stale == e.refs \cap state.stale # {}
        item == Item("hypothesis", IF stale THEN "stale" ELSE "active", e.refs)
    IN  [Add(state, e.id, item) EXCEPT !.stale = IF stale THEN @ \cup {e.id} ELSE @]

Condition(state, e) ==
    IF e.condition \in DOMAIN state.conditions
    THEN Doubt(state, <<"conflicting condition", e.condition>>)
    ELSE [state EXCEPT !.conditions = Put(@, e.condition, [status |-> "unmet", by |-> {}])]

IsEvidence(state, id) ==
    /\ id \in DOMAIN state.items
    /\ state.items[id].kind = "observation" /\ state.items[id].status = "active"

\* _satisfy_condition()
Satisfy(state, e) ==
    CASE ~IsEvidence(state, e.target) -> Doubt(state, <<"unknown evidence", e.target>>)
      [] IsEvidence(state, e.target) /\ e.condition \notin DOMAIN state.conditions ->
            Doubt(state, <<"unknown condition", e.condition>>)
      [] OTHER ->
            [Add(state, e.id, Item("fact", "active", {e.target}))
                EXCEPT !.conditions[e.condition] =
                          [status |-> "satisfied", by |-> @.by \cup {e.target}]]

\* What rests on an item, and on that, and so on.
RestsOn(state, id) ==
    LET ids == DOMAIN state.items
        closed(T) == id \in T /\ \A i \in ids : state.items[i].rests \cap T # {} => i \in T
    IN  {i \in ids : \A T \in SUBSET ids : closed(T) => i \in T}

\* Mutant: conditions keep what satisfied them.
InvalidateItems(state, e) ==
    LET gone == RestsOn(state, e.target)
    IN  [state EXCEPT
            !.items = [i \in DOMAIN @ |-> IF i \in gone THEN [@[i] EXCEPT !.status = "stale"]
                                          ELSE @[i]],
            !.stale = @ \cup {i \in gone : state.items[i].kind = "hypothesis"}]

\* _invalidate_evidence()
Invalidate(state, e) ==
    IF e.target \notin DOMAIN state.items THEN Doubt(state, <<"unknown evidence", e.target>>)
    ELSE LET gone == RestsOn(state, e.target)
         IN  [state EXCEPT
                !.items = [i \in DOMAIN @ |-> IF i \in gone THEN [@[i] EXCEPT !.status = "stale"]
                                              ELSE @[i]],
                !.conditions = [c \in DOMAIN @ |->
                                  IF @[c].by \cap gone # {}
                                  THEN [@[c] EXCEPT !.status = "invalidated"]
                                  ELSE @[c]],
                !.stale = @ \cup {i \in gone : state.items[i].kind = "hypothesis"}]

\* A passed test clears what it proves to have covered, whenever it was edited.
Cleared(state, e) ==
    IF e.failed # "no" THEN state.edits
    ELSE {f \in state.edits : \A p \in e.scopes : f \notin Covers[p]}

Outcome(state, e) ==
    [Add(state, e.id, Item("observation", "active", {}))
        EXCEPT !.running = @ \ {e.operation},
               !.edits = IF e.kind = "test_result" THEN Cleared(state, e) ELSE @,
               !.validation =
                    CASE e.kind = "test_result" ->
                            [yes |-> "failed", no |-> "passed", unknown |-> "unknown"][e.failed]
                      [] e.kind \in {"file_edit", "diff_updated"} /\ @ = "passed" -> "stale"
                      [] OTHER -> @]

\* _semantic()
Semantic(state, e) ==
    CASE e.kind = "user_prompt" -> IF e.own THEN state ELSE Goal(state, e)
      [] e.kind \in {"reasoning_summary", "hypothesis"} -> Hypothesis(state, e)
      [] e.kind = "verification_condition" -> Condition(state, e)
      [] e.kind = "verification_satisfied" -> Satisfy(state, e)
      [] e.kind = "evidence_invalidated" -> Invalidate(state, e)
      [] e.kind \in Starts -> [state EXCEPT !.running = @ \cup ({e.operation} \ {None})]
      [] e.kind \in Observations -> Outcome(state, e)
      [] e.kind = "turn_completed" -> [state EXCEPT !.running = {}]
      [] OTHER -> state

\* _coverage()
Coverage(state, e) ==
    CASE e.kind = "observation_gap" -> [state EXCEPT !.history = "partial"]
      [] e.kind = "thread_started" /\ state.history = "unknown" ->
            [state EXCEPT !.history = "complete"]
      [] OTHER -> state

ReduceEvidence(state, e) == Coverage(Semantic(Touch(state, e), e), e)

-----------------------------------------------------------------------------
\* A condition that counts as satisfied rests on evidence nothing has invalidated since.
Stands(state) ==
    \A c \in DOMAIN state.conditions :
        state.conditions[c].status = "satisfied"
        => \E i \in state.conditions[c].by : IsEvidence(state, i)

\* What rests on a stale item is stale.
Reaches(state) ==
    \A i, j \in DOMAIN state.items :
        state.items[i].status = "stale" /\ i \in state.items[j].rests
        => state.items[j].status = "stale"
=============================================================================
