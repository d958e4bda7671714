----------------------------- MODULE EffectLedger -----------------------------
(***************************************************************************)
(* The ledger of effects a local restore cannot undo, as external_effects  *)
(* (src/spotter/effects.py) projects it from a journal: observations of    *)
(* one operation, which two transports and a restart may bring in any      *)
(* order and more than once, merged into one entry, and the resolutions an *)
(* operator appended, applied to what came out.  The journal is what the   *)
(* ledger reads of it: effects that were observed, and what `spotter       *)
(* effects resolve` appends after it looked its targets up in the ledger.  *)
(***************************************************************************)
EXTENDS Naturals, Sequences, FiniteSets

CONSTANTS
    Ids,        \* the ids an operation gives its effect
    NoEffect,   \* no id, or no entry
    Reports,    \* what may be observed of the operations
    MaxEffects  \* bound: records of effects and resolutions

Outcomes == {"succeeded", "failed", "partial", "unknown"}
Resolutions == {"reversed", "compensated", "reconciled_present", "reconciled_absent",
                "still_unresolved"}

\* An observation: of an operation that started, or of a result.  Without an operation id
\* the effect is correlated by its content, and never merged.
Observation(id, evidence, outcome) ==
    [kind |-> "external_effect", id |-> id, exact |-> id # NoEffect, evidence |-> evidence,
     outcome |-> outcome]
Attempted(id) == Observation(id, "operation_started", "unknown")

\* _effect_outcome: a partial or explicit result is one, an exit code of zero is not.
Result(id, seen) ==
    CASE seen = "partial" -> Observation(id, "partial_result", "partial")
      [] seen = "failure" -> Observation(id, "explicit_failure", "failed")
      [] seen = "success" -> Observation(id, "explicit_success", "succeeded")
      [] seen = "exit_zero" -> Observation(id, "exit_zero_only", "unknown")
      [] OTHER -> Observation(id, "no_conclusive_result", "unknown")

Findings == {"partial", "failure", "success", "exit_zero", "nothing"}
Observables ==
    {Attempted(id) : id \in Ids \cup {NoEffect}} \cup
    {Result(id, seen) : id \in Ids \cup {NoEffect}, seen \in Findings}

ASSUME LedgerAssumption ==
    NoEffect \notin Ids /\ Reports \subseteq Observables /\ MaxEffects \in Nat

\* effect_resolution_event refuses a compensation without a related effect, and an effect
\* related to itself.
Resolution(id, value, related) ==
    [kind |-> "effect_resolution", id |-> id, value |-> value, related |-> related]
Admissible(r) ==
    /\ r.value \in Resolutions
    /\ r.value = "compensated" => r.related # NoEffect
    /\ r.related # r.id
Decisions ==
    {Resolution(id, value, related) : id \in Ids, value \in Resolutions,
                                      related \in Ids \cup {NoEffect}}

-----------------------------------------------------------------------------
(* Merging.                                                                *)

Terminal(o) == o.evidence # "operation_started"

\* An entry is its first observation until another is merged into it.
Entry(o) ==
    [id |-> o.id, exact |-> o.exact, evidence |-> o.evidence, outcome |-> o.outcome,
     lifecycle |-> IF Terminal(o) THEN "completed" ELSE "attempted",
     observed |-> {}, count |-> 1, resolution |-> NoEffect, resolved |-> FALSE, history |-> <<>>]

\* What was observed of an entry, without what an attempt cannot tell.
Observed(previous) == IF previous.observed # {} THEN previous.observed ELSE {previous.outcome}

\* Mutant: an attempt counts as an outcome of its own.
SeenOrAttempted(previous, o) == Observed(previous) \cup {o.outcome}

Seen(previous, o) ==
    ((Observed(previous) \cup {o.outcome})
        \ (IF Terminal(previous) THEN {} ELSE {previous.outcome}))
        \ (IF Terminal(o) THEN {} ELSE {o.outcome})

Merged(previous, o) ==
    LET kept == Terminal(previous) /\ ~Terminal(o)
        seen == Seen(previous, o)
        base == [previous EXCEPT
                    !.evidence = IF kept THEN @ ELSE o.evidence,
                    !.outcome = IF kept THEN @ ELSE o.outcome,
                    !.count = @ + 1,
                    !.lifecycle = IF Terminal(previous) \/ Terminal(o) THEN "completed"
                                  ELSE "attempted"]
    IN  IF Cardinality(seen) > 1
        THEN [base EXCEPT !.evidence = "conflicting_observations", !.outcome = "unknown",
                          !.observed = seen]
        ELSE base

Known(entries, id) == \E i \in DOMAIN entries : entries[i].exact /\ entries[i].id = id
PlaceOf(entries, id) == CHOOSE i \in DOMAIN entries : entries[i].exact /\ entries[i].id = id

Observe(entries, o) ==
    IF o.exact /\ Known(entries, o.id)
    THEN [entries EXCEPT ![PlaceOf(entries, o.id)] = Merged(@, o)]
    ELSE Append(entries, Entry(o))

-----------------------------------------------------------------------------
(* Resolutions.                                                            *)

\* A compensation is verified by the effect it names.
Verified(entries, r) == r.value = "compensated" => Known(entries, r.related)

Settles(entries, r) ==
    Verified(entries, r) /\ r.value \in {"reversed", "compensated", "reconciled_absent"}

Resolve(entries, r) ==
    IF r.value \in Resolutions /\ Known(entries, r.id)
    THEN LET place == PlaceOf(entries, r.id)
             entry == [entries[place] EXCEPT !.resolution = r.value,
                          !.resolved = Settles(entries, r), !.history = Append(@, r)]
         IN  [entries EXCEPT ![place] = entry]
    ELSE entries

\* One pass over the records of a kind, in the order of the journal.
Applied(kind, entries, r) ==
    CASE r.kind # kind -> entries
      [] r.kind = kind /\ kind = "external_effect" -> Observe(entries, r)
      [] OTHER -> Resolve(entries, r)
Pass(kind, entries, records) ==
    LET run[n \in 0..Len(records)] ==
            IF n = 0 THEN entries ELSE Applied(kind, run[n - 1], records[n])
    IN  run[Len(records)]

\* external_effects: every observation first, then every resolution.
ExternalEffects(records) ==
    Pass("effect_resolution", Pass("external_effect", <<>>, records), records)

-----------------------------------------------------------------------------
(* The journal.                                                            *)

VARIABLE effectRecords  \* the effects and resolutions in the journal

LedgerInit == effectRecords = <<>>

\* effect_event(): an operation started or came to a result.
Report ==
    /\ Len(effectRecords) < MaxEffects
    /\ \E o \in Reports : effectRecords' = Append(effectRecords, o)

\* `spotter effects resolve`: what it names is in the ledger it loaded, and stays in it.
ResolveEffect(r) ==
    LET entries == ExternalEffects(effectRecords)
    IN  /\ Len(effectRecords) < MaxEffects
        /\ Known(entries, r.id)
        /\ r.related # NoEffect => Known(entries, r.related)
        /\ Admissible(r)
        /\ effectRecords' = Append(effectRecords, r)

LedgerNext == Report \/ \E r \in Decisions : ResolveEffect(r)

LedgerSpec == LedgerInit /\ [][LedgerNext]_effectRecords

-----------------------------------------------------------------------------
(* The reference: what the ledger says of an operation, from the set of what was observed.   *)

Of(records, id) == {i \in DOMAIN records : records[i].kind = "external_effect"
                                           /\ records[i].exact /\ records[i].id = id}
Results(records, id) == {i \in Of(records, id) : Terminal(records[i])}
OutcomesOf(records, id) == {records[i].outcome : i \in Results(records, id)}
ResolutionsOf(records, id) == {i \in DOMAIN records :
    records[i].kind = "effect_resolution" /\ records[i].id = id}
LastOf(S) == CHOOSE i \in S : \A j \in S : j <= i

Faithful(records, entry) ==
    LET outcomes == OutcomesOf(records, entry.id)
        resolutions == ResolutionsOf(records, entry.id)
    IN  /\ entry.count = Cardinality(Of(records, entry.id))
        /\ (entry.lifecycle = "completed") <=> outcomes # {}
        /\ entry.outcome = IF Cardinality(outcomes) = 1 THEN CHOOSE o \in outcomes : TRUE
                           ELSE "unknown"
        /\ Cardinality(outcomes) > 1 =>
              outcomes \ {"unknown"} \subseteq entry.observed /\ entry.observed \subseteq outcomes
        /\ entry.resolved <=>
             /\ resolutions # {}
             /\ LET r == records[LastOf(resolutions)]
                IN  \/ r.value \in {"reversed", "reconciled_absent"}
                    \/ r.value = "compensated" /\ Of(records, r.related) # {}

\* (An attempt observed after three outcomes takes an "unknown" among them out of `observed`.)
\* Of every journal: an operation has one entry, which says what was observed of it in
\* whatever order the observations came, and no observation is lost.
LedgerFaithful(records) ==
    LET entries == ExternalEffects(records)
    IN  /\ \A id \in Ids : Of(records, id) # {} <=> Known(entries, id)
        /\ \A i \in DOMAIN entries : entries[i].exact => Faithful(records, entries[i])
        /\ \A i, j \in DOMAIN entries :
              entries[i].exact /\ entries[j].exact /\ entries[i].id = entries[j].id => i = j
        /\ Cardinality({i \in DOMAIN entries : ~entries[i].exact})
             = Cardinality({i \in DOMAIN records :
                                records[i].kind = "external_effect" /\ ~records[i].exact})

\* The ledger of effects says of every operation what the journal has of it, in whatever order
\* transports, redeliveries and restarts brought its observations: an attempt never hides a
\* result, two results that disagree are unknown, the last resolution counts, also for what is
\* observed after it, and a compensation counts only by an effect that is in the journal.
EffectsFaithful == LedgerFaithful(effectRecords)
=============================================================================
