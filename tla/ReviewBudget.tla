---------------------------- MODULE ReviewBudget ----------------------------
(***************************************************************************)
(* The review spend ledger (src/spotter/budget.py) and the processes that  *)
(* spend against it: the Hook that reserves a slot and spawns a review     *)
(* child, the child itself (`spotter review`), the daemon's ReviewExecutor *)
(* and the manual `spotter review`.                                        *)
(*                                                                         *)
(* The ledger is one JSON file replaced atomically under an flock, so each *)
(* of reserve, cancel, settle and charge is one step.  Between two of them *)
(* the processes interleave freely, die, and let the slot's TTL or midnight*)
(* go by.  Costs in tokens are left out: they never influence a decision.  *)
(***************************************************************************)
EXTENDS Integers, FiniteSets

CONSTANTS
    Sessions,        \* agent sessions
    Tokens,          \* review processes; a reserved one holds the slot of the same name
    MaxPerSession,   \* reviewer.max_per_session, 0 lifts the ceiling
    MaxPerDay,       \* reviewer.max_per_day, 0 lifts the ceiling
    SlotTTL,         \* SLOT_TTL_SECONDS, in ticks
    DayLength,       \* ticks between two midnights
    MaxTime          \* bound: the last tick explored

ASSUME BudgetAssumption ==
    /\ IsFiniteSet(Tokens)
    /\ Sessions # {}
    /\ MaxPerSession \in Nat /\ MaxPerDay \in Nat
    /\ SlotTTL \in Nat /\ DayLength \in Nat \ {0} /\ MaxTime \in Nat

VARIABLES
    readable,   \* the ledger file loads (otherwise every reader sees LedgerCorrupt)
    reviews,    \* ledger: sessions[s].reviews
    day,        \* ledger: the "day" record [date, reviews]
    open,       \* ledger: the tokens in open_slots
    phase,      \* what each review process is doing
    kind,       \* who runs it: the Hook's child, the executor, a manual command
    owner,      \* the session it reviews, also its slot's "session"
    takenAt,    \* its slot's "at"
    now         \* the clock

ledger == <<readable, reviews, day, open>>
process == <<phase, kind, owner, takenAt>>
ledgerVars == <<readable, reviews, day, open, phase, kind, owner, takenAt, now>>

Kinds == {"child", "executor", "manual"}

\* "failed": the model call was made and raised.  "lost": charge() itself raised.
Phases == {"unborn", "reserved", "reviewing", "charging",
           "settled", "charged", "cancelled", "failed", "lost", "dead"}

LedgerTypeOK ==
    /\ readable \in BOOLEAN
    /\ reviews \in [Sessions -> Nat]
    /\ day \in [date : Nat, reviews : Nat]
    /\ open \in SUBSET Tokens
    /\ phase \in [Tokens -> Phases]
    /\ kind \in [Tokens -> Kinds]
    /\ owner \in [Tokens -> Sessions]
    /\ takenAt \in [Tokens -> Nat]
    /\ now \in Nat

LedgerInit ==
    /\ readable = TRUE
    /\ reviews = [s \in Sessions |-> 0]
    /\ day = [date |-> 0, reviews |-> 0]
    /\ open = {}
    /\ phase = [t \in Tokens |-> "unborn"]
    /\ kind = [t \in Tokens |-> "child"]
    /\ owner = [t \in Tokens |-> CHOOSE s \in Sessions : TRUE]
    /\ takenAt = [t \in Tokens |-> 0]
    /\ now = 0

-----------------------------------------------------------------------------
(***************************************************************************)
(* Reading the ledger.                                                     *)
(***************************************************************************)
Date(time) == time \div DayLength
Today == Date(now)

\* The counter of a past day projects to zero.
DayCount == IF day.date = Today THEN day.reviews ELSE 0

Floor0(n) == IF n < 0 THEN 0 ELSE n

OpenOf(s) == {t \in open : owner[t] = s}
Expired == {t \in open : now - takenAt[t] > SlotTTL}
ExpiredOf(s) == {t \in Expired : owner[t] = s}

\* The sessions map once the expired slots are dropped.
Credited == [s \in Sessions |-> Floor0(reviews[s] - Cardinality(ExpiredOf(s)))]

\* What _reclaim returns: every expired slot, but only while the ledger's day is today.
ReclaimedToday == IF day.date = Today THEN Cardinality(Expired) ELSE 0

\* The spend the ceilings are judged by.  reserve() re-reads the credited session count
\* only if _reclaim returned something.
SessionSpend(s) == IF ReclaimedToday > 0 THEN Credited[s] ELSE reviews[s]
DaySpend == Floor0(DayCount - ReclaimedToday)

\* Mutant: the ceiling itself is still below the ceiling.
AtMost(count, cap) == cap = 0 \/ count <= cap

Below(count, cap) == cap = 0 \/ count < cap

-----------------------------------------------------------------------------
(***************************************************************************)
(* The ledger's operations.                                                *)
(***************************************************************************)

\* reserve(): reclaim, judge both ceilings, take the slot, write everything back.  A
\* refusal writes nothing, not even what was reclaimed.
Reserve(t, s) ==
    /\ readable
    /\ Below(SessionSpend(s), MaxPerSession)
    /\ Below(DaySpend, MaxPerDay)
    /\ reviews' = [Credited EXCEPT ![s] = SessionSpend(s) + 1]
    /\ day' = [date |-> Today, reviews |-> DaySpend + 1]
    /\ open' = (open \ Expired) \cup {t}
    /\ UNCHANGED readable

\* Mutant: the count is handed back even when the slot was already reclaimed.
CancelTwice(t) ==
    IF readable
    THEN /\ open' = open \ {t}
         /\ reviews' = [reviews EXCEPT ![owner[t]] = Floor0(@ - 1)]
         /\ day' = [date |-> Today, reviews |-> Floor0(DayCount - 1)]
         /\ UNCHANGED readable
    ELSE UNCHANGED ledger

\* cancel(): hand an unused slot back.  A token the ledger no longer holds changes nothing.
Cancel(t) ==
    IF readable /\ t \in open
    THEN /\ open' = open \ {t}
         /\ reviews' = [reviews EXCEPT ![owner[t]] = Floor0(@ - 1)]
         /\ day' = [date |-> Today, reviews |-> Floor0(DayCount - 1)]
         /\ UNCHANGED readable
    ELSE UNCHANGED ledger

\* settle() of a slot the ledger holds: the count was taken by reserve().
Settle(t) ==
    /\ readable /\ t \in open
    /\ open' = open \ {t}
    /\ day' = [date |-> Today, reviews |-> DayCount]
    /\ UNCHANGED <<readable, reviews>>

\* Mutant: the ledger is rewritten without the slots of the other processes.
ChargeForgetsSlots(s) ==
    /\ readable
    /\ reviews' = [reviews EXCEPT ![s] = @ + 1]
    /\ day' = [date |-> Today, reviews |-> DayCount + 1]
    /\ open' = {}
    /\ UNCHANGED readable

\* charge(): one more review.  The slots of other processes stay.
Charge(s) ==
    /\ readable
    /\ reviews' = [reviews EXCEPT ![s] = @ + 1]
    /\ day' = [date |-> Today, reviews |-> DayCount + 1]
    /\ UNCHANGED <<readable, open>>

-----------------------------------------------------------------------------
(***************************************************************************)
(* The processes.                                                          *)
(***************************************************************************)
Becomes(t, p) == phase' = [phase EXCEPT ![t] = p] /\ UNCHANGED <<kind, owner, takenAt, now>>

\* The per-session review lock of `spotter review`, held until the process exits.
LockHeld(s) == \E t \in Tokens : /\ kind[t] # "executor" /\ owner[t] = s
                                 /\ phase[t] \in {"reviewing", "charging"}

\* The Hook reserves before it spawns the child; the executor before it calls the model.
StartReserved(t, s, k) ==
    /\ phase[t] = "unborn"
    /\ k # "manual"
    /\ Reserve(t, s)
    /\ phase' = [phase EXCEPT ![t] = "reserved"]
    /\ kind' = [kind EXCEPT ![t] = k]
    /\ owner' = [owner EXCEPT ![t] = s]
    /\ takenAt' = [takenAt EXCEPT ![t] = now]
    /\ UNCHANGED now

\* `spotter review` without --reservation: no slot is ever taken.
StartManual(t, s) ==
    /\ phase[t] = "unborn"
    /\ phase' = [phase EXCEPT ![t] = "reserved"]
    /\ kind' = [kind EXCEPT ![t] = "manual"]
    /\ owner' = [owner EXCEPT ![t] = s]
    /\ UNCHANGED <<takenAt, now>>
    /\ UNCHANGED ledger

\* The spawn failed, the lock is taken, or the journal is empty or unreadable.
GiveUp(t) ==
    /\ phase[t] = "reserved" /\ kind[t] = "child"
    /\ Cancel(t)
    /\ Becomes(t, "cancelled")

\* A child that finds the ledger unreadable leaves without touching its slot.
RefuseUnreadable(t) ==
    /\ phase[t] = "reserved" /\ kind[t] # "executor"
    /\ ~readable
    /\ Becomes(t, "dead")
    /\ UNCHANGED ledger

\* The model call starts.
CallReviewer(t) ==
    /\ phase[t] = "reserved"
    /\ kind[t] # "executor" => readable /\ ~LockHeld(owner[t])
    /\ Becomes(t, "reviewing")
    /\ UNCHANGED ledger

\* The model call of a child raised: it journals the error and exits.  The executor
\* settles a failed call instead, see Finish.
CallFails(t) ==
    /\ phase[t] = "reviewing" /\ kind[t] # "executor"
    /\ Becomes(t, "failed")
    /\ UNCHANGED ledger

\* settle(...) of `settle(...) or charge(...)`.
Finish(t) ==
    /\ phase[t] = "reviewing"
    /\ \/ Settle(t) /\ Becomes(t, "settled")
       \/ ~(readable /\ t \in open) /\ Becomes(t, "charging") /\ UNCHANGED ledger

\* charge(...), once settle() returned None.  It raises if the ledger is unreadable.
FallBack(t) ==
    /\ phase[t] = "charging"
    /\ \/ Charge(owner[t]) /\ Becomes(t, "charged")
       \/ ~readable /\ Becomes(t, "lost") /\ UNCHANGED ledger

\* The process is killed.
Die(t) ==
    /\ phase[t] \in {"reserved", "reviewing", "charging"}
    /\ Becomes(t, "dead")
    /\ UNCHANGED ledger

Tick == now < MaxTime /\ now' = now + 1 /\ UNCHANGED <<ledger, process>>

\* The file becomes unreadable (an I/O error, a newer schema) or readable again.
Flip == readable' = ~readable /\ UNCHANGED <<reviews, day, open, now>> /\ UNCHANGED process

LedgerNext ==
    \/ \E t \in Tokens, s \in Sessions, k \in Kinds : StartReserved(t, s, k)
    \/ \E t \in Tokens, s \in Sessions : StartManual(t, s)
    \/ \E t \in Tokens :
          \/ GiveUp(t) \/ RefuseUnreadable(t) \/ CallReviewer(t) \/ CallFails(t)
          \/ Finish(t) \/ FallBack(t) \/ Die(t)
    \/ Tick
    \/ Flip

LedgerSpec == LedgerInit /\ [][LedgerNext]_ledgerVars
-----------------------------------------------------------------------------
(***************************************************************************)
(* Properties.                                                             *)
(***************************************************************************)
In(s, phases) == {t \in Tokens : owner[t] = s /\ phase[t] \in phases}

\* The ledger never forgets a review it was told about: a session's count covers every
\* slot still open and every review settled or charged, whatever order the holders
\* reserve, cancel, expire, settle late and charge in (the claim of _reclaim's comment).
NeverUnderCounts ==
    \A s \in Sessions :
        reviews[s] >= Cardinality(OpenOf(s)) + Cardinality(In(s, {"settled", "charged"}))

\* The ceiling holds against the slots themselves, not only against the counter: open and
\* settled slots of a session together never exceed the ceiling, so the last slot is taken
\* once however many processes raced for it.  Charged reviews came without a slot.
SessionCeilingHeld ==
    MaxPerSession > 0 =>
        \A s \in Sessions :
            Cardinality(OpenOf(s)) + Cardinality(In(s, {"settled"})) <= MaxPerSession

\* No step of another process takes a slot from a holder that is still within its TTL.
LiveHolderKeepsSlot ==
    \A t \in Tokens :
        (kind[t] # "manual" /\ phase[t] \in {"reserved", "reviewing"} /\ now - takenAt[t] <= SlotTTL)
            => t \in open

\* reserve() promises that "a dead holder's slot must not keep a live session out": a session
\* with room, once expired slots are set aside, is not refused by its own ceiling.
\* The code breaks it when the slot expired before the ledger's first write of the day.
DeadSlotKeepsNobodyOut ==
    \A s \in Sessions :
        (/\ MaxPerSession > 0
         /\ Cardinality(OpenOf(s) \ Expired) + Cardinality(In(s, {"settled", "charged"})) < MaxPerSession)
            => Below(SessionSpend(s), MaxPerSession)

\* cancel() promises that a path that gave up after its model call keeps the slot, "because
\* that spend really happened": the count covers the failed calls too.  The code keeps
\* the slot open instead of settling it, so the TTL credits it back.
PaidReviewStaysCounted ==
    \A s \in Sessions :
        reviews[s] >= Cardinality({t \in In(s, {"failed", "settled"}) : kind[t] = "child"})
=============================================================================
