------------------------------ MODULE ReviewProofs ------------------------------
(***************************************************************************)
(* Reviews and what they cost.  The ledger's invariants hold for any       *)
(* number of sessions and review processes, any ceilings, TTL and length   *)
(* of a day.                                                               *)
(*                                                                         *)
(* A job of the executor is paid for once, a withdrawn job never speaks,   *)
(* and a discarded one was free, for any number of jobs, turns,            *)
(* connections and restarts.  What the ThreadState says matters to none of *)
(* the three: the argument rests on what the scheduler holds and what the  *)
(* Trace has recorded.                                                     *)
(***************************************************************************)
EXTENDS ReviewBudget, ReviewPipeline, FiniteSetTheorems, TLAPS

(******************************** the ledger ********************************)

\* What the ledger's counters owe to the slots, and who may hold a slot.
UnbornHoldsNoSlot == \A t \in Tokens : phase[t] = "unborn" => t \notin open

\* The counter itself respects the ceiling, but for the reviews charged without a slot.
CounterCeiling ==
    MaxPerSession > 0 =>
        \A s \in Sessions : reviews[s] <= MaxPerSession + Cardinality(In(s, {"charged"}))

LedgerInv ==
    /\ LedgerTypeOK
    /\ UnbornHoldsNoSlot
    /\ NeverUnderCounts
    /\ CounterCeiling

-----------------------------------------------------------------------------
(* Lemmas about the sets the counters stand for. *)

\* Every set of review processes is finite.
LEMMA TokenSets == \A S \in SUBSET Tokens : IsFiniteSet(S) /\ Cardinality(S) \in Nat
BY FS_Subset, FS_CardinalityType, BudgetAssumption

\* Adding and removing one process changes a count by at most one.
LEMMA OneMore ==
    ASSUME NEW S \in SUBSET Tokens, NEW t \in Tokens
    PROVE  /\ Cardinality(S \cup {t}) <= Cardinality(S) + 1
           /\ t \notin S => Cardinality(S \cup {t}) = Cardinality(S) + 1
           /\ t \in S => Cardinality(S \ {t}) = Cardinality(S) - 1
BY TokenSets, FS_AddElement, FS_RemoveElement

\* The date is a natural number.
LEMMA DateType == \A n \in Nat : Date(n) \in Nat
BY BudgetAssumption DEF Date

\* The types of what is read from the ledger.
LEMMA ReadTypes ==
    ASSUME LedgerTypeOK
    PROVE  /\ Today \in Nat /\ DayCount \in Nat /\ DaySpend \in Nat
           /\ Expired \in SUBSET open
           /\ Credited \in [Sessions -> Nat]
           /\ \A s \in Sessions : /\ SessionSpend(s) \in {reviews[s], Credited[s]}
                                  /\ ExpiredOf(s) \in SUBSET OpenOf(s)
                                  /\ OpenOf(s) \in SUBSET Tokens
                                  /\ Credited[s] <= reviews[s]
                                  /\ Credited[s] >= reviews[s] - Cardinality(ExpiredOf(s))
<1>1. Today \in Nat /\ DayCount \in Nat
  BY DateType DEF LedgerTypeOK, Today, DayCount
<1>2. Expired \in SUBSET open
  BY DEF Expired
<1>3. ReclaimedToday \in Nat
  BY <1>2, TokenSets DEF LedgerTypeOK, ReclaimedToday
<1>4. DaySpend \in Nat
  BY <1>1, <1>3 DEF DaySpend, Floor0
<1>5. \A s \in Sessions : ExpiredOf(s) \in SUBSET OpenOf(s) /\ OpenOf(s) \in SUBSET Tokens
  BY <1>2 DEF LedgerTypeOK, ExpiredOf, OpenOf
<1>6. \A s \in Sessions : Cardinality(ExpiredOf(s)) \in Nat
  BY <1>5, TokenSets
<1>7. \A s \in Sessions : Floor0(reviews[s] - Cardinality(ExpiredOf(s))) \in Nat
  BY <1>6 DEF LedgerTypeOK, Floor0
<1>8. Credited \in [Sessions -> Nat]
  BY <1>7 DEF Credited
<1>9. ASSUME NEW s \in Sessions
      PROVE  Credited[s] <= reviews[s] /\ Credited[s] >= reviews[s] - Cardinality(ExpiredOf(s))
  BY <1>6 DEF LedgerTypeOK, Credited, Floor0
<1>10. \A s \in Sessions : SessionSpend(s) \in {reviews[s], Credited[s]}
  BY DEF SessionSpend
<1> QED BY <1>1, <1>2, <1>4, <1>5, <1>8, <1>9, <1>10

-----------------------------------------------------------------------------
(* Type correctness. *)

LEMMA InitType == LedgerInit => LedgerTypeOK
<1> SUFFICES ASSUME LedgerInit PROVE LedgerTypeOK
  OBVIOUS
<1>1. (CHOOSE s \in Sessions : TRUE) \in Sessions
  BY BudgetAssumption
<1> QED BY <1>1 DEF LedgerInit, LedgerTypeOK, Phases, Kinds

\* Each operation of the ledger leaves it well typed.
LEMMA LedgerTypes ==
    ASSUME LedgerTypeOK, NEW t \in Tokens, NEW s \in Sessions,
           \/ Reserve(t, s) \/ Cancel(t) \/ Settle(t) \/ Charge(s) \/ UNCHANGED ledger
    PROVE  /\ readable' \in BOOLEAN
           /\ reviews' \in [Sessions -> Nat]
           /\ day' \in [date : Nat, reviews : Nat]
           /\ open' \in SUBSET Tokens
<1> USE DEF LedgerTypeOK
<1>1. Today \in Nat /\ DayCount \in Nat /\ DaySpend \in Nat /\ Credited \in [Sessions -> Nat]
  BY ReadTypes
<1>2. CASE Reserve(t, s)
  <2>1. SessionSpend(s) \in Nat
    BY ReadTypes, <1>1
  <2>2. reviews' \in [Sessions -> Nat]
    BY <1>1, <1>2, <2>1 DEF Reserve
  <2> QED BY <1>1, <1>2, <2>2 DEF Reserve
<1>3. CASE Cancel(t)
  <2>1. \A n \in Nat : Floor0(n - 1) \in Nat
    BY DEF Floor0
  <2> QED BY <1>1, <1>3, <2>1 DEF Cancel, ledger
<1>4. CASE Settle(t)
  BY <1>1, <1>4 DEF Settle
<1>5. CASE Charge(s)
  BY <1>1, <1>5 DEF Charge
<1>6. CASE UNCHANGED ledger
  BY <1>6 DEF ledger
<1> QED BY <1>2, <1>3, <1>4, <1>5, <1>6

LEMMA NextType == LedgerTypeOK /\ [LedgerNext]_ledgerVars => LedgerTypeOK'
<1> SUFFICES ASSUME LedgerTypeOK, [LedgerNext]_ledgerVars PROVE LedgerTypeOK'
  OBVIOUS
<1>1. ASSUME NEW t \in Tokens, NEW s \in Sessions, NEW k \in Kinds, StartReserved(t, s, k)
      PROVE  LedgerTypeOK'
  BY <1>1, LedgerTypes DEF StartReserved, LedgerTypeOK, Phases
<1>2. ASSUME NEW t \in Tokens, NEW s \in Sessions, StartManual(t, s)
      PROVE  LedgerTypeOK'
  BY <1>2, LedgerTypes DEF StartManual, LedgerTypeOK, Phases, Kinds
<1>3. ASSUME NEW t \in Tokens,
             GiveUp(t) \/ RefuseUnreadable(t) \/ CallReviewer(t) \/ CallFails(t)
                \/ Finish(t) \/ FallBack(t) \/ Die(t)
      PROVE  LedgerTypeOK'
  <2>1. PICK p \in Phases : Becomes(t, p)
    BY <1>3 DEF GiveUp, RefuseUnreadable, CallReviewer, CallFails, Finish, FallBack, Die, Phases
  <2>2. Cancel(t) \/ Settle(t) \/ Charge(owner[t]) \/ UNCHANGED ledger
    BY <1>3 DEF GiveUp, RefuseUnreadable, CallReviewer, CallFails, Finish, FallBack, Die
  <2>3. owner[t] \in Sessions
    BY DEF LedgerTypeOK
  <2>4. /\ readable' \in BOOLEAN /\ reviews' \in [Sessions -> Nat]
        /\ day' \in [date : Nat, reviews : Nat] /\ open' \in SUBSET Tokens
    BY <2>2, <2>3, LedgerTypes
  <2> QED BY <2>1, <2>4 DEF Becomes, LedgerTypeOK
<1>4. CASE Tick
  BY <1>4 DEF Tick, ledger, process, LedgerTypeOK
<1>5. CASE Flip
  BY <1>5 DEF Flip, process, LedgerTypeOK
<1>6. CASE UNCHANGED ledgerVars
  BY <1>6 DEF ledgerVars, LedgerTypeOK
<1> QED BY <1>1, <1>2, <1>3, <1>4, <1>5, <1>6 DEF LedgerNext

\* Every reachable state is well typed: counters never go below zero, open slots are slots.
THEOREM TypeCorrect == LedgerSpec => []LedgerTypeOK
BY InitType, NextType, PTL DEF LedgerSpec

-----------------------------------------------------------------------------
(* The counters against the slots. *)

Paid == {"settled", "charged"}

\* The sets that the counters are compared with are finite.
LEMMA Counts ==
    ASSUME LedgerTypeOK, NEW s \in Sessions, NEW P
    PROVE  /\ OpenOf(s) \in SUBSET Tokens /\ In(s, P) \in SUBSET Tokens
           /\ Cardinality(OpenOf(s)) \in Nat /\ Cardinality(In(s, P)) \in Nat
<1>1. OpenOf(s) \in SUBSET Tokens /\ In(s, P) \in SUBSET Tokens
  BY DEF OpenOf, In, LedgerTypeOK
<1> QED BY <1>1, TokenSets

\* When a process changes phase, the processes of a session in some phases gain or keep it.
LEMMA PhaseStep ==
    ASSUME LedgerTypeOK, NEW t \in Tokens, NEW p \in Phases, Becomes(t, p),
           NEW P, phase[t] \notin P, NEW s \in Sessions
    PROVE  In(s, P)' = IF p \in P /\ owner[t] = s THEN In(s, P) \cup {t} ELSE In(s, P)
BY DEF LedgerTypeOK, Becomes, In

\* A step that leaves the ledger's counters and slots alone and pays for nothing.
LEMMA QuietStep ==
    ASSUME LedgerInv, UNCHANGED <<reviews, open, owner>>,
           \A t \in Tokens : (phase'[t] = "unborn" \/ phase[t] \in Paid \/ phase'[t] \in Paid)
                                => phase'[t] = phase[t]
    PROVE  UnbornHoldsNoSlot' /\ NeverUnderCounts' /\ CounterCeiling'
<1>1. \A s \in Sessions : OpenOf(s)' = OpenOf(s)
  BY DEF OpenOf
<1>2. \A s \in Sessions : In(s, {"settled", "charged"})' = In(s, {"settled", "charged"})
  BY DEF In, Paid
<1>3. \A s \in Sessions : In(s, {"charged"})' = In(s, {"charged"})
  BY DEF In, Paid
<1> QED BY <1>1, <1>2, <1>3 DEF LedgerInv, UnbornHoldsNoSlot, NeverUnderCounts, CounterCeiling

\* Reserving takes one slot for one count, and credits no more than it drops.
LEMMA ReserveStep ==
    ASSUME LedgerInv, NEW t \in Tokens, NEW s \in Sessions, NEW k \in Kinds,
           StartReserved(t, s, k)
    PROVE  UnbornHoldsNoSlot' /\ NeverUnderCounts' /\ CounterCeiling'
<1> USE DEF LedgerInv
<1>1. /\ phase[t] = "unborn" /\ t \notin open /\ t \in Tokens
      /\ phase' = [phase EXCEPT ![t] = "reserved"]
      /\ owner' = [owner EXCEPT ![t] = s]
      /\ open' = (open \ Expired) \cup {t}
      /\ reviews' = [Credited EXCEPT ![s] = SessionSpend(s) + 1]
      /\ Below(SessionSpend(s), MaxPerSession)
  BY DEF StartReserved, Reserve, UnbornHoldsNoSlot
<1>2. ASSUME NEW x \in Sessions
      PROVE  OpenOf(x)' = IF x = s THEN (OpenOf(x) \ ExpiredOf(x)) \cup {t}
                                   ELSE OpenOf(x) \ ExpiredOf(x)
  BY <1>1 DEF OpenOf, ExpiredOf, Expired, LedgerTypeOK
<1>3. ASSUME NEW x \in Sessions
      PROVE  /\ In(x, {"settled", "charged"})' = In(x, {"settled", "charged"})
             /\ In(x, {"charged"})' = In(x, {"charged"})
  BY <1>1 DEF In, LedgerTypeOK
<1>4. ASSUME NEW x \in Sessions
      PROVE  /\ Cardinality(OpenOf(x) \ ExpiredOf(x))
                   = Cardinality(OpenOf(x)) - Cardinality(ExpiredOf(x))
             /\ Cardinality(OpenOf(x) \ ExpiredOf(x)) \in Nat
             /\ Cardinality(ExpiredOf(x)) \in Nat
  <2>1. OpenOf(x) \in SUBSET Tokens /\ ExpiredOf(x) \in SUBSET OpenOf(x)
    BY ReadTypes
  <2>2. IsFiniteSet(OpenOf(x)) /\ IsFiniteSet(ExpiredOf(x))
        /\ IsFiniteSet(OpenOf(x) \ ExpiredOf(x))
    BY <2>1, TokenSets
  <2>3. OpenOf(x) \cap ExpiredOf(x) = ExpiredOf(x)
    BY <2>1
  <2> QED BY <2>2, <2>3, FS_Difference, FS_CardinalityType
<1>5. Cardinality((OpenOf(s) \ ExpiredOf(s)) \cup {t}) = Cardinality(OpenOf(s) \ ExpiredOf(s)) + 1
  <2>1. OpenOf(s) \ ExpiredOf(s) \in SUBSET Tokens /\ t \notin OpenOf(s) \ ExpiredOf(s)
    BY <1>1, Counts DEF OpenOf
  <2> QED BY <2>1, OneMore
<1>6. ASSUME NEW x \in Sessions
      PROVE  /\ Credited[x] \in Nat /\ SessionSpend(x) \in Nat /\ reviews[x] \in Nat
             /\ Credited[x] <= reviews[x] /\ Credited[x] <= SessionSpend(x)
             /\ Credited[x] >= reviews[x] - Cardinality(ExpiredOf(x))
  BY ReadTypes DEF LedgerTypeOK
<1>7. ASSUME NEW x \in Sessions
      PROVE  reviews'[x] = IF x = s THEN SessionSpend(x) + 1 ELSE Credited[x]
  BY <1>1, ReadTypes
<1>8. NeverUnderCounts'
  <2> SUFFICES ASSUME NEW x \in Sessions
               PROVE  reviews'[x] >= Cardinality(OpenOf(x)')
                                       + Cardinality(In(x, {"settled", "charged"})')
    BY DEF NeverUnderCounts
  <2>1. /\ reviews[x] >= Cardinality(OpenOf(x)) + Cardinality(In(x, {"settled", "charged"}))
        /\ Cardinality(OpenOf(x)) \in Nat /\ Cardinality(In(x, {"settled", "charged"})) \in Nat
    BY Counts DEF NeverUnderCounts
  <2>2. Cardinality(In(x, {"settled", "charged"})') = Cardinality(In(x, {"settled", "charged"}))
    BY <1>3, Zenon
  <2>3. /\ Credited[x] \in Nat /\ SessionSpend(x) \in Nat /\ reviews[x] \in Nat
        /\ Credited[x] <= SessionSpend(x)
        /\ Credited[x] >= reviews[x] - Cardinality(ExpiredOf(x))
        /\ Cardinality(ExpiredOf(x)) \in Nat
    BY <1>4, <1>6
  <2>4. CASE x = s
    <3>1. Cardinality(OpenOf(x)') = Cardinality(OpenOf(x)) - Cardinality(ExpiredOf(x)) + 1
      <4>1. Cardinality(OpenOf(x)') = Cardinality((OpenOf(x) \ ExpiredOf(x)) \cup {t})
        BY <2>4, <1>2, Zenon
      <4> QED BY <4>1, <2>4, <1>4, <1>5
    <3>2. reviews'[x] = SessionSpend(x) + 1
      BY <2>4, <1>7
    <3> QED BY <3>1, <3>2, <2>1, <2>2, <2>3
  <2>5. CASE x # s
    <3>1. Cardinality(OpenOf(x)') = Cardinality(OpenOf(x)) - Cardinality(ExpiredOf(x))
      <4>1. Cardinality(OpenOf(x)') = Cardinality(OpenOf(x) \ ExpiredOf(x))
        BY <2>5, <1>2, Zenon
      <4> QED BY <4>1, <1>4
    <3>2. reviews'[x] = Credited[x]
      BY <2>5, <1>7
    <3> QED BY <3>1, <3>2, <2>1, <2>2, <2>3
  <2> QED BY <2>4, <2>5
<1>9. CounterCeiling'
  <2> SUFFICES ASSUME MaxPerSession > 0, NEW x \in Sessions
               PROVE  reviews'[x] <= MaxPerSession + Cardinality(In(x, {"charged"})')
    BY DEF CounterCeiling
  <2>1. Cardinality(In(x, {"charged"})) \in Nat /\ MaxPerSession \in Nat
    BY Counts, BudgetAssumption
  <2>2. CASE x = s
    BY <2>1, <2>2, <1>1, <1>3, <1>6, <1>7 DEF Below
  <2>3. CASE x # s
    BY <2>1, <2>3, <1>3, <1>6, <1>7 DEF CounterCeiling
  <2> QED BY <2>2, <2>3
<1>10. UnbornHoldsNoSlot'
  BY <1>1 DEF UnbornHoldsNoSlot, LedgerTypeOK
<1> QED BY <1>8, <1>9, <1>10

\* Cancelling gives back one count for one slot.
LEMMA CancelStep ==
    ASSUME LedgerInv, NEW t \in Tokens, GiveUp(t)
    PROVE  UnbornHoldsNoSlot' /\ NeverUnderCounts' /\ CounterCeiling'
<1> USE DEF LedgerInv
<1>1. Becomes(t, "cancelled") /\ phase[t] = "reserved" /\ Cancel(t)
  BY DEF GiveUp
<1>2. CASE readable /\ t \in open
  <2>1. open' = open \ {t} /\ reviews' = [reviews EXCEPT ![owner[t]] = Floor0(@ - 1)]
    BY <1>1, <1>2 DEF Cancel
  <2>2. \A x \in Sessions : OpenOf(x)' = IF x = owner[t] THEN OpenOf(x) \ {t} ELSE OpenOf(x)
    BY <2>1, <1>1 DEF OpenOf, Becomes, LedgerTypeOK
  <2>3. \A x \in Sessions : /\ In(x, {"settled", "charged"})' = In(x, {"settled", "charged"})
                            /\ In(x, {"charged"})' = In(x, {"charged"})
    BY <1>1 DEF In, Becomes, LedgerTypeOK
  <2>4. ASSUME NEW x \in Sessions
        PROVE  /\ reviews'[x] >= Cardinality(OpenOf(x)')
                                   + Cardinality(In(x, {"settled", "charged"})')
               /\ reviews'[x] <= reviews[x]
    <3>1. /\ Cardinality(OpenOf(x)) \in Nat /\ Cardinality(In(x, {"settled", "charged"})) \in Nat
          /\ reviews[x] >= Cardinality(OpenOf(x)) + Cardinality(In(x, {"settled", "charged"}))
          /\ reviews[x] \in Nat /\ OpenOf(x) \in SUBSET Tokens
      BY Counts DEF NeverUnderCounts, LedgerTypeOK
    <3>2. CASE x = owner[t]
      <4>1. t \in OpenOf(x)
        BY <1>2, <3>2 DEF OpenOf
      <4>2. Cardinality(OpenOf(x)') = Cardinality(OpenOf(x)) - 1
        BY <4>1, <3>1, <3>2, <2>2, OneMore
      <4>3. reviews'[x] = Floor0(reviews[x] - 1)
        BY <2>1, <3>2 DEF LedgerTypeOK
      <4>4. Cardinality(In(x, {"settled", "charged"})')
              = Cardinality(In(x, {"settled", "charged"}))
        BY <2>3
      <4> QED BY <4>2, <4>3, <4>4, <3>1 DEF Floor0
    <3>3. CASE x # owner[t]
      <4>1. reviews'[x] = reviews[x]
        BY <2>1, <3>3 DEF LedgerTypeOK
      <4> QED BY <4>1, <3>1, <3>3, <2>2, <2>3
    <3> QED BY <3>2, <3>3
  <2>5. NeverUnderCounts'
    BY <2>4 DEF NeverUnderCounts
  <2>6. CounterCeiling'
    <3> SUFFICES ASSUME MaxPerSession > 0, NEW x \in Sessions
                 PROVE  reviews'[x] <= MaxPerSession + Cardinality(In(x, {"charged"})')
      BY DEF CounterCeiling
    <3>1. Cardinality(In(x, {"charged"})) \in Nat /\ MaxPerSession \in Nat /\ reviews[x] \in Nat
          /\ reviews'[x] \in Nat
      BY Counts, BudgetAssumption, LedgerTypes, <1>1 DEF LedgerTypeOK
    <3> QED BY <3>1, <2>3, <2>4 DEF CounterCeiling
  <2>7. UnbornHoldsNoSlot'
    BY <1>1, <2>1 DEF UnbornHoldsNoSlot, Becomes, LedgerTypeOK
  <2> QED BY <2>5, <2>6, <2>7
<1>3. CASE ~(readable /\ t \in open)
  BY <1>1, <1>3, QuietStep DEF Cancel, ledger, Becomes, LedgerTypeOK, Paid
<1> QED BY <1>2, <1>3

\* Settling turns a slot into a paid review: the count already covers it.
LEMMA SettleStep ==
    ASSUME LedgerInv, NEW t \in Tokens, phase[t] = "reviewing", Settle(t), Becomes(t, "settled")
    PROVE  UnbornHoldsNoSlot' /\ NeverUnderCounts' /\ CounterCeiling'
<1> USE DEF LedgerInv
<1>1. open' = open \ {t} /\ reviews' = reviews /\ t \in open
  BY DEF Settle
<1>2. "settled" \in Phases /\ "settled" \in {"settled", "charged"} /\ "settled" \notin {"charged"}
  BY DEF Phases
<1>3. ASSUME NEW x \in Sessions
      PROVE  /\ OpenOf(x)' = IF x = owner[t] THEN OpenOf(x) \ {t} ELSE OpenOf(x)
             /\ In(x, {"settled", "charged"})'
                  = IF x = owner[t] THEN In(x, {"settled", "charged"}) \cup {t}
                                    ELSE In(x, {"settled", "charged"})
             /\ In(x, {"charged"})' = In(x, {"charged"})
  <2>1. OpenOf(x)' = IF x = owner[t] THEN OpenOf(x) \ {t} ELSE OpenOf(x)
    BY <1>1 DEF OpenOf, Becomes, LedgerTypeOK
  <2>2. In(x, {"settled", "charged"})'
          = IF x = owner[t] THEN In(x, {"settled", "charged"}) \cup {t}
                            ELSE In(x, {"settled", "charged"})
    BY <1>2, PhaseStep, SMTT(20)
  <2>3. In(x, {"charged"})' = In(x, {"charged"})
    BY <1>2, PhaseStep
  <2> QED BY <2>1, <2>2, <2>3
<1>4. NeverUnderCounts'
  <2> SUFFICES ASSUME NEW x \in Sessions
               PROVE  reviews'[x] >= Cardinality(OpenOf(x)')
                                       + Cardinality(In(x, {"settled", "charged"})')
    BY DEF NeverUnderCounts
  <2>1. /\ Cardinality(OpenOf(x)) \in Nat /\ Cardinality(In(x, {"settled", "charged"})) \in Nat
        /\ reviews[x] >= Cardinality(OpenOf(x)) + Cardinality(In(x, {"settled", "charged"}))
        /\ reviews[x] \in Nat
        /\ OpenOf(x) \in SUBSET Tokens /\ In(x, {"settled", "charged"}) \in SUBSET Tokens
    BY Counts DEF NeverUnderCounts, LedgerTypeOK
  <2>2. CASE x = owner[t]
    <3>1. t \in OpenOf(x) /\ t \notin In(x, {"settled", "charged"})
      BY <1>1, <2>2 DEF OpenOf, In
    <3>2. Cardinality(OpenOf(x)') = Cardinality(OpenOf(x)) - 1
      BY <3>1, <2>1, <2>2, <1>3, OneMore
    <3>3. Cardinality(In(x, {"settled", "charged"})')
             = Cardinality(In(x, {"settled", "charged"})) + 1
      BY <3>1, <2>1, <2>2, <1>3, OneMore
    <3> QED BY <3>2, <3>3, <2>1, <1>1
  <2>3. CASE x # owner[t]
    BY <2>1, <2>3, <1>1, <1>3
  <2> QED BY <2>2, <2>3
<1>5. CounterCeiling'
  BY <1>1, <1>3 DEF CounterCeiling
<1>6. UnbornHoldsNoSlot'
  BY <1>1 DEF UnbornHoldsNoSlot, Becomes, LedgerTypeOK
<1> QED BY <1>4, <1>5, <1>6

\* Charging counts one review for one paid review.
LEMMA ChargeStep ==
    ASSUME LedgerInv, NEW t \in Tokens, phase[t] = "charging", Charge(owner[t]),
           Becomes(t, "charged")
    PROVE  UnbornHoldsNoSlot' /\ NeverUnderCounts' /\ CounterCeiling'
<1> USE DEF LedgerInv
<1>1. open' = open /\ reviews' = [reviews EXCEPT ![owner[t]] = @ + 1]
  BY DEF Charge
<1>2. "charged" \in Phases /\ "charged" \in {"settled", "charged"} /\ "charged" \in {"charged"}
  BY DEF Phases
<1>3. ASSUME NEW x \in Sessions
      PROVE  /\ OpenOf(x)' = OpenOf(x)
             /\ x # owner[t] => /\ In(x, {"settled", "charged"})' = In(x, {"settled", "charged"})
                                /\ In(x, {"charged"})' = In(x, {"charged"})
                                /\ reviews'[x] = reviews[x]
             /\ x = owner[t] =>
                  /\ Cardinality(In(x, {"settled", "charged"})')
                       = Cardinality(In(x, {"settled", "charged"})) + 1
                  /\ Cardinality(In(x, {"charged"})') = Cardinality(In(x, {"charged"})) + 1
                  /\ reviews'[x] = reviews[x] + 1
  <2>1. OpenOf(x)' = OpenOf(x)
    BY <1>1 DEF OpenOf, Becomes
  <2>2. In(x, {"settled", "charged"})'
          = IF x = owner[t] THEN In(x, {"settled", "charged"}) \cup {t}
                            ELSE In(x, {"settled", "charged"})
    BY <1>2, PhaseStep
  <2>3. In(x, {"charged"})'
          = IF x = owner[t] THEN In(x, {"charged"}) \cup {t} ELSE In(x, {"charged"})
    BY <1>2, PhaseStep
  <2>4. t \notin In(x, {"settled", "charged"}) /\ t \notin In(x, {"charged"})
    BY DEF In
  <2>5. In(x, {"settled", "charged"}) \in SUBSET Tokens /\ In(x, {"charged"}) \in SUBSET Tokens
    BY Counts
  <2>6. /\ x # owner[t] => reviews'[x] = reviews[x]
        /\ x = owner[t] => reviews'[x] = reviews[x] + 1
    BY <1>1 DEF LedgerTypeOK
  <2> QED BY <2>1, <2>2, <2>3, <2>4, <2>5, <2>6, OneMore
<1>4. ASSUME NEW x \in Sessions
      PROVE  /\ reviews[x] \in Nat /\ MaxPerSession \in Nat
             /\ Cardinality(OpenOf(x)) \in Nat
             /\ Cardinality(In(x, {"settled", "charged"})) \in Nat
             /\ Cardinality(In(x, {"charged"})) \in Nat
  BY Counts, BudgetAssumption DEF LedgerTypeOK
<1>5. NeverUnderCounts'
  <2> SUFFICES ASSUME NEW x \in Sessions
               PROVE  reviews'[x] >= Cardinality(OpenOf(x)')
                                       + Cardinality(In(x, {"settled", "charged"})')
    BY DEF NeverUnderCounts
  <2>1. reviews[x] >= Cardinality(OpenOf(x)) + Cardinality(In(x, {"settled", "charged"}))
    BY DEF NeverUnderCounts
  <2>2. CASE x = owner[t]
    BY <2>1, <2>2, <1>3, <1>4
  <2>3. CASE x # owner[t]
    BY <2>1, <2>3, <1>3, <1>4
  <2> QED BY <2>2, <2>3
<1>6. CounterCeiling'
  <2> SUFFICES ASSUME MaxPerSession > 0, NEW x \in Sessions
               PROVE  reviews'[x] <= MaxPerSession + Cardinality(In(x, {"charged"})')
    BY DEF CounterCeiling
  <2>1. reviews[x] <= MaxPerSession + Cardinality(In(x, {"charged"}))
    BY DEF CounterCeiling
  <2>2. CASE x = owner[t]
    BY <2>1, <2>2, <1>3, <1>4
  <2>3. CASE x # owner[t]
    BY <2>1, <2>3, <1>3, <1>4
  <2> QED BY <2>2, <2>3
<1>7. UnbornHoldsNoSlot'
  BY <1>1 DEF UnbornHoldsNoSlot, Becomes, LedgerTypeOK
<1> QED BY <1>5, <1>6, <1>7

-----------------------------------------------------------------------------
(* The inductive invariant and what follows from it. *)

LEMMA InitLedger == LedgerInit => LedgerInv
<1> SUFFICES ASSUME LedgerInit PROVE LedgerInv
  OBVIOUS
<1>1. LedgerTypeOK
  BY InitType
<1>2. \A s \in Sessions : OpenOf(s) = {} /\ In(s, {"settled", "charged"}) = {}
  BY DEF LedgerInit, OpenOf, In
<1>3. NeverUnderCounts
  <2>1. Cardinality({}) = 0
    BY FS_EmptySet
  <2>2. \A s \in Sessions : reviews[s] = 0
    BY DEF LedgerInit
  <2> QED BY <1>2, <2>1, <2>2 DEF NeverUnderCounts
<1>4. CounterCeiling
  BY <1>1, Counts, BudgetAssumption DEF LedgerInit, CounterCeiling
<1> QED BY <1>1, <1>3, <1>4 DEF LedgerInit, LedgerInv, UnbornHoldsNoSlot

LEMMA NextLedger == LedgerInv /\ [LedgerNext]_ledgerVars => LedgerInv'
<1> SUFFICES ASSUME LedgerInv, [LedgerNext]_ledgerVars
             PROVE  UnbornHoldsNoSlot' /\ NeverUnderCounts' /\ CounterCeiling'
  BY NextType DEF LedgerInv
<1> USE DEF LedgerInv
<1>1. ASSUME NEW t \in Tokens, NEW s \in Sessions, NEW k \in Kinds, StartReserved(t, s, k)
      PROVE  UnbornHoldsNoSlot' /\ NeverUnderCounts' /\ CounterCeiling'
  BY <1>1, ReserveStep
<1>2. ASSUME NEW t \in Tokens, NEW s \in Sessions, StartManual(t, s)
      PROVE  UnbornHoldsNoSlot' /\ NeverUnderCounts' /\ CounterCeiling'
  <2>1. \A x \in Sessions : OpenOf(x)' = OpenOf(x)
    BY <1>2 DEF StartManual, ledger, OpenOf, UnbornHoldsNoSlot, LedgerTypeOK
  <2>2. \A x \in Sessions : /\ In(x, {"settled", "charged"})' = In(x, {"settled", "charged"})
                            /\ In(x, {"charged"})' = In(x, {"charged"})
    BY <1>2 DEF StartManual, In, LedgerTypeOK
  <2>3. reviews' = reviews
    BY <1>2 DEF StartManual, ledger
  <2>4. UnbornHoldsNoSlot'
    BY <1>2 DEF StartManual, ledger, UnbornHoldsNoSlot, LedgerTypeOK
  <2> QED BY <2>1, <2>2, <2>3, <2>4 DEF NeverUnderCounts, CounterCeiling
<1>3. ASSUME NEW t \in Tokens, GiveUp(t)
      PROVE  UnbornHoldsNoSlot' /\ NeverUnderCounts' /\ CounterCeiling'
  BY <1>3, CancelStep
<1>4. ASSUME NEW t \in Tokens, RefuseUnreadable(t) \/ CallReviewer(t) \/ CallFails(t) \/ Die(t)
      PROVE  UnbornHoldsNoSlot' /\ NeverUnderCounts' /\ CounterCeiling'
  <2>1. PICK p \in {"dead", "reviewing", "failed"} : Becomes(t, p)
    BY <1>4 DEF RefuseUnreadable, CallReviewer, CallFails, Die
  <2>2. UNCHANGED ledger /\ phase[t] \in {"reserved", "reviewing", "charging"}
    BY <1>4 DEF RefuseUnreadable, CallReviewer, CallFails, Die
  <2> QED BY <2>1, <2>2, QuietStep DEF ledger, Becomes, LedgerTypeOK, Paid
<1>5. ASSUME NEW t \in Tokens, Finish(t)
      PROVE  UnbornHoldsNoSlot' /\ NeverUnderCounts' /\ CounterCeiling'
  <2>1. CASE Settle(t) /\ Becomes(t, "settled")
    BY <1>5, <2>1, SettleStep DEF Finish
  <2>2. CASE Becomes(t, "charging") /\ UNCHANGED ledger
    BY <1>5, <2>2, QuietStep DEF Finish, ledger, Becomes, LedgerTypeOK, Paid
  <2> QED BY <1>5, <2>1, <2>2 DEF Finish
<1>6. ASSUME NEW t \in Tokens, FallBack(t)
      PROVE  UnbornHoldsNoSlot' /\ NeverUnderCounts' /\ CounterCeiling'
  <2>1. CASE Charge(owner[t]) /\ Becomes(t, "charged")
    BY <1>6, <2>1, ChargeStep DEF FallBack
  <2>2. CASE Becomes(t, "lost") /\ UNCHANGED ledger
    BY <1>6, <2>2, QuietStep DEF FallBack, ledger, Becomes, LedgerTypeOK, Paid
  <2> QED BY <1>6, <2>1, <2>2 DEF FallBack
<1>7. CASE Tick \/ Flip \/ UNCHANGED ledgerVars
  BY <1>7, QuietStep DEF Tick, Flip, ledgerVars, ledger, process
<1> QED BY <1>1, <1>2, <1>3, <1>4, <1>5, <1>6, <1>7 DEF LedgerNext

\* The counter covers every open slot and every paid review, for any number of sessions,
\* processes and ticks: no interleaving of reserve, cancel, settle, charge and reclaim
\* forgets a review the ledger was told about.
THEOREM LedgerNeverUnderCounts == LedgerSpec => []NeverUnderCounts
<1>1. LedgerInv => NeverUnderCounts
  BY DEF LedgerInv
<1> QED BY <1>1, InitLedger, NextLedger, PTL DEF LedgerSpec

\* The slots of a session respect its ceiling whatever the processes do: the counter bounds
\* the slots and the ceiling bounds the counter, but for what was charged without a slot.
THEOREM CeilingBoundsSlots == LedgerSpec => []SessionCeilingHeld
<1>1. LedgerInv => SessionCeilingHeld
  <2> SUFFICES ASSUME LedgerInv, MaxPerSession > 0, NEW s \in Sessions
               PROVE  Cardinality(OpenOf(s)) + Cardinality(In(s, {"settled"})) <= MaxPerSession
    BY DEF SessionCeilingHeld
  <2> USE DEF LedgerInv
  <2>1. /\ reviews[s] >= Cardinality(OpenOf(s)) + Cardinality(In(s, {"settled", "charged"}))
        /\ reviews[s] <= MaxPerSession + Cardinality(In(s, {"charged"}))
    BY DEF NeverUnderCounts, CounterCeiling
  <2>2. Cardinality(In(s, {"settled", "charged"}))
          = Cardinality(In(s, {"settled"})) + Cardinality(In(s, {"charged"}))
    <3>1. /\ In(s, {"settled", "charged"}) = In(s, {"settled"}) \cup In(s, {"charged"})
          /\ In(s, {"settled"}) \cap In(s, {"charged"}) = {}
      BY DEF In
    <3>2. IsFiniteSet(In(s, {"settled"})) /\ IsFiniteSet(In(s, {"charged"}))
      BY Counts, TokenSets
    <3>3. Cardinality(In(s, {"settled"}) \cup In(s, {"charged"}))
            = Cardinality(In(s, {"settled"})) + Cardinality(In(s, {"charged"}))
                - Cardinality(In(s, {"settled"}) \cap In(s, {"charged"}))
      BY <3>2, FS_Union
    <3>4. Cardinality(In(s, {"settled"}) \cap In(s, {"charged"})) = 0
      BY <3>1, FS_EmptySet
    <3>5. Cardinality(In(s, {"settled"})) \in Nat /\ Cardinality(In(s, {"charged"})) \in Nat
      BY Counts
    <3>6. Cardinality(In(s, {"settled", "charged"}))
            = Cardinality(In(s, {"settled"}) \cup In(s, {"charged"}))
      BY <3>1, Zenon
    <3> QED BY <3>3, <3>4, <3>5, <3>6
  <2>3. /\ Cardinality(OpenOf(s)) \in Nat /\ Cardinality(In(s, {"settled"})) \in Nat
        /\ Cardinality(In(s, {"charged"})) \in Nat /\ reviews[s] \in Nat /\ MaxPerSession \in Nat
    BY Counts, BudgetAssumption DEF LedgerTypeOK
  <2> QED BY <2>1, <2>2, <2>3
<1> QED BY <1>1, InitLedger, NextLedger, PTL DEF LedgerSpec

\* Reclaiming, cancelling and settling never take the slot of another process that is still
\* within its TTL.
THEOREM LiveHolderSafe == LedgerSpec => []LiveHolderKeepsSlot
<1>1. LedgerInit => LiveHolderKeepsSlot
  BY DEF LedgerInit, LiveHolderKeepsSlot
<1>2. LiveHolderKeepsSlot /\ LedgerInv /\ [LedgerNext]_ledgerVars => LiveHolderKeepsSlot'
  <2> SUFFICES ASSUME LiveHolderKeepsSlot, LedgerInv, [LedgerNext]_ledgerVars PROVE LiveHolderKeepsSlot'
    OBVIOUS
  <2> USE DEF LedgerInv, LedgerTypeOK, LiveHolderKeepsSlot
  <2>1. ASSUME NEW t \in Tokens, NEW s \in Sessions, NEW k \in Kinds, StartReserved(t, s, k)
        PROVE  LiveHolderKeepsSlot'
    BY <2>1, BudgetAssumption DEF StartReserved, Reserve, Expired
  <2>2. ASSUME NEW t \in Tokens, NEW s \in Sessions, StartManual(t, s)
        PROVE  LiveHolderKeepsSlot'
    BY <2>2 DEF StartManual, ledger
  <2>3. ASSUME NEW t \in Tokens, GiveUp(t)
        PROVE  LiveHolderKeepsSlot'
    BY <2>3 DEF GiveUp, Cancel, Becomes, ledger
  <2>4. ASSUME NEW t \in Tokens, RefuseUnreadable(t) \/ CallReviewer(t) \/ CallFails(t) \/ Die(t)
        PROVE  LiveHolderKeepsSlot'
    BY <2>4 DEF RefuseUnreadable, CallReviewer, CallFails, Die, Becomes, ledger
  <2>5. ASSUME NEW t \in Tokens, Finish(t)
        PROVE  LiveHolderKeepsSlot'
    BY <2>5 DEF Finish, Settle, Becomes, ledger
  <2>6. ASSUME NEW t \in Tokens, FallBack(t)
        PROVE  LiveHolderKeepsSlot'
    BY <2>6 DEF FallBack, Charge, Becomes, ledger
  <2>7. CASE Tick
    <3>1. /\ now' = now + 1 /\ open' = open /\ phase' = phase
          /\ kind' = kind /\ takenAt' = takenAt
      BY <2>7 DEF Tick, ledger, process
    <3>2. SlotTTL \in Nat
      BY BudgetAssumption
    <3>3. \A t \in Tokens : now' - takenAt'[t] <= SlotTTL => now - takenAt[t] <= SlotTTL
      BY <3>1, <3>2
    <3> QED BY <3>1, <3>3
  <2>8. CASE Flip \/ UNCHANGED ledgerVars
    BY <2>8 DEF Flip, ledgerVars, process
  <2> QED BY <2>1, <2>2, <2>3, <2>4, <2>5, <2>6, <2>7, <2>8 DEF LedgerNext
<1> QED BY <1>1, <1>2, InitLedger, NextLedger, PTL DEF LedgerSpec

(******************************* the pipeline *******************************)

Working == {"inferring", "delivering"}

PipelineTypes ==
    /\ pending \in SUBSET Jobs /\ started \in SUBSET Jobs /\ seen \in SUBSET Jobs
    /\ journal \in SUBSET Records
    /\ owed \in SUBSET (Jobs \X {"queued", "discarded", "stale"})
    /\ queue \in SUBSET Jobs /\ delivered \in SUBSET Jobs
    /\ runs \in [Jobs -> Nat]
    /\ stage \in Working => running \in seen

\* A model call is recorded before anything else happens.
RunsRecorded ==
    \A j \in Jobs : /\ runs[j] \in {0, 1}
                    /\ runs[j] = 1 <=> <<j, "started">> \in History

\* What the executor has, or is about to get, was never inferred.
QueuedIsUnpaid == \A j \in Jobs : j \in queue \/ <<j, "queued">> \in owed => runs[j] = 0

\* Nobody knows a job whose signal was not raised.
UnseenIsUnknown ==
    \A j \in Jobs \ seen :
        /\ j \notin pending \cup queue \cup delivered
        /\ \A what \in Ends \cup {"queued", "started", "undelivered"} : <<j, what>> \notin History

\* The scheduler holds no job that the Trace has ended, and knows which of its jobs started.
PendingIsOpen ==
    \A j \in pending : /\ \A end \in Ends : <<j, end>> \notin History
                       /\ <<j, "started">> \in History => j \in started

DeliveredIsDecided == \A j \in delivered : <<j, "decision">> \in History

PipelineInv ==
    /\ PipelineTypes
    /\ RunsRecorded
    /\ QueuedIsUnpaid
    /\ UnseenIsUnknown
    /\ PendingIsOpen
    /\ DeliveredIsDecided
    /\ DiscardedIsFree
    /\ WithdrawnNeverSpeaks

-----------------------------------------------------------------------------
(* Lemmas: one for each way in which the records of a job grow. *)

\* What only moves transitions to the journal, and takes jobs from the executor, changes nothing.
LEMMA NothingNew ==
    ASSUME PipelineInv, UNCHANGED <<pending, started, seen, runs, delivered>>,
           History' = History, journal' \in SUBSET Records, owed' \in SUBSET owed,
           \A j \in Jobs : j \in queue' => j \in queue \/ <<j, "queued">> \in owed,
           queue' \in SUBSET Jobs, stage' \in Working => running' \in seen
    PROVE  PipelineInv'
<1>1. PipelineTypes' /\ RunsRecorded' /\ QueuedIsUnpaid'
  BY DEF PipelineInv, PipelineTypes, RunsRecorded, QueuedIsUnpaid
<1>2. UnseenIsUnknown'
  <2>1. \A j \in Jobs : <<j, "queued">> \in owed => <<j, "queued">> \in History
    BY DEF History
  <2>. QED
    BY <2>1 DEF PipelineInv, UnseenIsUnknown
<1>3. PendingIsOpen' /\ DeliveredIsDecided'
  BY DEF PipelineInv, PendingIsOpen, DeliveredIsDecided
<1>4. DiscardedIsFree' /\ WithdrawnNeverSpeaks'
  BY DEF PipelineInv, DiscardedIsFree, WithdrawnNeverSpeaks
<1>. QED
  BY <1>1, <1>2, <1>3, <1>4 DEF PipelineInv

\* Jobs leave the scheduler unasked: each is recorded by whether its review had started.
LEMMA Withdrawal ==
    ASSUME PipelineInv, NEW D \in SUBSET pending,
           owed = {}, owed' = Discards(D), pending' = pending \ D, started' = started \ D,
           UNCHANGED <<seen, runs, journal, queue, delivered>>,
           stage' \in Working => running' \in seen
    PROVE  PipelineInv'
<1>1. /\ \A j \in Jobs, what \in {"queued", "started", "undelivered", "decision", "error", "capped"} :
            <<j, what>> \in History' <=> <<j, what>> \in History
      /\ \A j \in Jobs : <<j, "discarded">> \in History' <=>
            <<j, "discarded">> \in History \/ (j \in D /\ j \notin started)
      /\ \A j \in Jobs : <<j, "stale">> \in History' <=>
            <<j, "stale">> \in History \/ (j \in D /\ j \in started)
  <2>1. \A j, what : <<j, what>> \in Discards(D) <=>
            j \in D /\ what = (IF j \in started THEN "stale" ELSE "discarded")
    BY DEF Discards, Withdrawn
  <2>. QED
    BY <2>1 DEF History, Ends
<1>2. \A j \in D : j \in Jobs /\ j \in seen
  BY DEF PipelineInv, PipelineTypes, UnseenIsUnknown
<1>3. PipelineTypes'
  BY <1>2 DEF PipelineInv, PipelineTypes, Discards, Withdrawn
<1>4. RunsRecorded' /\ DeliveredIsDecided'
  BY <1>1 DEF PipelineInv, PipelineTypes, RunsRecorded, DeliveredIsDecided
<1>5. QueuedIsUnpaid'
  BY <1>1 DEF PipelineInv, QueuedIsUnpaid, Discards, Withdrawn
<1>6. UnseenIsUnknown'
  BY <1>1, <1>2 DEF PipelineInv, UnseenIsUnknown, Ends
<1>7. PendingIsOpen'
  BY <1>1 DEF PipelineInv, PipelineTypes, PendingIsOpen, Ends
<1>8. DiscardedIsFree'
  BY <1>1 DEF PipelineInv, DiscardedIsFree, PendingIsOpen
<1>9. WithdrawnNeverSpeaks'
  BY <1>1 DEF PipelineInv, PipelineTypes, WithdrawnNeverSpeaks, DeliveredIsDecided, PendingIsOpen, Ends
<1>. QED
  BY <1>3, <1>4, <1>5, <1>6, <1>7, <1>8, <1>9 DEF PipelineInv

\* A job ends: it leaves scheduler and queue with its last record.
LEMMA Closing ==
    ASSUME PipelineInv, NEW j \in seen, NEW end \in {"error", "capped", "decision"},
           owed = {}, owed' = {}, pending' = pending \ {j}, started' = started \ {j},
           journal' = journal \cup {<<j, end>>}, queue' \in SUBSET queue,
           UNCHANGED <<seen, runs, delivered>>, stage' \in Working => running' \in seen
    PROVE  PipelineInv'
<1>1. \A i, what : <<i, what>> \in History' <=> <<i, what>> \in History \/ (i = j /\ what = end)
  BY DEF History
<1>2. PipelineTypes'
  BY DEF PipelineInv, PipelineTypes, Records, Ends
<1>3. RunsRecorded' /\ QueuedIsUnpaid' /\ DeliveredIsDecided'
  BY <1>1 DEF PipelineInv, PipelineTypes, RunsRecorded, QueuedIsUnpaid, DeliveredIsDecided
<1>4. UnseenIsUnknown'
  BY <1>1 DEF PipelineInv, PipelineTypes, UnseenIsUnknown, Ends
<1>5. PendingIsOpen'
  BY <1>1 DEF PipelineInv, PipelineTypes, PendingIsOpen, Ends
<1>6. DiscardedIsFree' /\ WithdrawnNeverSpeaks'
  BY <1>1 DEF PipelineInv, PipelineTypes, DiscardedIsFree, WithdrawnNeverSpeaks
<1>. QED
  BY <1>2, <1>3, <1>4, <1>5, <1>6 DEF PipelineInv

-----------------------------------------------------------------------------
\* What the daemon observes of the thread withdraws jobs, and a disconnect withdraws none.
LEMMA ThreadStep ==
    ASSUME PipelineInv,
           TurnStarts \/ TurnAnswers \/ TurnEnds \/ Disconnect \/ Reconnect \/ \E j \in Jobs : Resolve(j)
    PROVE  PipelineInv'
<1>1. \A s : Stranded(s) \in SUBSET pending
  BY DEF Stranded
<1>2. stage' = stage /\ running' = running /\ seen' = seen
  BY DEF TurnStarts, TurnAnswers, TurnEnds, Disconnect, Reconnect, Resolve, executor, scheduler
<1>3. stage' \in Working => running' \in seen
  BY <1>2 DEF PipelineInv, PipelineTypes
<1>4. ASSUME NEW D \in SUBSET pending, NEW s, Observe(s, D), owed = {},
             UNCHANGED <<seen, journal, executor>>
      PROVE  PipelineInv'
  BY <1>3, <1>4, Withdrawal DEF Observe, Withdraw, executor
<1>5. CASE TurnStarts
  BY <1>1, <1>4, <1>5 DEF TurnStarts, Online
<1>6. CASE TurnAnswers
  BY <1>1, <1>4, <1>6 DEF TurnAnswers, Online
<1>7. CASE TurnEnds
  BY <1>4, <1>7 DEF TurnEnds, Online
<1>8. CASE Disconnect
  <2>1. History' = History /\ journal' = journal /\ owed' = owed
    BY <1>8 DEF Disconnect, History
  <2>. QED
    BY <1>3, <1>8, <2>1, NothingNew DEF Disconnect, executor, scheduler, PipelineInv, PipelineTypes
<1>9. CASE Reconnect
  BY <1>4, <1>9 DEF Reconnect, DroppedAtGap
<1>10. ASSUME NEW j \in Jobs, Resolve(j) PROVE PipelineInv'
  <2>1. {j} \cup Stranded(Rebased(st, epoch)) \in SUBSET pending
    BY <1>1, <1>10 DEF Resolve
  <2>. QED
    BY <1>4, <1>10, <2>1 DEF Resolve, Online
<1>. QED
  BY <1>5, <1>6, <1>7, <1>8, <1>9, <1>10

\* A new signal: the only step that lets a job into the scheduler.
LEMMA SignalStep ==
    ASSUME PipelineInv, NEW j \in Jobs, NEW turn, Signal(j, turn) PROVE PipelineInv'
<1>. DEFINE dropped == Stranded(st')
            live == st'.active = turn /\ st'.answer # turn
<1>1. /\ j \notin seen /\ owed = {} /\ seen' = seen \cup {j}
      /\ pending' = (pending \ dropped) \cup (IF live THEN {j} ELSE {})
      /\ started' = started \ dropped
      /\ owed' = Discards(dropped) \cup {Raised(j, live)}
      /\ UNCHANGED <<journal, queue, running, stage, runs, delivered>>
  BY DEF Signal, Online, executor
<1>2. dropped \in SUBSET pending
  BY DEF Stranded
<1>. HIDE DEF dropped, live
<1>3. \A i, what : <<i, what>> \in History' <=>
          \/ <<i, what>> \in History
          \/ i \in dropped /\ what = (IF i \in started THEN "stale" ELSE "discarded")
          \/ i = j /\ what = (IF live THEN "queued" ELSE "discarded")
  BY <1>1 DEF History, Discards, Withdrawn, Raised
<1>4. /\ j \notin pending \cup queue \cup delivered /\ runs[j] = 0
      /\ \A what \in Ends \cup {"queued", "started", "undelivered"} : <<j, what>> \notin History
  BY <1>1 DEF PipelineInv, PipelineTypes, UnseenIsUnknown, RunsRecorded
<1>5. \A i \in dropped : i \in Jobs /\ i \in seen /\ i # j
  BY <1>1, <1>2 DEF PipelineInv, PipelineTypes, UnseenIsUnknown
<1>6. PipelineTypes'
  BY <1>1, <1>5 DEF PipelineInv, PipelineTypes, Discards, Withdrawn, Raised
<1>7. RunsRecorded'
  BY <1>1, <1>3 DEF PipelineInv, PipelineTypes, RunsRecorded
<1>8. QueuedIsUnpaid'
  BY <1>1, <1>4 DEF PipelineInv, PipelineTypes, QueuedIsUnpaid, Discards, Withdrawn, Raised
<1>9. UnseenIsUnknown'
  BY <1>1, <1>2, <1>3, <1>5 DEF PipelineInv, PipelineTypes, UnseenIsUnknown
<1>10. PendingIsOpen'
  <2>1. ASSUME NEW i \in pending' PROVE i \in pending \ dropped \/ (i = j /\ live)
    BY <1>1
  <2>2. ASSUME NEW i \in pending \ dropped
        PROVE  /\ \A end \in Ends : <<i, end>> \notin History'
               /\ <<i, "started">> \in History' => i \in started'
    <3>1. i \in Jobs /\ i # j
      BY <1>4 DEF PipelineInv, PipelineTypes
    <3>. QED
      BY <1>1, <1>3, <3>1 DEF PipelineInv, PendingIsOpen
  <2>3. ASSUME live
        PROVE  /\ \A end \in Ends : <<j, end>> \notin History'
               /\ <<j, "started">> \notin History'
    BY <1>2, <1>3, <1>4, <2>3 DEF Ends
  <2>. QED
    BY <2>1, <2>2, <2>3 DEF PendingIsOpen
<1>11. DeliveredIsDecided'
  BY <1>1, <1>3 DEF PipelineInv, DeliveredIsDecided
<1>12. DiscardedIsFree'
  BY <1>1, <1>2, <1>3, <1>4 DEF PipelineInv, DiscardedIsFree, PendingIsOpen
<1>13. WithdrawnNeverSpeaks'
  <2>1. ASSUME NEW i \in delivered
        PROVE  i \notin dropped /\ i # j
    BY <1>2, <1>4 DEF PipelineInv, DeliveredIsDecided, PendingIsOpen, Ends
  <2>. QED
    BY <1>1, <1>3, <2>1 DEF PipelineInv, WithdrawnNeverSpeaks
<1>. QED
  BY <1>6, <1>7, <1>8, <1>9, <1>10, <1>11, <1>12, <1>13 DEF PipelineInv

-----------------------------------------------------------------------------
\* The model call starts: it was not paid for before, and the scheduler holds the job.
LEMMA InferStep == ASSUME PipelineInv, NEW j \in Jobs, Infer(j) PROVE PipelineInv'
<1>1. /\ owed = {} /\ j \in queue /\ j \in pending /\ runs[j] = 0 /\ j \in seen
      /\ \A end \in Ends : <<j, end>> \notin History
  BY DEF Infer, Settled, Fresh, PipelineInv, PipelineTypes, QueuedIsUnpaid, PendingIsOpen,
         UnseenIsUnknown
<1>2. /\ queue' = queue \ {j} /\ running' = j
      /\ runs' = [runs EXCEPT ![j] = @ + 1]
      /\ journal' = journal \cup {<<j, "started">>} /\ started' = started \cup {j}
      /\ UNCHANGED <<seen, pending, owed, delivered>>
  BY DEF Infer
<1>3. \A i, what : <<i, what>> \in History' <=> <<i, what>> \in History \/ (i = j /\ what = "started")
  BY <1>2 DEF History
<1>4. PipelineTypes'
  BY <1>1, <1>2 DEF PipelineInv, PipelineTypes, Records
<1>5. RunsRecorded' /\ QueuedIsUnpaid'
  BY <1>1, <1>2, <1>3 DEF PipelineInv, PipelineTypes, RunsRecorded, QueuedIsUnpaid
<1>6. UnseenIsUnknown' /\ PendingIsOpen' /\ DeliveredIsDecided'
  BY <1>1, <1>2, <1>3
     DEF PipelineInv, PipelineTypes, UnseenIsUnknown, PendingIsOpen, DeliveredIsDecided, Ends
<1>7. DiscardedIsFree' /\ WithdrawnNeverSpeaks'
  BY <1>1, <1>2, <1>3 DEF PipelineInv, DiscardedIsFree, WithdrawnNeverSpeaks, Ends
<1>. QED
  BY <1>4, <1>5, <1>6, <1>7 DEF PipelineInv

\* The decision: its job leaves the scheduler with others that are stranded, and speaks only if
\* the scheduler still held it.
LEMMA DecideStep ==
    ASSUME PipelineInv, NEW speaks \in BOOLEAN, NEW shadow \in BOOLEAN, Decide(speaks, shadow)
    PROVE  PipelineInv'
<1>. DEFINE s == Rebased(st, target[running].epoch)
            sent == (speaks /\ Fresh(running)) /\ Deliverable(running)
            refused == (speaks /\ Fresh(running)) /\ ~sent
            dropped == IF shadow \/ refused THEN Stranded(s) \ {running} ELSE {}
<1>1. /\ owed = {} /\ stage = "inferring" /\ running \in seen /\ running \in Jobs
      /\ pending' = pending \ (dropped \cup {running})
      /\ started' = started \ (dropped \cup {running})
      /\ owed' = Discards(dropped)
      /\ journal' = journal \cup {<<running, "decision">>}
                       \cup (IF refused THEN {<<running, "undelivered">>} ELSE {})
      /\ delivered' = (IF sent THEN delivered \cup {running} ELSE delivered)
      /\ UNCHANGED <<seen, queue, runs>>
  BY DEF Decide, Busy, Settled, Withdraw, PipelineInv, PipelineTypes, Working
<1>2. stage' \in Working => running' \in seen'
  BY <1>1 DEF Decide, Free, Working
<1>3. dropped \in SUBSET (pending \ {running})
  BY DEF Stranded
<1>4. sent => running \in pending
  BY DEF Fresh
<1>. HIDE DEF s, sent, refused, dropped
<1>5. \A i, what : <<i, what>> \in History' <=>
          \/ <<i, what>> \in History
          \/ i \in dropped /\ what = (IF i \in started THEN "stale" ELSE "discarded")
          \/ i = running /\ what = "decision"
          \/ i = running /\ refused /\ what = "undelivered"
  BY <1>1 DEF History, Discards, Withdrawn
<1>6. \A i \in dropped : i \in Jobs /\ i \in seen /\ i \in pending /\ i # running
  BY <1>3 DEF PipelineInv, PipelineTypes, UnseenIsUnknown
<1>7. PipelineTypes'
  BY <1>1, <1>2, <1>6 DEF PipelineInv, PipelineTypes, Discards, Withdrawn, Records, Ends
<1>8. RunsRecorded' /\ DeliveredIsDecided'
  BY <1>1, <1>5 DEF PipelineInv, PipelineTypes, RunsRecorded, DeliveredIsDecided
<1>9. QueuedIsUnpaid'
  BY <1>1 DEF PipelineInv, PipelineTypes, QueuedIsUnpaid, Discards, Withdrawn
<1>10. UnseenIsUnknown'
  BY <1>1, <1>5, <1>6 DEF PipelineInv, PipelineTypes, UnseenIsUnknown
<1>11. PendingIsOpen'
  BY <1>1, <1>5, <1>6 DEF PipelineInv, PipelineTypes, PendingIsOpen, Ends
<1>12. DiscardedIsFree'
  BY <1>1, <1>5, <1>6, ZenonT(40) DEF PipelineInv, DiscardedIsFree, PendingIsOpen
<1>13. WithdrawnNeverSpeaks'
  <2>1. ASSUME NEW i \in delivered PROVE i \notin dropped
    BY <1>6 DEF PipelineInv, DeliveredIsDecided, PendingIsOpen, Ends
  <2>2. ASSUME sent
        PROVE  {<<running, "discarded">>, <<running, "stale">>} \cap History = {}
    BY <1>4, <2>2 DEF PipelineInv, PendingIsOpen, Ends
  <2>. QED
    BY <1>1, <1>5, <1>6, <2>1, <2>2 DEF PipelineInv, WithdrawnNeverSpeaks
<1>. QED
  BY <1>7, <1>8, <1>9, <1>10, <1>11, <1>12, <1>13 DEF PipelineInv

\* A delivery that failed is recorded, and lets the scheduler look at the others.
LEMMA UndeliverStep == ASSUME PipelineInv, Undeliver PROVE PipelineInv'
<1>. DEFINE D == Stranded(Rebased(st, target[running].epoch))
<1>1. /\ owed = {} /\ running \in seen /\ running \in Jobs
      /\ pending' = pending \ D /\ started' = started \ D /\ owed' = Discards(D)
      /\ journal' = journal \cup {<<running, "undelivered">>}
      /\ stage' = "idle"
      /\ UNCHANGED <<seen, queue, runs, delivered>>
  BY DEF Undeliver, Busy, Settled, Free, Observe, Withdraw, PipelineInv, PipelineTypes, Working
<1>2. D \in SUBSET pending
  BY DEF Stranded
<1>. HIDE DEF D
<1>3. \A i, what : <<i, what>> \in History' <=>
          \/ <<i, what>> \in History
          \/ i \in D /\ what = (IF i \in started THEN "stale" ELSE "discarded")
          \/ i = running /\ what = "undelivered"
  BY <1>1 DEF History, Discards, Withdrawn
<1>4. \A i \in D : i \in Jobs /\ i \in seen /\ i \in pending /\ i \notin delivered
  BY <1>2 DEF PipelineInv, PipelineTypes, UnseenIsUnknown, DeliveredIsDecided, PendingIsOpen, Ends
<1>5. PipelineTypes'
  BY <1>1, <1>4 DEF PipelineInv, PipelineTypes, Discards, Withdrawn, Records, Working
<1>6. RunsRecorded' /\ DeliveredIsDecided'
  BY <1>1, <1>3 DEF PipelineInv, PipelineTypes, RunsRecorded, DeliveredIsDecided
<1>7. QueuedIsUnpaid'
  BY <1>1 DEF PipelineInv, PipelineTypes, QueuedIsUnpaid, Discards, Withdrawn
<1>8. UnseenIsUnknown'
  BY <1>1, <1>3, <1>4 DEF PipelineInv, PipelineTypes, UnseenIsUnknown
<1>9. PendingIsOpen'
  <2>1. ASSUME NEW i \in pending \ D
        PROVE  /\ \A end \in Ends : <<i, end>> \notin History'
               /\ <<i, "started">> \in History' => i \in started'
    <3>1. \A end \in Ends : end # "undelivered"
      BY DEF Ends
    <3>. QED
      BY <1>1, <1>3, <3>1 DEF PipelineInv, PendingIsOpen
  <2>. QED
    BY <1>1, <2>1 DEF PendingIsOpen
<1>10. DiscardedIsFree' /\ WithdrawnNeverSpeaks'
  BY <1>1, <1>3, <1>4 DEF PipelineInv, DiscardedIsFree, WithdrawnNeverSpeaks, PendingIsOpen
<1>. QED
  BY <1>5, <1>6, <1>7, <1>8, <1>9, <1>10 DEF PipelineInv

\* What the worker does.
LEMMA WorkerStep == ASSUME PipelineInv, Worker PROVE PipelineInv'
<1>. USE DEF Settled, Busy, Free
<1>1. ASSUME NEW j \in Jobs, Skip(j) PROVE PipelineInv'
  <2>1. History' = History
    BY <1>1 DEF Skip, History
  <2>. QED
    BY <1>1, <2>1, NothingNew DEF Skip, scheduler, PipelineInv, PipelineTypes
<1>2. ASSUME NEW j \in Jobs, NEW end \in {"error", "capped"}, Refuse(j, end) PROVE PipelineInv'
  <2>1. j \in seen
    BY <1>2 DEF Refuse, PipelineInv, UnseenIsUnknown
  <2>. QED
    BY <1>2, <2>1, Closing DEF Refuse, Close, Withdraw, PipelineInv, PipelineTypes
<1>3. CASE LoseCharge \/ Acknowledge
  <2>1. History' = History
    BY <1>3 DEF LoseCharge, Acknowledge, History
  <2>. QED
    BY <1>3, <2>1, NothingNew DEF LoseCharge, Acknowledge, scheduler, PipelineInv, PipelineTypes, Working
<1>4. CASE Fail
  <2>1. running \in seen
    BY <1>4 DEF Fail, PipelineInv, PipelineTypes, Working
  <2>. QED
    BY <1>4, <2>1, Closing DEF Fail, Close, Withdraw, PipelineInv, PipelineTypes, Working
<1>. QED
  BY <1>1, <1>2, <1>3, <1>4, InferStep, DecideStep, UndeliverStep DEF Worker

-----------------------------------------------------------------------------
\* A crash or a close, whatever the worker was doing.
LEMMA StopStep == ASSUME PipelineInv, Crash \/ Shutdown PROVE PipelineInv'
<1>. USE DEF Off
<1>1. CASE UNCHANGED <<pending, started, journal, owed>>
  <2>1. History' = History
    BY <1>1 DEF History
  <2>. QED
    BY <1>1, <2>1, NothingNew DEF Crash, Shutdown, PipelineInv, PipelineTypes, Working
<1>2. CASE Shutdown /\ stage = "inferring"
  <2>1. running \in seen
    BY <1>2 DEF PipelineInv, PipelineTypes, Working
  <2>. QED
    BY <1>2, <2>1, Closing DEF Shutdown, Settled, Close, Withdraw, PipelineInv, PipelineTypes, Working
<1>. QED
  BY <1>1, <1>2 DEF Crash, Shutdown

\* Hydration derives from the Trace what the scheduler held, and what was owed.
LEMMA RestartStep == ASSUME PipelineInv, Restart PROVE PipelineInv'
<1>1. /\ pending' = QueuedInHistory \ Ended /\ started' = StartedInHistory
      /\ journal' = History /\ owed' = {}
      /\ UNCHANGED <<seen, queue, running, stage, runs, delivered>>
  BY DEF Restart, executor
<1>2. History' = History
  BY <1>1 DEF History
<1>3. PipelineTypes'
  <2>1. History \in SUBSET Records
    BY DEF History, PipelineInv, PipelineTypes, Records, Ends
  <2>. QED
    BY <1>1, <2>1 DEF PipelineInv, PipelineTypes, QueuedInHistory, StartedInHistory
<1>4. RunsRecorded' /\ QueuedIsUnpaid' /\ DeliveredIsDecided'
  BY <1>1, <1>2 DEF PipelineInv, RunsRecorded, QueuedIsUnpaid, DeliveredIsDecided
<1>5. UnseenIsUnknown'
  BY <1>1, <1>2 DEF PipelineInv, UnseenIsUnknown, QueuedInHistory
<1>6. PendingIsOpen'
  BY <1>1, <1>2 DEF PendingIsOpen, QueuedInHistory, StartedInHistory, Ended
<1>7. DiscardedIsFree' /\ WithdrawnNeverSpeaks'
  BY <1>1, <1>2 DEF PipelineInv, DiscardedIsFree, WithdrawnNeverSpeaks
<1>. QED
  BY <1>3, <1>4, <1>5, <1>6, <1>7 DEF PipelineInv

\* The transitions reach the journal, and new jobs the executor.
LEMMA AppendStep == ASSUME PipelineInv, Append PROVE PipelineInv'
<1>1. History' = History
  BY DEF Append, History
<1>2. journal' \in SUBSET Records /\ queue' \in SUBSET Jobs
  BY DEF Append, PipelineInv, PipelineTypes, Records, Ends
<1>. QED
  BY <1>1, <1>2, NothingNew DEF Append, scheduler, PipelineInv, PipelineTypes, Working

-----------------------------------------------------------------------------
\* The three results rest on one invariant.
LEMMA PipelineInvariant == Spec => []PipelineInv
<1>1. Init => PipelineInv
  BY DEF Init, PipelineInv, PipelineTypes, RunsRecorded, QueuedIsUnpaid, UnseenIsUnknown,
         PendingIsOpen, DeliveredIsDecided, DiscardedIsFree, WithdrawnNeverSpeaks, History, Records,
         Working
<1>2. ASSUME PipelineInv, [Next]_vars PROVE PipelineInv'
  <2>1. CASE UNCHANGED vars
    <3>1. History' = History
      BY <2>1 DEF vars, History, scheduler, executor
    <3>. QED
      BY <1>2, <2>1, <3>1, NothingNew DEF vars, scheduler, executor, PipelineInv, PipelineTypes
  <2>. QED
    BY <1>2, <2>1, ThreadStep, SignalStep, WorkerStep, StopStep, RestartStep, AppendStep DEF Next
<1>. QED
  BY <1>1, <1>2, PTL DEF Spec

\* An advisory is never sent for a job that was withdrawn while its review ran, and a job that
\* was sent is never withdrawn later (ReviewExecutor._run against ReviewScheduler.update).
THEOREM WithdrawnStaySilent == Spec => []WithdrawnNeverSpeaks
BY PipelineInvariant, PTL DEF PipelineInv

\* A job is paid for once, whatever is lost, restarted or signalled again.
THEOREM PaidOnce == Spec => []InferredOnce
<1>1. ASSUME PipelineInv, NEW j \in Jobs PROVE runs[j] <= 1
  <2>1. runs[j] = 0 \/ runs[j] = 1
    BY <1>1 DEF PipelineInv, RunsRecorded
  <2>. QED
    BY <2>1, SMT
<1>2. PipelineInv => InferredOnce
  BY <1>1 DEF InferredOnce
<1>. QED
  BY <1>2, PipelineInvariant, PTL

\* "discarded" means that no review was paid for, across restarts.
THEOREM DiscardedWasFree == Spec => []DiscardedIsFree
BY PipelineInvariant, PTL DEF PipelineInv

-----------------------------------------------------------------------------
ConnectionInv == DOMAIN target = Jobs /\ PendingThisConnection

\* A reconciled connection starts with an empty scheduler, so no job of an older connection
\* outlives it: what is pending while a connection is ready was raised on it.
THEOREM NoJobOutlivesItsConnection == Spec => []PendingThisConnection
<1>1. Init => ConnectionInv
  BY DEF Init, ConnectionInv, PendingThisConnection
<1>2. ASSUME PipelineInv, ConnectionInv, [Next]_vars PROVE ConnectionInv'
  <2>1. ASSUME NEW j \in Jobs, NEW turn, Signal(j, turn) PROVE ConnectionInv'
    <3>1. j \notin seen /\ target' = [target EXCEPT ![j] = Bound(turn)] /\ epoch' = epoch /\ conn' = conn
      BY <2>1 DEF Signal, thread
    <3>2. pending' \in SUBSET (pending \cup {j}) /\ conn = "ready"
      BY <2>1 DEF Signal, Online
    <3>3. j \notin pending
      BY <1>2, <3>1 DEF PipelineInv, UnseenIsUnknown
    <3>. QED
      BY <1>2, <3>1, <3>2, <3>3 DEF ConnectionInv, PendingThisConnection, Bound
  <2>2. CASE Reconnect
    <3>1. pending' = {}
      BY <2>2 DEF Reconnect, Observe, Withdraw, DroppedAtGap
    <3>. QED
      BY <1>2, <2>2, <3>1 DEF Reconnect, ConnectionInv, PendingThisConnection
  <2>3. CASE Restart
    BY <1>2, <2>3 DEF Restart, scheduler, ConnectionInv, PendingThisConnection
  <2>4. CASE Disconnect \/ Crash \/ Shutdown
    BY <1>2, <2>4 DEF Disconnect, Crash, Shutdown, Off, scheduler, ConnectionInv, PendingThisConnection
  <2>5. CASE \/ TurnStarts \/ TurnAnswers \/ TurnEnds \/ Append \/ Worker
             \/ UNCHANGED vars \/ \E j \in Jobs : Resolve(j)
    <3>1. pending' \in SUBSET pending /\ UNCHANGED <<conn, epoch, target>>
      BY <2>5
         DEF TurnStarts, TurnAnswers, TurnEnds, Append, Worker, vars, Resolve, Skip, Infer, Refuse, Close,
             Decide, Fail, LoseCharge, Acknowledge, Undeliver, Observe, Withdraw, thread, scheduler
    <3>. QED
      BY <1>2, <3>1 DEF ConnectionInv, PendingThisConnection
  <2>. QED
    BY <1>2, <2>1, <2>2, <2>3, <2>4, <2>5 DEF Next
<1>. QED
  BY <1>1, <1>2, PipelineInvariant, PTL DEF Spec, ConnectionInv

=============================================================================
