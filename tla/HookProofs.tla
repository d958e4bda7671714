------------------------------ MODULE HookProofs ------------------------------
(***************************************************************************)
(* What a Hook process leaves and what it says.  Journalled snapshots stay  *)
(* pinned, and pinned ones survive, for any number of snapshots, sessions,  *)
(* writers and directories.  What a Hook does with the daemon's answer, or  *)
(* without one, is what the policy it resolved says, and it is silent at    *)
(* the start of a session only if that session was observed, for any number *)
(* of Hooks, policies, builds, turns and connections, and any Gate.         *)
(***************************************************************************)
EXTENDS SnapshotStore, GateExchange, TLAPS

(***************************** the store ***********************************)

Active == {"locked", "pinned", "ready"}

\* The global lock is what its name says: who works on refs holds it.
LockInv ==
    /\ \A w \in Writers : pc[w] \in Active => lock = w
    /\ sweep.pc # "idle" => lock = Sweeper

\* A record that names snapshot x, and that prune is run for.
Names(r, x) == r.snap = x /\ ~ SweptFor(r)

\* What a writer knows of the snapshot it is about to record.  A ref it made can be undone
\* without harm: nobody pinned it, and the records that name it lost it to an age policy.
DraftInv ==
    \A w \in Writers :
        /\ pc[w] \in {"idle", "begun", "locked"} => draft[w].snap = NoSnapshot
        /\ pc[w] = "pinned" => draft[w].snap \in refs
        /\ pc[w] = "ready" => draft[w].snap \in (refs \cap owned) \cup {NoSnapshot}
        /\ pc[w] = "pinned" /\ new[w] =>
              /\ draft[w].snap \notin pins
              /\ \A s \in Sessions : \A r \in journal[s] :
                    Names(r, draft[w].snap) => r.snap \in expired

\* What the sweeper knows: a journal it deleted names nothing, and once it has scanned the
\* others, it keeps all they name.
SweepInv ==
    /\ sweep.pc # "idle" =>
          /\ sweep.dir \in PrunedDirs \cup {AnyDir}
          /\ sweep.roots = pins
          /\ \A s \in sweep.removed : \A r \in journal[s] : r.snap = NoSnapshot
    /\ sweep.pc = "scanned" =>
          \A s \in Sessions : \A r \in journal[s] :
              r.snap # NoSnapshot /\ ~ SweptFor(r) => r.snap \in sweep.keep

StoreInv ==
    /\ TypeOK
    /\ LockInv
    /\ DraftInv
    /\ SweepInv
    /\ JournalledIsPinned
    /\ PinnedSurvives

-----------------------------------------------------------------------------
(* Lemmas about the writers' helpers. *)

\* The previous snapshot of a session that has one.
LEMMA PreviousType ==
    ASSUME StoreInv, NEW w \in Writers, last[SessionOf[w]] # NoSnapshot
    PROVE  last[SessionOf[w]] \in Snapshots
BY SnapshotAssumption DEF StoreInv, TypeOK, Optional

\* A record is appended: types, and nothing else of the writer's session.
LEMMA AppendTypes ==
    ASSUME StoreInv, NEW w \in Writers, Append(w)
    PROVE  /\ journal' \in [Sessions -> SUBSET Records]
           /\ last' \in [Sessions -> Optional]
           /\ fresh' \in SUBSET Sessions
           /\ draft' \in [Writers -> Records]
           /\ expired' \in SUBSET Snapshots
<1>1. SessionOf[w] \in Sessions /\ draft[w] \in Records
  BY SnapshotAssumption DEF StoreInv, TypeOK
<1>2. draft[w].snap \in Optional
  BY <1>1 DEF Records
<1>3. Empty \in Records
  BY DEF Empty, Records, Optional
<1>4. journal' \in [Sessions -> SUBSET Records]
  BY <1>1 DEF Append, StoreInv, TypeOK
<1>5. last' \in [Sessions -> Optional]
  BY <1>1, <1>2 DEF Append, StoreInv, TypeOK
<1>. QED
  BY <1>1, <1>3, <1>4, <1>5 DEF Append, StoreInv, TypeOK

\* A snapshot is pinned: the draft names it.
LEMMA PinTypes ==
    ASSUME StoreInv, NEW w \in Writers, NEW x \in Snapshots, Pin(w, x)
    PROVE  draft' \in [Writers -> Records] /\ new' \in [Writers -> BOOLEAN]
<1>1. draft[w] \in Records
  BY DEF StoreInv, TypeOK
<1>2. [draft[w] EXCEPT !.snap = x] \in Records
  BY <1>1 DEF Records, Optional
<1>. QED
  BY <1>2 DEF Pin, StoreInv, TypeOK

\* A ref that did not exist is nobody's pin, and who named it lost it to an age policy.
LEMMA PinDraft ==
    ASSUME StoreInv, NEW w \in Writers, NEW x \in Snapshots, Pin(w, x), UNCHANGED expired
    PROVE  DraftInv'
<1>1. x \notin refs =>
        /\ x \notin pins
        /\ \A s \in Sessions : \A r \in journal[s] : Names(r, x) => r.snap \in expired
  BY SnapshotAssumption DEF StoreInv, PinnedSurvives, JournalledIsPinned, Names
<1>2. draft'[w].snap = x /\ pc'[w] = "pinned" /\ new'[w] = (x \notin refs)
  BY DEF Pin, Goto, StoreInv, TypeOK, Records
<1>3. ASSUME NEW u \in Writers, u # w
      PROVE  draft'[u] = draft[u] /\ pc'[u] = pc[u] /\ new'[u] = new[u]
  BY <1>3 DEF Pin, Goto, StoreInv, TypeOK
<1>4. refs' = refs \cup {x} /\ owned' = owned /\ pins' = pins /\ journal' = journal
  BY DEF Pin, journals
<1>5. \A r, y : Names(r, y)' = Names(r, y)
  BY DEF Names, SweptFor
<1>. QED
  BY <1>1, <1>2, <1>3, <1>4, <1>5 DEF StoreInv, DraftInv

-----------------------------------------------------------------------------
(* Every step preserves the invariant. *)

\* Every step preserves the types.
LEMMA TypeStep ==
    ASSUME StoreInv, [Next]_vars
    PROVE  TypeOK'
<1>1. ASSUME NEW w \in Writers, NEW kind \in {"placed", "result", "other"}, Begin(w, kind)
      PROVE  TypeOK'
  <2>1. last[SessionOf[w]] \in Optional
    BY SnapshotAssumption DEF StoreInv, TypeOK
  <2>2. PICK dir \in Dirs \cup {NoDir}, checkpoint \in Optional :
          draft' = [draft EXCEPT ![w] =
              [snap |-> NoSnapshot, checkpoint |-> checkpoint, dir |-> dir]]
    BY <1>1, <2>1 DEF Begin, Optional
  <2>3. draft' \in [Writers -> Records]
    BY <2>2 DEF StoreInv, TypeOK, Records, Optional
  <2>. QED
    BY <1>1, <2>3 DEF Begin, Goto, git, journals, StoreInv, TypeOK
<1>2. ASSUME NEW w \in Writers, AppendPlain(w)
      PROVE  TypeOK'
  BY <1>2, AppendTypes DEF AppendPlain, Goto, StoreInv, TypeOK
<1>3. ASSUME NEW w \in Writers, Acquire(w)
      PROVE  TypeOK'
  BY <1>3 DEF Acquire, Goto, git, journals, StoreInv, TypeOK
<1>4. ASSUME NEW w \in Writers, Reuse(w)
      PROVE  TypeOK'
  BY <1>4, PreviousType, PinTypes DEF Reuse, Pin, Goto, journals, StoreInv, TypeOK
<1>5. ASSUME NEW w \in Writers, NEW x \in Snapshots, Mint(w, x)
      PROVE  TypeOK'
  BY <1>5, PinTypes DEF Mint, Pin, Goto, journals, StoreInv, TypeOK
<1>6. ASSUME NEW w \in Writers, Forgo(w)
      PROVE  TypeOK'
  BY <1>6 DEF Forgo, Goto, git, journals, StoreInv, TypeOK
<1>7. ASSUME NEW w \in Writers, Own(w)
      PROVE  TypeOK'
  <2>1. draft[w].snap \in Snapshots
    BY <1>7 DEF Own, StoreInv, DraftInv, TypeOK
  <2>. QED
    BY <1>7, <2>1 DEF Own, Goto, git, journals, StoreInv, TypeOK
<1>8. ASSUME NEW w \in Writers, Rollback(w)
      PROVE  TypeOK'
  BY <1>8 DEF Rollback, Goto, journals, StoreInv, TypeOK, Records, Optional
<1>9. ASSUME NEW w \in Writers, Record(w)
      PROVE  TypeOK'
  BY <1>9, AppendTypes DEF Record, Goto, StoreInv, TypeOK
<1>10. ASSUME NEW w \in Writers, Kill(w)
      PROVE  TypeOK'
  BY <1>10 DEF Kill, Goto, Empty, git, journals, StoreInv, TypeOK, Records, Optional
<1>11. ASSUME NEW dir \in PrunedDirs, NEW expire \in BOOLEAN, NEW stale \in BOOLEAN,
           PruneStart(dir, expire, stale)
      PROVE  TypeOK'
  BY <1>11, SnapshotAssumption
  DEF PruneStart, Start, Idle, git, journals, writer, StoreInv, TypeOK, Sweeps
<1>12. CASE PurgeStart
  BY <1>12 DEF PurgeStart, Start, Idle, git, journals, writer, StoreInv, TypeOK, Sweeps
<1>13. ASSUME NEW s \in Sessions, DeleteJournal(s)
      PROVE  TypeOK'
  BY <1>13
  DEF DeleteJournal, git, writer, StoreInv, TypeOK, Optional, Records, Sweeps, Counts,
      Counted, Roots
<1>14. ASSUME NEW s \in Sessions, SpareJournal(s)
      PROVE  TypeOK'
  BY <1>14 DEF SpareJournal, git, journals, writer, StoreInv, TypeOK, Sweeps
<1>15. CASE Scan
  <2>1. \A r \in Counted : r.snap \in Optional /\ r.checkpoint \in Optional
    BY DEF Counted, StoreInv, TypeOK, Records
  <2>2. Roots \ {NoSnapshot} \in SUBSET Snapshots
    BY <2>1 DEF Roots, Optional
  <2>. QED
    BY <1>15, <2>2 DEF Scan, git, journals, writer, StoreInv, TypeOK, Sweeps
<1>16. CASE PruneRefs
  BY <1>16 DEF PruneRefs, Finish, Idle, journals, writer, StoreInv, TypeOK, Sweeps
<1>17. ASSUME NEW x \in Snapshots, PurgeRef(x)
      PROVE  TypeOK'
  BY <1>17 DEF PurgeRef, journals, writer, StoreInv, TypeOK
<1>18. CASE RemoveRegistry
  BY <1>18 DEF RemoveRegistry, Finish, Idle, git, journals, writer, StoreInv, TypeOK, Sweeps
<1>19. CASE Stop
  BY <1>19 DEF Stop, Finish, Idle, git, journals, writer, StoreInv, TypeOK, Sweeps
<1>20. ASSUME NEW x \in Snapshots, FindPin(x)
      PROVE  TypeOK'
  BY <1>20 DEF FindPin, git, journals, writer, StoreInv, TypeOK, Optional
<1>21. CASE AddPin
  BY <1>21 DEF AddPin, git, journals, writer, StoreInv, TypeOK, Optional
<1>22. ASSUME NEW x \in Snapshots, RemovePin(x)
      PROVE  TypeOK'
  BY <1>22 DEF RemovePin, git, journals, writer, StoreInv, TypeOK
<1>23. ASSUME NEW s \in Sessions, PurgeData(s)
      PROVE  TypeOK'
  BY <1>23 DEF PurgeData, git, writer, StoreInv, TypeOK, Optional
<1>24. CASE DaysPass
  BY <1>24 DEF DaysPass, writer, StoreInv, TypeOK
<1>25. ASSUME NEW x \in Snapshots, Gc(x)
      PROVE  TypeOK'
  BY <1>25 DEF Gc, journals, writer, StoreInv, TypeOK
<1>26. CASE UNCHANGED vars
  BY <1>26 DEF vars, git, journals, writer, StoreInv, TypeOK
<1>. QED
  BY <1>1, <1>2, <1>3, <1>4, <1>5, <1>6, <1>7, <1>8, <1>9, <1>10, <1>11, <1>12, <1>13,
     <1>14, <1>15, <1>16, <1>17, <1>18, <1>19, <1>20, <1>21, <1>22, <1>23, <1>24, <1>25,
     <1>26
  DEF Next, WriterStep, SweeperStep, OperatorStep

\* Every step leaves the lock with whom it belongs to.
LEMMA LockStep ==
    ASSUME StoreInv, [Next]_vars
    PROVE  LockInv'
<1>1. ASSUME NEW w \in Writers, NEW kind \in {"placed", "result", "other"}, Begin(w, kind)
      PROVE  LockInv'
  BY <1>1 DEF Begin, Goto, Records, Empty, git, journals, StoreInv, LockInv, TypeOK, Active
<1>2. ASSUME NEW w \in Writers, AppendPlain(w)
      PROVE  LockInv'
  BY <1>2 DEF AppendPlain, Append, Goto, Empty, StoreInv, LockInv, TypeOK, Active
<1>3. ASSUME NEW w \in Writers, Acquire(w)
      PROVE  LockInv'
  BY <1>3, SnapshotAssumption DEF Acquire, Goto, git, journals, StoreInv, LockInv
<1>4. ASSUME NEW w \in Writers, Reuse(w)
      PROVE  LockInv'
  BY <1>4 DEF Reuse, Pin, Goto, journals, StoreInv, LockInv, TypeOK, Active
<1>5. ASSUME NEW w \in Writers, NEW x \in Snapshots, Mint(w, x)
      PROVE  LockInv'
  BY <1>5 DEF Mint, Pin, Goto, journals, StoreInv, LockInv, TypeOK, Active
<1>6. ASSUME NEW w \in Writers, Forgo(w)
      PROVE  LockInv'
  BY <1>6 DEF Forgo, Goto, git, journals, StoreInv, LockInv, TypeOK, Active
<1>7. ASSUME NEW w \in Writers, Own(w)
      PROVE  LockInv'
  BY <1>7 DEF Own, Goto, git, journals, StoreInv, LockInv, TypeOK, Active
<1>8. ASSUME NEW w \in Writers, Rollback(w)
      PROVE  LockInv'
  BY <1>8 DEF Rollback, Goto, journals, StoreInv, LockInv, TypeOK, Active
<1>9. ASSUME NEW w \in Writers, Record(w)
      PROVE  LockInv'
  BY <1>9, SnapshotAssumption
  DEF Record, Append, Goto, Empty, StoreInv, LockInv, TypeOK, Active
<1>10. ASSUME NEW w \in Writers, Kill(w)
      PROVE  LockInv'
  BY <1>10, SnapshotAssumption
  DEF Kill, Goto, Empty, git, journals, StoreInv, LockInv, TypeOK, Active
<1>11. ASSUME NEW dir \in PrunedDirs, NEW expire \in BOOLEAN, NEW stale \in BOOLEAN,
           PruneStart(dir, expire, stale)
      PROVE  LockInv'
  BY <1>11, SnapshotAssumption
  DEF PruneStart, Start, Idle, git, journals, writer, StoreInv, LockInv
<1>12. CASE PurgeStart
  BY <1>12, SnapshotAssumption
  DEF PurgeStart, Start, Idle, git, journals, writer, StoreInv, LockInv
<1>13. ASSUME NEW s \in Sessions, DeleteJournal(s)
      PROVE  LockInv'
  BY <1>13 DEF DeleteJournal, git, writer, StoreInv, LockInv
<1>14. ASSUME NEW s \in Sessions, SpareJournal(s)
      PROVE  LockInv'
  BY <1>14 DEF SpareJournal, git, journals, writer, StoreInv, LockInv
<1>15. CASE Scan
  BY <1>15 DEF Scan, git, journals, writer, StoreInv, LockInv
<1>16. CASE PruneRefs
  BY <1>16, SnapshotAssumption
  DEF PruneRefs, Finish, Idle, journals, writer, StoreInv, LockInv
<1>17. ASSUME NEW x \in Snapshots, PurgeRef(x)
      PROVE  LockInv'
  BY <1>17 DEF PurgeRef, journals, writer, StoreInv, LockInv
<1>18. CASE RemoveRegistry
  BY <1>18, SnapshotAssumption
  DEF RemoveRegistry, Finish, Idle, git, journals, writer, StoreInv, LockInv
<1>19. CASE Stop
  BY <1>19, SnapshotAssumption
  DEF Stop, Finish, Idle, git, journals, writer, StoreInv, LockInv
<1>20. ASSUME NEW x \in Snapshots, FindPin(x)
      PROVE  LockInv'
  BY <1>20 DEF FindPin, git, journals, writer, StoreInv, LockInv
<1>21. CASE AddPin
  BY <1>21 DEF AddPin, git, journals, writer, StoreInv, LockInv
<1>22. ASSUME NEW x \in Snapshots, RemovePin(x)
      PROVE  LockInv'
  BY <1>22 DEF RemovePin, git, journals, writer, StoreInv, LockInv
<1>23. ASSUME NEW s \in Sessions, PurgeData(s)
      PROVE  LockInv'
  BY <1>23 DEF PurgeData, git, writer, StoreInv, LockInv
<1>24. CASE DaysPass
  BY <1>24 DEF DaysPass, writer, StoreInv, LockInv
<1>25. ASSUME NEW x \in Snapshots, Gc(x)
      PROVE  LockInv'
  BY <1>25 DEF Gc, journals, writer, StoreInv, LockInv
<1>26. CASE UNCHANGED vars
  BY <1>26 DEF vars, git, journals, writer, StoreInv, LockInv
<1>. QED
  BY <1>1, <1>2, <1>3, <1>4, <1>5, <1>6, <1>7, <1>8, <1>9, <1>10, <1>11, <1>12, <1>13,
     <1>14, <1>15, <1>16, <1>17, <1>18, <1>19, <1>20, <1>21, <1>22, <1>23, <1>24, <1>25,
     <1>26
  DEF Next, WriterStep, SweeperStep, OperatorStep

\* Every step preserves what the writers know.
LEMMA DraftStep ==
    ASSUME StoreInv, [Next]_vars
    PROVE  DraftInv'
<1>1. ASSUME NEW w \in Writers, NEW kind \in {"placed", "result", "other"}, Begin(w, kind)
      PROVE  DraftInv'
  BY <1>1 DEF Begin, Goto, Records, Empty, git, journals, StoreInv, DraftInv
<1>2. ASSUME NEW w \in Writers, AppendPlain(w)
      PROVE  DraftInv'
  BY <1>2, SnapshotAssumption
  DEF AppendPlain, Append, Goto, Empty, StoreInv, DraftInv, TypeOK, Names
<1>3. ASSUME NEW w \in Writers, Acquire(w)
      PROVE  DraftInv'
  BY <1>3 DEF Acquire, Goto, git, journals, StoreInv, DraftInv
<1>4. ASSUME NEW w \in Writers, Reuse(w)
      PROVE  DraftInv'
  BY <1>4, PreviousType, PinDraft DEF Reuse
<1>5. ASSUME NEW w \in Writers, NEW x \in Snapshots, Mint(w, x)
      PROVE  DraftInv'
  BY <1>5, PinDraft DEF Mint
<1>6. ASSUME NEW w \in Writers, Forgo(w)
      PROVE  DraftInv'
  BY <1>6 DEF Forgo, Goto, git, journals, StoreInv, DraftInv
<1>7. ASSUME NEW w \in Writers, Own(w)
      PROVE  DraftInv'
  BY <1>7 DEF Own, Goto, git, journals, StoreInv, DraftInv
<1>8. ASSUME NEW w \in Writers, Rollback(w)
      PROVE  DraftInv'
  BY <1>8 DEF Rollback, Goto, journals, StoreInv, DraftInv, TypeOK, LockInv, Active
<1>9. ASSUME NEW w \in Writers, Record(w)
      PROVE  DraftInv'
  BY <1>9 DEF Record, Append, Goto, Empty, StoreInv, DraftInv, TypeOK, LockInv, Active
<1>10. ASSUME NEW w \in Writers, Kill(w)
      PROVE  DraftInv'
  BY <1>10 DEF Kill, Goto, Empty, git, journals, StoreInv, DraftInv, TypeOK
<1>11. ASSUME NEW dir \in PrunedDirs, NEW expire \in BOOLEAN, NEW stale \in BOOLEAN,
           PruneStart(dir, expire, stale)
      PROVE  DraftInv'
  BY <1>11 DEF PruneStart, Start, Idle, git, journals, writer, StoreInv, DraftInv
<1>12. CASE PurgeStart
  BY <1>12 DEF PurgeStart, Start, Idle, git, journals, writer, StoreInv, DraftInv
<1>13. ASSUME NEW s \in Sessions, DeleteJournal(s)
      PROVE  DraftInv'
  BY <1>13 DEF DeleteJournal, git, writer, StoreInv, DraftInv
<1>14. ASSUME NEW s \in Sessions, SpareJournal(s)
      PROVE  DraftInv'
  BY <1>14 DEF SpareJournal, git, journals, writer, StoreInv, DraftInv
<1>15. CASE Scan
  BY <1>15 DEF Scan, git, journals, writer, StoreInv, DraftInv
<1>16. CASE PruneRefs
  BY <1>16, SnapshotAssumption
  DEF PruneRefs, Finish, Idle, journals, writer, StoreInv, DraftInv, TypeOK, LockInv, Active
<1>17. ASSUME NEW x \in Snapshots, PurgeRef(x)
      PROVE  DraftInv'
  BY <1>17, SnapshotAssumption
  DEF PurgeRef, journals, writer, StoreInv, DraftInv, TypeOK, LockInv, Active
<1>18. CASE RemoveRegistry
  BY <1>18 DEF RemoveRegistry, Finish, Idle, git, journals, writer, StoreInv, DraftInv
<1>19. CASE Stop
  BY <1>19 DEF Stop, Finish, Idle, git, journals, writer, StoreInv, DraftInv
<1>20. ASSUME NEW x \in Snapshots, FindPin(x)
      PROVE  DraftInv'
  BY <1>20 DEF FindPin, git, journals, writer, StoreInv, DraftInv
<1>21. CASE AddPin
  BY <1>21, SnapshotAssumption
  DEF AddPin, git, journals, writer, StoreInv, DraftInv, TypeOK, LockInv, Active
<1>22. ASSUME NEW x \in Snapshots, RemovePin(x)
      PROVE  DraftInv'
  BY <1>22 DEF RemovePin, git, journals, writer, StoreInv, DraftInv
<1>23. ASSUME NEW s \in Sessions, PurgeData(s)
      PROVE  DraftInv'
  BY <1>23 DEF PurgeData, git, writer, StoreInv, DraftInv
<1>24. CASE DaysPass
  BY <1>24 DEF DaysPass, writer, StoreInv, DraftInv
<1>25. ASSUME NEW x \in Snapshots, Gc(x)
      PROVE  DraftInv'
  BY <1>25 DEF Gc, journals, writer, StoreInv, DraftInv
<1>26. CASE UNCHANGED vars
  BY <1>26 DEF vars, git, journals, writer, StoreInv, DraftInv
<1>. QED
  BY <1>1, <1>2, <1>3, <1>4, <1>5, <1>6, <1>7, <1>8, <1>9, <1>10, <1>11, <1>12, <1>13,
     <1>14, <1>15, <1>16, <1>17, <1>18, <1>19, <1>20, <1>21, <1>22, <1>23, <1>24, <1>25,
     <1>26
  DEF Next, WriterStep, SweeperStep, OperatorStep

\* Every step preserves what the sweeper knows.
LEMMA SweepStep ==
    ASSUME StoreInv, [Next]_vars
    PROVE  SweepInv'
<1>1. ASSUME NEW w \in Writers, NEW kind \in {"placed", "result", "other"}, Begin(w, kind)
      PROVE  SweepInv'
  BY <1>1 DEF Begin, Goto, Records, Empty, git, journals, StoreInv, SweepInv
<1>2. ASSUME NEW w \in Writers, AppendPlain(w)
      PROVE  SweepInv'
  BY <1>2
  DEF AppendPlain, Append, Goto, Empty, StoreInv, SweepInv, TypeOK, LockInv, Active, DraftInv
<1>3. ASSUME NEW w \in Writers, Acquire(w)
      PROVE  SweepInv'
  BY <1>3 DEF Acquire, Goto, git, journals, StoreInv, SweepInv
<1>4. ASSUME NEW w \in Writers, Reuse(w)
      PROVE  SweepInv'
  BY <1>4 DEF Reuse, Pin, Goto, journals, StoreInv, SweepInv
<1>5. ASSUME NEW w \in Writers, NEW x \in Snapshots, Mint(w, x)
      PROVE  SweepInv'
  BY <1>5 DEF Mint, Pin, Goto, journals, StoreInv, SweepInv
<1>6. ASSUME NEW w \in Writers, Forgo(w)
      PROVE  SweepInv'
  BY <1>6 DEF Forgo, Goto, git, journals, StoreInv, SweepInv
<1>7. ASSUME NEW w \in Writers, Own(w)
      PROVE  SweepInv'
  BY <1>7 DEF Own, Goto, git, journals, StoreInv, SweepInv
<1>8. ASSUME NEW w \in Writers, Rollback(w)
      PROVE  SweepInv'
  BY <1>8 DEF Rollback, Goto, journals, StoreInv, SweepInv
<1>9. ASSUME NEW w \in Writers, Record(w)
      PROVE  SweepInv'
  BY <1>9, SnapshotAssumption
  DEF Record, Append, Goto, Empty, StoreInv, SweepInv, TypeOK, LockInv, Active
<1>10. ASSUME NEW w \in Writers, Kill(w)
      PROVE  SweepInv'
  BY <1>10 DEF Kill, Goto, Empty, git, journals, StoreInv, SweepInv
<1>11. ASSUME NEW dir \in PrunedDirs, NEW expire \in BOOLEAN, NEW stale \in BOOLEAN,
           PruneStart(dir, expire, stale)
      PROVE  SweepInv'
  BY <1>11
  DEF PruneStart, Start, Idle, git, journals, writer, StoreInv, SweepInv, TypeOK,
      PinnedSurvives
<1>12. CASE PurgeStart
  BY <1>12 DEF PurgeStart, Start, Idle, git, journals, writer, StoreInv, SweepInv
<1>13. ASSUME NEW s \in Sessions, DeleteJournal(s)
      PROVE  SweepInv'
  BY <1>13 DEF DeleteJournal, git, writer, StoreInv, SweepInv, TypeOK
<1>14. ASSUME NEW s \in Sessions, SpareJournal(s)
      PROVE  SweepInv'
  BY <1>14 DEF SpareJournal, git, journals, writer, StoreInv, SweepInv
<1>15. CASE Scan
  <2>1. /\ sweep'.pc = "scanned" /\ sweep'.keep = Roots \ {NoSnapshot}
        /\ sweep'.dir = sweep.dir /\ sweep'.roots = sweep.roots /\ sweep'.removed = sweep.removed
        /\ sweep.pc = "deleting"
        /\ journal' = journal /\ pins' = pins
    BY <1>15 DEF Scan, StoreInv, TypeOK, Sweeps, journals
  <2>2. ASSUME NEW s \in Sessions, NEW r \in journal[s], r.snap # NoSnapshot, ~ SweptFor(r)
        PROVE  r.snap \in sweep'.keep
    <3>1. s \notin sweep.removed
      BY <2>1, <2>2 DEF StoreInv, SweepInv
    <3>2. Counts(r)
      BY <2>1, <2>2 DEF StoreInv, SweepInv, SweptFor, Counts
    <3>3. r \in Counted
      BY <3>1, <3>2 DEF Counted
    <3>. QED
      BY <2>1, <2>2, <3>3 DEF Roots
  <2>. QED
    BY <2>1, <2>2 DEF StoreInv, SweepInv, SweptFor
<1>16. CASE PruneRefs
  BY <1>16 DEF PruneRefs, Finish, Idle, journals, writer, StoreInv, SweepInv
<1>17. ASSUME NEW x \in Snapshots, PurgeRef(x)
      PROVE  SweepInv'
  BY <1>17 DEF PurgeRef, journals, writer, StoreInv, SweepInv
<1>18. CASE RemoveRegistry
  BY <1>18 DEF RemoveRegistry, Finish, Idle, git, journals, writer, StoreInv, SweepInv
<1>19. CASE Stop
  BY <1>19 DEF Stop, Finish, Idle, git, journals, writer, StoreInv, SweepInv
<1>20. ASSUME NEW x \in Snapshots, FindPin(x)
      PROVE  SweepInv'
  BY <1>20 DEF FindPin, git, journals, writer, StoreInv, SweepInv
<1>21. CASE AddPin
  BY <1>21, SnapshotAssumption
  DEF AddPin, git, journals, writer, StoreInv, SweepInv, TypeOK, LockInv
<1>22. ASSUME NEW x \in Snapshots, RemovePin(x)
      PROVE  SweepInv'
  BY <1>22, SnapshotAssumption
  DEF RemovePin, git, journals, writer, StoreInv, SweepInv, TypeOK, LockInv
<1>23. ASSUME NEW s \in Sessions, PurgeData(s)
      PROVE  SweepInv'
  BY <1>23 DEF PurgeData, git, writer, StoreInv, SweepInv
<1>24. CASE DaysPass
  BY <1>24 DEF DaysPass, writer, StoreInv, SweepInv
<1>25. ASSUME NEW x \in Snapshots, Gc(x)
      PROVE  SweepInv'
  BY <1>25 DEF Gc, journals, writer, StoreInv, SweepInv
<1>26. CASE UNCHANGED vars
  BY <1>26 DEF vars, git, journals, writer, StoreInv, SweepInv
<1>. QED
  BY <1>1, <1>2, <1>3, <1>4, <1>5, <1>6, <1>7, <1>8, <1>9, <1>10, <1>11, <1>12, <1>13,
     <1>14, <1>15, <1>16, <1>17, <1>18, <1>19, <1>20, <1>21, <1>22, <1>23, <1>24, <1>25,
     <1>26
  DEF Next, WriterStep, SweeperStep, OperatorStep

\* No step removes a manual pin's ref, or its owner.
LEMMA PinnedStep ==
    ASSUME StoreInv, [Next]_vars
    PROVE  PinnedSurvives'
<1>1. ASSUME NEW w \in Writers, NEW kind \in {"placed", "result", "other"}, Begin(w, kind)
      PROVE  PinnedSurvives'
  BY <1>1 DEF Begin, Goto, Records, Empty, git, journals, StoreInv, PinnedSurvives
<1>2. ASSUME NEW w \in Writers, AppendPlain(w)
      PROVE  PinnedSurvives'
  BY <1>2 DEF AppendPlain, Append, Goto, Empty, StoreInv, PinnedSurvives
<1>3. ASSUME NEW w \in Writers, Acquire(w)
      PROVE  PinnedSurvives'
  BY <1>3 DEF Acquire, Goto, git, journals, StoreInv, PinnedSurvives
<1>4. ASSUME NEW w \in Writers, Reuse(w)
      PROVE  PinnedSurvives'
  BY <1>4 DEF Reuse, Pin, Goto, journals, StoreInv, PinnedSurvives
<1>5. ASSUME NEW w \in Writers, NEW x \in Snapshots, Mint(w, x)
      PROVE  PinnedSurvives'
  BY <1>5 DEF Mint, Pin, Goto, journals, StoreInv, PinnedSurvives
<1>6. ASSUME NEW w \in Writers, Forgo(w)
      PROVE  PinnedSurvives'
  BY <1>6 DEF Forgo, Goto, git, journals, StoreInv, PinnedSurvives
<1>7. ASSUME NEW w \in Writers, Own(w)
      PROVE  PinnedSurvives'
  BY <1>7 DEF Own, Goto, git, journals, StoreInv, PinnedSurvives
<1>8. ASSUME NEW w \in Writers, Rollback(w)
      PROVE  PinnedSurvives'
  BY <1>8 DEF Rollback, Goto, journals, StoreInv, PinnedSurvives
<1>9. ASSUME NEW w \in Writers, Record(w)
      PROVE  PinnedSurvives'
  BY <1>9 DEF Record, Append, Goto, Empty, StoreInv, PinnedSurvives
<1>10. ASSUME NEW w \in Writers, Kill(w)
      PROVE  PinnedSurvives'
  BY <1>10 DEF Kill, Goto, Empty, git, journals, StoreInv, PinnedSurvives
<1>11. ASSUME NEW dir \in PrunedDirs, NEW expire \in BOOLEAN, NEW stale \in BOOLEAN,
           PruneStart(dir, expire, stale)
      PROVE  PinnedSurvives'
  BY <1>11 DEF PruneStart, Start, Idle, git, journals, writer, StoreInv, PinnedSurvives
<1>12. CASE PurgeStart
  BY <1>12 DEF PurgeStart, Start, Idle, git, journals, writer, StoreInv, PinnedSurvives
<1>13. ASSUME NEW s \in Sessions, DeleteJournal(s)
      PROVE  PinnedSurvives'
  BY <1>13 DEF DeleteJournal, git, writer, StoreInv, PinnedSurvives
<1>14. ASSUME NEW s \in Sessions, SpareJournal(s)
      PROVE  PinnedSurvives'
  BY <1>14 DEF SpareJournal, git, journals, writer, StoreInv, PinnedSurvives
<1>15. CASE Scan
  BY <1>15 DEF Scan, git, journals, writer, StoreInv, PinnedSurvives
<1>16. CASE PruneRefs
  BY <1>16 DEF PruneRefs, Finish, Idle, journals, writer, StoreInv, PinnedSurvives
<1>17. ASSUME NEW x \in Snapshots, PurgeRef(x)
      PROVE  PinnedSurvives'
  BY <1>17 DEF PurgeRef, journals, writer, StoreInv, PinnedSurvives
<1>18. CASE RemoveRegistry
  BY <1>18 DEF RemoveRegistry, Finish, Idle, git, journals, writer, StoreInv, PinnedSurvives
<1>19. CASE Stop
  BY <1>19 DEF Stop, Finish, Idle, git, journals, writer, StoreInv, PinnedSurvives
<1>20. ASSUME NEW x \in Snapshots, FindPin(x)
      PROVE  PinnedSurvives'
  BY <1>20 DEF FindPin, git, journals, writer, StoreInv, PinnedSurvives
<1>21. CASE AddPin
  BY <1>21 DEF AddPin, git, journals, writer, StoreInv, PinnedSurvives
<1>22. ASSUME NEW x \in Snapshots, RemovePin(x)
      PROVE  PinnedSurvives'
  BY <1>22 DEF RemovePin, git, journals, writer, StoreInv, PinnedSurvives
<1>23. ASSUME NEW s \in Sessions, PurgeData(s)
      PROVE  PinnedSurvives'
  BY <1>23 DEF PurgeData, git, writer, StoreInv, PinnedSurvives
<1>24. CASE DaysPass
  BY <1>24 DEF DaysPass, writer, StoreInv, PinnedSurvives
<1>25. ASSUME NEW x \in Snapshots, Gc(x)
      PROVE  PinnedSurvives'
  BY <1>25 DEF Gc, journals, writer, StoreInv, PinnedSurvives
<1>26. CASE UNCHANGED vars
  BY <1>26 DEF vars, git, journals, writer, StoreInv, PinnedSurvives
<1>. QED
  BY <1>1, <1>2, <1>3, <1>4, <1>5, <1>6, <1>7, <1>8, <1>9, <1>10, <1>11, <1>12, <1>13,
     <1>14, <1>15, <1>16, <1>17, <1>18, <1>19, <1>20, <1>21, <1>22, <1>23, <1>24, <1>25,
     <1>26
  DEF Next, WriterStep, SweeperStep, OperatorStep

\* No step leaves a record without its ref.
LEMMA JournalStep ==
    ASSUME StoreInv, [Next]_vars
    PROVE  JournalledIsPinned'
<1>1. ASSUME NEW w \in Writers, NEW kind \in {"placed", "result", "other"}, Begin(w, kind)
      PROVE  JournalledIsPinned'
  BY <1>1 DEF Begin, Goto, Records, Empty, git, journals, StoreInv, JournalledIsPinned
<1>2. ASSUME NEW w \in Writers, AppendPlain(w)
      PROVE  JournalledIsPinned'
  BY <1>2
  DEF AppendPlain, Append, Goto, Empty, StoreInv, JournalledIsPinned, TypeOK, DraftInv
<1>3. ASSUME NEW w \in Writers, Acquire(w)
      PROVE  JournalledIsPinned'
  BY <1>3 DEF Acquire, Goto, git, journals, StoreInv, JournalledIsPinned
<1>4. ASSUME NEW w \in Writers, Reuse(w)
      PROVE  JournalledIsPinned'
  BY <1>4 DEF Reuse, Pin, Goto, journals, StoreInv, JournalledIsPinned
<1>5. ASSUME NEW w \in Writers, NEW x \in Snapshots, Mint(w, x)
      PROVE  JournalledIsPinned'
  BY <1>5 DEF Mint, Pin, Goto, journals, StoreInv, JournalledIsPinned
<1>6. ASSUME NEW w \in Writers, Forgo(w)
      PROVE  JournalledIsPinned'
  BY <1>6 DEF Forgo, Goto, git, journals, StoreInv, JournalledIsPinned
<1>7. ASSUME NEW w \in Writers, Own(w)
      PROVE  JournalledIsPinned'
  BY <1>7 DEF Own, Goto, git, journals, StoreInv, JournalledIsPinned
<1>8. ASSUME NEW w \in Writers, Rollback(w)
      PROVE  JournalledIsPinned'
  BY <1>8 DEF Rollback, Goto, journals, StoreInv, JournalledIsPinned, TypeOK, DraftInv, Names
<1>9. ASSUME NEW w \in Writers, Record(w)
      PROVE  JournalledIsPinned'
  BY <1>9 DEF Record, Append, Goto, Empty, StoreInv, JournalledIsPinned, TypeOK, DraftInv
<1>10. ASSUME NEW w \in Writers, Kill(w)
      PROVE  JournalledIsPinned'
  BY <1>10 DEF Kill, Goto, Empty, git, journals, StoreInv, JournalledIsPinned
<1>11. ASSUME NEW dir \in PrunedDirs, NEW expire \in BOOLEAN, NEW stale \in BOOLEAN,
           PruneStart(dir, expire, stale)
      PROVE  JournalledIsPinned'
  BY <1>11 DEF PruneStart, Start, Idle, git, journals, writer, StoreInv, JournalledIsPinned
<1>12. CASE PurgeStart
  BY <1>12 DEF PurgeStart, Start, Idle, git, journals, writer, StoreInv, JournalledIsPinned
<1>13. ASSUME NEW s \in Sessions, DeleteJournal(s)
      PROVE  JournalledIsPinned'
  BY <1>13 DEF DeleteJournal, git, writer, StoreInv, JournalledIsPinned
<1>14. ASSUME NEW s \in Sessions, SpareJournal(s)
      PROVE  JournalledIsPinned'
  BY <1>14 DEF SpareJournal, git, journals, writer, StoreInv, JournalledIsPinned
<1>15. CASE Scan
  BY <1>15 DEF Scan, git, journals, writer, StoreInv, JournalledIsPinned
<1>16. CASE PruneRefs
  BY <1>16
  DEF PruneRefs, Finish, Idle, journals, writer, StoreInv, JournalledIsPinned, TypeOK,
      SweepInv
<1>17. ASSUME NEW x \in Snapshots, PurgeRef(x)
      PROVE  JournalledIsPinned'
  BY <1>17 DEF PurgeRef, journals, writer, StoreInv, JournalledIsPinned, TypeOK, SweepInv
<1>18. CASE RemoveRegistry
  BY <1>18
  DEF RemoveRegistry, Finish, Idle, git, journals, writer, StoreInv, JournalledIsPinned
<1>19. CASE Stop
  BY <1>19 DEF Stop, Finish, Idle, git, journals, writer, StoreInv, JournalledIsPinned
<1>20. ASSUME NEW x \in Snapshots, FindPin(x)
      PROVE  JournalledIsPinned'
  BY <1>20 DEF FindPin, git, journals, writer, StoreInv, JournalledIsPinned
<1>21. CASE AddPin
  BY <1>21 DEF AddPin, git, journals, writer, StoreInv, JournalledIsPinned
<1>22. ASSUME NEW x \in Snapshots, RemovePin(x)
      PROVE  JournalledIsPinned'
  BY <1>22 DEF RemovePin, git, journals, writer, StoreInv, JournalledIsPinned
<1>23. ASSUME NEW s \in Sessions, PurgeData(s)
      PROVE  JournalledIsPinned'
  BY <1>23 DEF PurgeData, git, writer, StoreInv, JournalledIsPinned
<1>24. CASE DaysPass
  BY <1>24 DEF DaysPass, writer, StoreInv, JournalledIsPinned
<1>25. ASSUME NEW x \in Snapshots, Gc(x)
      PROVE  JournalledIsPinned'
  BY <1>25 DEF Gc, journals, writer, StoreInv, JournalledIsPinned
<1>26. CASE UNCHANGED vars
  BY <1>26 DEF vars, git, journals, writer, StoreInv, JournalledIsPinned
<1>. QED
  BY <1>1, <1>2, <1>3, <1>4, <1>5, <1>6, <1>7, <1>8, <1>9, <1>10, <1>11, <1>12, <1>13,
     <1>14, <1>15, <1>16, <1>17, <1>18, <1>19, <1>20, <1>21, <1>22, <1>23, <1>24, <1>25,
     <1>26
  DEF Next, WriterStep, SweeperStep, OperatorStep

-----------------------------------------------------------------------------
(* The theorems. *)

\* The invariant holds initially ...
LEMMA InitStep == Init => StoreInv
<1>. SUFFICES ASSUME Init PROVE StoreInv
  OBVIOUS
<1>1. TypeOK
  BY SnapshotAssumption DEF Init, TypeOK, Optional, Records, Empty, Sweeps, Idle
<1>. QED
  BY <1>1 DEF Init, StoreInv, LockInv, Active, DraftInv, Empty, SweepInv, Idle,
              JournalledIsPinned, PinnedSurvives

\* ... and every step preserves it.
LEMMA StepPreserves == StoreInv /\ [Next]_vars => StoreInv'
BY TypeStep, LockStep, DraftStep, SweepStep, JournalStep, PinnedStep DEF StoreInv

\* Writers hold the lock, the sweeper keeps what the journals name, and both know what they
\* rely on, in every reachable state.
THEOREM StoreIsSound == Spec => []StoreInv
BY InitStep, StepPreserves, PTL DEF Spec

\* Every reachable state is well typed.
THEOREM TypeCorrect == Spec => []TypeOK
<1>1. StoreInv => TypeOK
  BY DEF StoreInv
<1>. QED
  BY <1>1, StoreIsSound, PTL

\* A journalled snapshot stays pinned, for every number of writers and every interleaving with
\* prune, purge, crashes and the collection of garbage.
THEOREM JournalledStaysPinned == Spec => []JournalledIsPinned
<1>1. StoreInv => JournalledIsPinned
  BY DEF StoreInv
<1>. QED
  BY <1>1, StoreIsSound, PTL

\* A manual pin keeps its ref and its owner.
THEOREM PinsSurvive == Spec => []PinnedSurvives
<1>1. StoreInv => PinnedSurvives
  BY DEF StoreInv
<1>. QED
  BY <1>1, StoreIsSound, PTL

\* Only Record() makes a journal name a snapshot, and its ref exists and is owned then.
LEMMA RecordStep ==
    ASSUME StoreInv, Next, NEW s \in Sessions, NEW r \in journal'[s] \ journal[s],
           r.snap # NoSnapshot
    PROVE  r.snap \in refs' \cap owned'
<1>1. ASSUME NEW w \in Writers, Append(w) PROVE r = draft[w]
  BY <1>1, SnapshotAssumption DEF Append, StoreInv, TypeOK
<1>2. ASSUME NEW w \in Writers, AppendPlain(w) PROVE FALSE
  BY <1>1, <1>2 DEF AppendPlain, StoreInv, DraftInv
<1>3. ASSUME NEW w \in Writers, Record(w) PROVE r.snap \in refs' \cap owned'
  BY <1>1, <1>3 DEF Record, StoreInv, DraftInv
<1>4. ASSUME NEW u \in Sessions, journal' = [journal EXCEPT ![u] = {}] PROVE FALSE
  BY <1>4 DEF StoreInv, TypeOK
<1>5. journal' # journal
  OBVIOUS
<1>6. CASE \E w \in Writers : WriterStep(w)
  BY <1>2, <1>3, <1>5, <1>6 DEF WriterStep, Begin, Acquire, Reuse, Mint, Pin, Forgo, Own,
      Rollback, Kill, journals
<1>7. CASE SweeperStep
  BY <1>4, <1>5, <1>7 DEF SweeperStep, PruneStart, PurgeStart, Start, DeleteJournal,
      SpareJournal, Scan, PruneRefs, PurgeRef, RemoveRegistry, Stop, journals
<1>8. CASE OperatorStep
  BY <1>4, <1>5, <1>8 DEF OperatorStep, FindPin, AddPin, RemovePin, PurgeData, DaysPass, Gc,
      journals
<1>. QED
  BY <1>6, <1>7, <1>8 DEF Next

\* No crash, refusal or sweep makes a record name a snapshot that is not pinned and owned.
THEOREM RecordsAreOwned == Spec => RecordedOnceOwned
<1>1. StoreInv /\ [Next]_vars =>
        [\A s \in Sessions : \A r \in journal'[s] \ journal[s] :
            r.snap # NoSnapshot => r.snap \in refs' \cap owned']_vars
  BY RecordStep
<1>. QED
  BY <1>1, StoreIsSound, PTL DEF Spec, RecordedOnceOwned

(***************************** the exchange ********************************)
\* The policy of a Hook does not change once it asks, so an answer of the daemon is the verdict
\* of that policy however late it comes.

Gate == {"allow", "uncertain", "deny"}
HookSteps1 == {"idle", "fence", "resolve", "ask", "waiting", "observe", "done"}
Statuses == {"ok", "stale", "protocol_error", "timeout", "unavailable", "capture_only", "failed"}
HookRecords ==
    [pc : HookSteps1, proposal : Proposals \cup {None}, turn : Nat, generation : Nat, build : Nat,
     policy : Policies \cup {None}, status : Statuses \cup {None}, verdict : Gate \cup {None, "error"},
     journaled : {None, "gate_block", "gate_shadow_block", "gate_fail_open"},
     answer : {None, "allow", "warn", "deny"}, seen : SUBSET Contacts, lost : BOOLEAN]
HandlerRecords ==
    [pc : {"none", "sent", "answered", "noted", "closed"}, verdict : Gate \cup {None, "error"},
     observing : BOOLEAN]

ExchangeTypes ==
    /\ config \in Policies \cup {Unusable}
    /\ installed \in Nat /\ fence \in Nat /\ turn \in Nat /\ turns \in Nat
    /\ hook \in [Hooks -> HookRecords]
    /\ handler \in [Hooks -> HandlerRecords]

\* What is so of the process x of a Hook and the daemon's task y for it.
Asks(x) == x.proposal # None
Stops(x) == /\ ~Observes(x.policy) /\ x.status # "capture_only"
            /\ Verdict(x.policy, x.proposal) = "deny"
Judges(x, y) ==
    /\ y.pc # "none" => x.pc \in {"waiting", "observe", "done"} /\ x.policy \in Policies
    /\ x.pc \in {"ask", "waiting", "observe"} => x.policy \in Policies
    /\ y.pc \in {"answered", "noted"} /\ Asks(x) => y.verdict \in {"error", Verdict(x.policy, x.proposal)}
    /\ x.pc = "observe" =>
          /\ Asks(x)
          /\ \/ x.status = "protocol_error" /\ x.verdict = "uncertain"
             \/ /\ x.status \in {"ok", "timeout", "unavailable", "capture_only"}
                /\ x.verdict = Verdict(x.policy, x.proposal)
    /\ x.pc # "done" => x.answer = None
    /\ x.pc \in {"idle", "fence", "resolve"} => x.status = None
    /\ x.answer = "deny" => Stops(x)
    /\ x.pc = "done" /\ Asks(x) /\ x.status \in {"ok", "timeout", "unavailable"} /\ Stops(x) =>
          x.answer = "deny"

PolicyInv == ExchangeTypes /\ \A h \in Hooks : Judges(hook[h], handler[h])

\* The contacts while a Hook ran are remembered, and a thread is current only on a connection
\* that has to do with it.
Quiet(x) == x.proposal = None /\ x.status = "ok" /\ x.answer = "allow"
Known == contact # "none"
Remembers(x, y, known) ==
    /\ x.pc \notin {"idle", "done"} /\ known => x.seen # {}
    /\ y.observing => x.pc = "done" \/ (x.pc # "idle" /\ x.seen # {})
    /\ Quiet(x) => x.seen # {}
DaemonRecords ==
    [up : BOOLEAN, build : Nat, ready : BOOLEAN, epoch : Nat, policy : Policies]
ThreadRecords ==
    [epoch : Nat, active : Nat, ready : BOOLEAN, completed : SUBSET Nat, answer : Nat]
CurrentInv ==
    /\ daemon \in DaemonRecords
    /\ contact \in Contacts \cup {"none"}
    /\ thread \in ThreadRecords /\ thread.epoch <= daemon.epoch
    /\ Confirms(thread) => Known
SeenInv == CurrentInv /\ \A h \in Hooks : Remembers(hook[h], handler[h], Known)

(***************************** the judged policy ****************************)

\* What a step does to one Hook and its task is all there is to show of it.
LEMMA OneMoves ==
    ASSUME PolicyInv, NEW h \in Hooks,
           config' \in Policies \cup {Unusable}, installed' \in Nat, fence' \in Nat,
           turn' \in Nat, turns' \in Nat,
           hook' \in [Hooks -> HookRecords], handler' \in [Hooks -> HandlerRecords],
           \A g \in Hooks \ {h} : hook'[g] = hook[g] /\ handler'[g] = handler[g],
           Judges(hook'[h], handler'[h])
    PROVE  PolicyInv'
  <1>1. ExchangeTypes'
    BY DEF ExchangeTypes
  <1>2. ASSUME NEW g \in Hooks PROVE Judges(hook'[g], handler'[g])
    <2>1. CASE g = h
      BY <2>1
    <2>2. CASE g # h
      <3>1. Judges(hook[g], handler[g])
        BY DEF PolicyInv
      <3>2. hook'[g] = hook[g] /\ handler'[g] = handler[g]
        BY <2>2
      <3> QED
        BY <3>1, <3>2
    <2> QED
      BY <2>1, <2>2
  <1> QED
    BY <1>1, <1>2 DEF PolicyInv

\* A Hook that moves leaves the daemon's task for it alone, or has it begin.
LEMMA HookMoves ==
    ASSUME PolicyInv, NEW h \in Hooks, NEW to \in HookRecords, NEW as \in HandlerRecords,
           Moves(h, to), handler' = [handler EXCEPT ![h] = as], Judges(to, as)
    PROVE  PolicyInv'
  <1>1. /\ hook \in [Hooks -> HookRecords] /\ handler \in [Hooks -> HandlerRecords]
        /\ config \in Policies \cup {Unusable} /\ installed \in Nat /\ fence \in Nat
        /\ turn \in Nat /\ turns \in Nat
    BY DEF PolicyInv, ExchangeTypes
  <1>2. /\ hook' = [hook EXCEPT ![h] = to]
        /\ config' = config /\ installed' = installed /\ fence' = fence
        /\ turn' = turn /\ turns' = turns
    BY DEF Moves, files, agent
  <1>3. /\ hook' \in [Hooks -> HookRecords] /\ handler' \in [Hooks -> HandlerRecords]
        /\ hook'[h] = to /\ handler'[h] = as
        /\ \A g \in Hooks \ {h} : hook'[g] = hook[g] /\ handler'[g] = handler[g]
    BY <1>1, <1>2
  <1>4. Judges(hook'[h], handler'[h])
    BY <1>3
  <1> QED
    BY <1>1, <1>2, <1>3, <1>4, OneMoves

\* One Hook's record and task, as every step finds them.
LEMMA Standing ==
    ASSUME PolicyInv, NEW h \in Hooks
    PROVE  /\ hook[h] \in HookRecords /\ handler[h] \in HandlerRecords
           /\ Judges(hook[h], handler[h])
           /\ handler = [handler EXCEPT ![h] = handler[h]]
           /\ Resolved \in Policies
  <1>1. /\ hook[h] \in HookRecords /\ handler[h] \in HandlerRecords
        /\ handler = [handler EXCEPT ![h] = handler[h]]
    BY DEF PolicyInv, ExchangeTypes
  <1>2. Resolved \in Policies
    BY ExchangeAssumption DEF PolicyInv, ExchangeTypes, Resolved
  <1> QED
    BY <1>1, <1>2 DEF PolicyInv

LEMMA LaunchJudged ==
    ASSUME PolicyInv, NEW h \in Hooks, Launch(h)
    PROVE  PolicyInv'
  <1>1. PICK g \in {fence, 0}, p \in Proposals \cup {None} :
          Moves(h, [hook[h] EXCEPT !.pc = "fence", !.proposal = p, !.turn = turn,
                                   !.generation = g, !.build = installed,
                                   !.seen = Mark(contact)])
    BY DEF Launch
  <1> DEFINE to == [hook[h] EXCEPT !.pc = "fence", !.proposal = p, !.turn = turn,
                                   !.generation = g, !.build = installed,
                                   !.seen = Mark(contact)]
  <1>2. /\ hook[h].pc = "idle" /\ handler' = handler
        /\ turn \in Nat /\ g \in Nat /\ installed \in Nat /\ Mark(contact) \in SUBSET Contacts
    BY DEF Launch, PolicyInv, ExchangeTypes, Mark
  <1>3. /\ to \in HookRecords
        /\ to.pc = "fence" /\ to.answer = hook[h].answer /\ to.status = hook[h].status
    BY <1>2, Standing, ZenonT(40) DEF HookRecords, HookSteps1
  <1>4. handler[h].pc = "none" /\ hook[h].answer = None /\ hook[h].status = None
    BY <1>2, Standing DEF Judges, HandlerRecords
  <1>5. Judges(to, handler[h])
    <2> HIDE DEF to
    <2> QED
      BY <1>3, <1>4, ExchangeAssumption DEF Judges
  <1>6. handler' = [handler EXCEPT ![h] = handler[h]]
    BY <1>2, Standing
  <1>7. Moves(h, to)
    BY <1>1
  <1>8. handler[h] \in HandlerRecords
    BY Standing
  <1> HIDE DEF to
  <1> QED
    BY <1>3, <1>5, <1>6, <1>7, <1>8, HookMoves

\* A Hook without a usable reply goes on with a verdict of its own, or warns.
LEMMA WithoutJudged ==
    ASSUME PolicyInv, NEW h \in Hooks, NEW as \in HandlerRecords,
           NEW status \in {"protocol_error", "timeout", "unavailable", "capture_only"},
           hook[h].pc \in {"ask", "waiting"}, Judges(hook[h], as),
           status = "capture_only" => Asks(hook[h])
    PROVE  Without(h, status) \in HookRecords /\ Judges(Without(h, status), as)
  <1> DEFINE x == hook[h]
             verdict == IF status = "protocol_error" THEN "uncertain"
                        ELSE Verdict(x.policy, x.proposal)
  <1>1. /\ x \in HookRecords /\ x.policy \in Policies /\ x.answer = None
        /\ x.proposal \in Proposals \cup {None}
    BY Standing DEF Judges, HookRecords
  <1>2. CASE ~Asks(x)
    <2> DEFINE to == [x EXCEPT !.pc = "done", !.status = status, !.answer = "warn"]
    <2>1. /\ to \in HookRecords /\ to.pc = "done" /\ to.answer = "warn"
          /\ to.proposal = x.proposal /\ to.policy = x.policy
      BY <1>1, ZenonT(40) DEF HookRecords, HookSteps1, Statuses
    <2>2. Without(h, status) = to
      BY <1>2 DEF Without, AsksGate, Asks
    <2> HIDE DEF to
    <2>3. Judges(to, as)
      BY <1>1, <2>1, <1>2 DEF Judges, Asks
    <2> QED
      BY <2>1, <2>2, <2>3
  <1>3. CASE Asks(x)
    <2> DEFINE to == [x EXCEPT !.pc = "observe", !.status = status, !.verdict = verdict]
    <2>1. verdict \in Gate
      BY <1>1, <1>3, ExchangeAssumption DEF Gate, Asks
    <2>2. Without(h, status) = to
      BY <1>3 DEF Without, AsksGate, Asks
    <2>3. /\ to \in HookRecords /\ to.pc = "observe" /\ to.answer = None /\ to.status = status
          /\ to.proposal = x.proposal /\ to.policy = x.policy /\ to.verdict = verdict
      <3> HIDE DEF verdict
      <3> QED
        BY <1>1, <2>1, ZenonT(40) DEF HookRecords, HookSteps1, Statuses
    <2>4. as.pc \in {"answered", "noted"} => as.verdict \in {"error", Verdict(x.policy, x.proposal)}
      BY <1>3 DEF Judges
    <2> HIDE DEF to
    <2>5. Judges(to, as)
      BY <1>1, <1>3, <2>3, <2>4, ExchangeAssumption DEF Judges, Asks
    <2> QED
      BY <2>2, <2>3, <2>5
  <1> QED
    BY <1>2, <1>3

\* The steps after which the Hook asks, has no reply, or reads one.
LEMMA AskingJudged ==
    ASSUME PolicyInv, NEW h \in Hooks, Fence(h) \/ Resolve(h) \/ Ask(h)
    PROVE  PolicyInv'
  <1> DEFINE x == hook[h]
  <1>1. /\ x \in HookRecords /\ handler[h] \in HandlerRecords /\ Judges(x, handler[h])
        /\ handler = [handler EXCEPT ![h] = handler[h]] /\ Resolved \in Policies
    BY Standing
  <1>2. CASE Fence(h)
    <2> DEFINE to == IF CurrentIntegration(h) THEN [x EXCEPT !.pc = "resolve"]
                     ELSE [x EXCEPT !.pc = "done", !.status = "stale", !.answer = "allow"]
    <2>1. x.pc = "fence" /\ handler' = handler /\ Moves(h, to)
      BY <1>2 DEF Fence
    <2>2. /\ to \in HookRecords /\ to.proposal = x.proposal
          /\ \/ to.pc = "resolve" /\ to.answer = x.answer /\ to.status = x.status
             \/ to.pc = "done" /\ to.status = "stale" /\ to.answer = "allow"
      <3>1. CASE CurrentIntegration(h)
        BY <1>1, <3>1 DEF HookRecords, HookSteps1
      <3>2. CASE ~CurrentIntegration(h)
        BY <1>1, <3>2 DEF HookRecords, HookSteps1, Statuses
      <3> QED
        BY <3>1, <3>2
    <2> HIDE DEF to
    <2>3. handler[h].pc = "none" /\ x.answer = None /\ x.status = None
      BY <1>1, <2>1 DEF Judges, HandlerRecords
    <2>4. Judges(to, handler[h])
      BY <2>2, <2>3, ExchangeAssumption DEF Judges
    <2> QED
      BY <1>1, <2>1, <2>2, <2>4, HookMoves
  <1>3. CASE Resolve(h)
    <2> DEFINE to == IF AsksGate(h) \/ x.generation # 0
                     THEN [x EXCEPT !.pc = "ask", !.policy = Resolved]
                     ELSE [x EXCEPT !.pc = "done", !.policy = Resolved, !.answer = "allow"]
    <2>1. x.pc = "resolve" /\ handler' = handler /\ Moves(h, to)
      BY <1>3 DEF Resolve
    <2>2. /\ to \in HookRecords /\ to.proposal = x.proposal /\ to.policy \in Policies
          /\ \/ to.pc = "ask" /\ to.answer = x.answer
             \/ to.pc = "done" /\ to.answer = "allow" /\ ~Asks(x)
      <3>1. CASE AsksGate(h) \/ x.generation # 0
        BY <1>1, <3>1 DEF HookRecords, HookSteps1
      <3>2. CASE ~(AsksGate(h) \/ x.generation # 0)
        BY <1>1, <3>2 DEF HookRecords, HookSteps1, AsksGate, Asks
      <3> QED
        BY <3>1, <3>2
    <2> HIDE DEF to
    <2>3. handler[h].pc = "none" /\ x.answer = None
      BY <1>1, <2>1 DEF Judges, HandlerRecords
    <2>4. Judges(to, handler[h])
      BY <2>2, <2>3, ExchangeAssumption DEF Judges, Asks
    <2> QED
      BY <1>1, <2>1, <2>2, <2>4, HookMoves
  <1>4. CASE Ask(h)
    <2>1. CASE daemon.up
      <3> DEFINE to == [x EXCEPT !.pc = "waiting"]
                 as == [handler[h] EXCEPT !.pc = "sent"]
      <3>1. x.pc = "ask" /\ handler' = [handler EXCEPT ![h] = as] /\ Moves(h, to)
        BY <1>4, <2>1 DEF Ask
      <3>2. /\ to \in HookRecords /\ to.pc = "waiting" /\ to.proposal = x.proposal
            /\ to.policy = x.policy /\ to.answer = x.answer
            /\ as \in HandlerRecords /\ as.pc = "sent"
        BY <1>1 DEF HookRecords, HookSteps1, HandlerRecords
      <3> HIDE DEF to, as
      <3>3. Judges(to, as)
        BY <1>1, <3>1, <3>2, ExchangeAssumption DEF Judges
      <3> QED
        BY <3>1, <3>2, <3>3, HookMoves
    <2>2. CASE ~daemon.up
      <3>1. x.pc = "ask" /\ handler' = handler /\ Moves(h, Without(h, "unavailable"))
        BY <1>4, <2>2 DEF Ask
      <3>2. Without(h, "unavailable") \in HookRecords /\ Judges(Without(h, "unavailable"), handler[h])
        BY <1>1, <3>1, WithoutJudged
      <3> QED
        BY <1>1, <3>1, <3>2, HookMoves
    <2> QED
      BY <2>1, <2>2
  <1> QED
    BY <1>2, <1>3, <1>4

LEMMA RepliedJudged ==
    ASSUME PolicyInv, NEW h \in Hooks, CaptureOnly(h) \/ Expire(h) \/ Receive(h) \/ Closed(h)
    PROVE  PolicyInv'
  <1> DEFINE x == hook[h]
             y == handler[h]
  <1>1. /\ x \in HookRecords /\ y \in HandlerRecords /\ Judges(x, y)
        /\ handler = [handler EXCEPT ![h] = handler[h]]
    BY Standing
  <1>2. ASSUME NEW status \in {"protocol_error", "timeout", "unavailable", "capture_only"},
               x.pc \in {"ask", "waiting"}, status = "capture_only" => Asks(x),
               handler' = handler, Moves(h, Without(h, status))
        PROVE  PolicyInv'
    <2>1. Without(h, status) \in HookRecords /\ Judges(Without(h, status), handler[h])
      BY <1>1, <1>2, WithoutJudged
    <2>2. handler' = [handler EXCEPT ![h] = handler[h]]
      BY <1>1, <1>2
    <2> QED
      BY <1>1, <1>2, <2>1, <2>2, HookMoves
  <1>3. CASE CaptureOnly(h)
    BY <1>2, <1>3 DEF CaptureOnly, Asks, AsksGate
  <1>4. CASE Expire(h)
    BY <1>2, <1>4 DEF Expire
  <1>5. CASE Closed(h)
    BY <1>2, <1>5 DEF Closed
  <1>6. CASE Receive(h)
    <2>1. x.pc = "waiting" /\ y.pc \in {"answered", "noted"} /\ handler' = handler
      BY <1>6 DEF Receive
    <2>2. CASE y.verdict = "error"
      <3>1. Moves(h, Without(h, "protocol_error"))
        BY <1>6, <2>2 DEF Receive
      <3> QED
        BY <1>2, <2>1, <3>1
    <2>3. CASE y.verdict # "error" /\ Asks(x)
      <3> DEFINE to == [x EXCEPT !.pc = "observe", !.status = "ok", !.verdict = y.verdict]
      <3>1. Moves(h, to)
        BY <1>6, <2>3 DEF Receive, AsksGate, Asks
      <3>2. y.verdict \in Gate \cup {None, "error"}
        BY <1>1 DEF HandlerRecords
      <3>3. /\ to \in HookRecords /\ to.pc = "observe" /\ to.status = "ok"
            /\ to.verdict = y.verdict /\ to.proposal = x.proposal /\ to.policy = x.policy
            /\ to.answer = x.answer
        BY <1>1, <3>2 DEF HookRecords, HookSteps1, Statuses
      <3>4. y.verdict = Verdict(x.policy, x.proposal)
        BY <1>1, <2>1, <2>3 DEF Judges
      <3> HIDE DEF to
      <3>5. Judges(to, y)
        BY <1>1, <2>1, <2>3, <3>3, <3>4, ExchangeAssumption DEF Judges, Asks
      <3> QED
        BY <1>1, <2>1, <3>1, <3>3, <3>5, HookMoves
    <2>4. CASE y.verdict # "error" /\ ~Asks(x)
      <3> DEFINE to == [x EXCEPT !.pc = "done", !.status = "ok", !.answer = Announced(y.observing)]
      <3>1. Moves(h, to)
        BY <1>6, <2>4 DEF Receive, AsksGate, Asks
      <3>2. Announced(y.observing) \in {"allow", "warn"}
        BY DEF Announced
      <3>3. /\ to \in HookRecords /\ to.pc = "done" /\ to.proposal = x.proposal
            /\ to.policy = x.policy /\ to.answer = Announced(y.observing)
        BY <1>1, <3>2 DEF HookRecords, HookSteps1, Statuses
      <3> HIDE DEF to
      <3>4. Judges(to, y)
        BY <1>1, <2>1, <2>4, <3>2, <3>3 DEF Judges, Asks
      <3> QED
        BY <1>1, <2>1, <3>1, <3>3, <3>4, HookMoves
    <2> QED
      BY <2>2, <2>3, <2>4
  <1> QED
    BY <1>3, <1>4, <1>5, <1>6

\* The answer is the verdict, where it is enforced; a failure allows.
LEMMA ObservedJudged ==
    ASSUME PolicyInv, NEW h \in Hooks, Observe(h) \/ ObserveFails(h)
    PROVE  PolicyInv'
  <1> DEFINE x == hook[h]
             y == handler[h]
  <1>1. /\ x \in HookRecords /\ y \in HandlerRecords /\ Judges(x, y)
        /\ handler' = [handler EXCEPT ![h] = handler[h]] /\ x.pc = "observe"
    BY Standing DEF Observe, ObserveFails
  <1>2. /\ Asks(x)
        /\ \/ x.status = "protocol_error" /\ x.verdict = "uncertain"
           \/ /\ x.status \in {"ok", "timeout", "unavailable", "capture_only"}
              /\ x.verdict = Verdict(x.policy, x.proposal)
    BY <1>1 DEF Judges
  <1>3. CASE Observe(h)
    <2> DEFINE denied == x.verdict = "deny"
               written == CASE denied /\ Enforces(h) -> "gate_block"
                            [] denied -> "gate_shadow_block"
                            [] x.verdict = "uncertain" -> "gate_fail_open"
                            [] OTHER -> None
               answer == IF denied /\ Enforces(h) THEN "deny" ELSE "allow"
               to == [x EXCEPT !.pc = "done", !.journaled = written, !.answer = answer]
    <2>1. Moves(h, to)
      BY <1>3 DEF Observe
    <2>2. /\ written \in {None, "gate_block", "gate_shadow_block", "gate_fail_open"}
          /\ answer \in {"allow", "deny"}
      OBVIOUS
    <2>3. answer = "deny" <=> x.verdict = "deny" /\ ~Observes(x.policy) /\ x.status # "capture_only"
      BY DEF Enforces
    <2> HIDE DEF written, answer
    <2>4. /\ to \in HookRecords /\ to.pc = "done" /\ to.proposal = x.proposal
          /\ to.policy = x.policy /\ to.status = x.status /\ to.answer = answer
      BY <1>1, <2>2, ZenonT(40) DEF HookRecords, HookSteps1
    <2> HIDE DEF to
    <2>5. Judges(to, y)
      BY <1>1, <1>2, <2>2, <2>3, <2>4 DEF Judges, Asks, Stops
    <2> QED
      BY <1>1, <2>1, <2>4, <2>5, HookMoves
  <1>4. CASE ObserveFails(h)
    <2>1. PICK written \in {None, "gate_block"} :
            Moves(h, [x EXCEPT !.pc = "done", !.status = "failed", !.journaled = written,
                               !.answer = "allow"])
      BY <1>4 DEF ObserveFails
    <2> DEFINE to == [x EXCEPT !.pc = "done", !.status = "failed", !.journaled = written,
                               !.answer = "allow"]
    <2>2. /\ to \in HookRecords /\ to.pc = "done" /\ to.status = "failed" /\ to.answer = "allow"
          /\ to.policy = x.policy /\ to.proposal = x.proposal
      BY <1>1 DEF HookRecords, HookSteps1, Statuses
    <2>3. Moves(h, to)
      BY <2>1
    <2> HIDE DEF to
    <2>4. Judges(to, y)
      BY <1>1, <2>2 DEF Judges, Asks
    <2> QED
      BY <1>1, <2>2, <2>3, <2>4, HookMoves
  <1> QED
    BY <1>3, <1>4

\* What only marks the records, or answers and notes, moves no Hook.
LEMMA AllMarked ==
    ASSUME PolicyInv,
           config' \in Policies \cup {Unusable}, installed' \in Nat, fence' \in Nat,
           turn' \in Nat, turns' \in Nat,
           hook' \in [Hooks -> HookRecords], handler' \in [Hooks -> HandlerRecords],
           \A h \in Hooks : Judges(hook'[h], handler'[h])
    PROVE  PolicyInv'
  BY DEF PolicyInv, ExchangeTypes

LEMMA MarkKeepsJudgement ==
    ASSUME NEW x \in HookRecords, NEW y, Judges(x, y), NEW b \in BOOLEAN,
           NEW seen \in SUBSET Contacts
    PROVE  /\ [x EXCEPT !.seen = seen] \in HookRecords /\ Judges([x EXCEPT !.seen = seen], y)
           /\ [x EXCEPT !.lost = b] \in HookRecords /\ Judges([x EXCEPT !.lost = b], y)
  <1> DEFINE to == [x EXCEPT !.seen = seen]
             off == [x EXCEPT !.lost = b]
  <1>1. to \in HookRecords /\ off \in HookRecords
    BY DEF HookRecords
  <1>2. /\ to.pc = x.pc /\ to.policy = x.policy /\ to.proposal = x.proposal
        /\ to.status = x.status /\ to.verdict = x.verdict /\ to.answer = x.answer
    BY DEF HookRecords
  <1>3. /\ off.pc = x.pc /\ off.policy = x.policy /\ off.proposal = x.proposal
        /\ off.status = x.status /\ off.verdict = x.verdict /\ off.answer = x.answer
    BY DEF HookRecords
  <1> HIDE DEF to, off
  <1>4. Judges(to, y)
    BY <1>2 DEF Judges, Asks, Stops
  <1>5. Judges(off, y)
    BY <1>3 DEF Judges, Asks, Stops
  <1> QED
    BY <1>1, <1>4, <1>5 DEF to, off

LEMMA SeenJudged ==
    ASSUME PolicyInv, NEW c, Seen(c), handler' = handler,
           UNCHANGED files, turn' \in Nat, turns' \in Nat
    PROVE  PolicyInv'
  <1>1. /\ hook \in [Hooks -> HookRecords] /\ handler \in [Hooks -> HandlerRecords]
        /\ config' \in Policies \cup {Unusable} /\ installed' \in Nat /\ fence' \in Nat
    BY DEF PolicyInv, ExchangeTypes, files
  <1>2. hook' = [h \in Hooks |-> IF hook[h].pc \in {"idle", "done"} THEN hook[h]
                                ELSE [hook[h] EXCEPT !.seen = hook[h].seen \cup Mark(c)]]
    BY DEF Seen
  <1>3. ASSUME NEW h \in Hooks
        PROVE  hook'[h] \in HookRecords /\ Judges(hook'[h], handler'[h])
    <2> DEFINE b == hook[h].seen \cup Mark(c)
    <2>1. hook[h] \in HookRecords /\ Judges(hook[h], handler[h])
      BY Standing
    <2>2. b \in SUBSET Contacts
      BY <2>1 DEF HookRecords, Mark
    <2>3. hook'[h] = hook[h] \/ hook'[h] = [hook[h] EXCEPT !.seen = b]
      BY <1>2
    <2> HIDE DEF b
    <2> QED
      BY <2>1, <2>2, <2>3, MarkKeepsJudgement
  <1>4. hook' \in [Hooks -> HookRecords]
    BY <1>2, <1>3
  <1> QED
    BY <1>1, <1>3, <1>4, AllMarked

LEMMA DeathJudged ==
    ASSUME PolicyInv, DaemonDies
    PROVE  PolicyInv'
  <1> DEFINE cut(h) == CASE handler[h].pc = "sent" -> [NoHandler EXCEPT !.pc = "closed"]
                         [] handler[h].pc = "answered" -> [handler[h] EXCEPT !.pc = "noted"]
                         [] OTHER -> handler[h]
             lost(h) == hook[h].lost \/ handler[h].pc = "sent"
  <1>1. /\ handler' = [h \in Hooks |-> cut(h)]
        /\ hook' = [h \in Hooks |-> [hook[h] EXCEPT !.lost = lost(h)]]
        /\ config' \in Policies \cup {Unusable} /\ installed' \in Nat /\ fence' \in Nat
        /\ turn' \in Nat /\ turns' \in Nat
    BY DEF DaemonDies, PolicyInv, ExchangeTypes, files, agent
  <1>2. ASSUME NEW h \in Hooks
        PROVE  /\ cut(h) \in HandlerRecords
               /\ hook'[h] \in HookRecords /\ Judges(hook'[h], cut(h))
    <2>1. hook[h] \in HookRecords /\ handler[h] \in HandlerRecords /\ Judges(hook[h], handler[h])
      BY Standing
    <2>2. /\ cut(h) \in HandlerRecords
          /\ handler[h].pc = "none" => cut(h) = handler[h]
          /\ cut(h).pc \in {"answered", "noted"} =>
               handler[h].pc \in {"answered", "noted"} /\ cut(h).verdict = handler[h].verdict
          /\ cut(h).pc # "none" => handler[h].pc # "none"
      <3>1. CASE handler[h].pc = "sent"
        BY <2>1, <3>1 DEF NoHandler, HandlerRecords
      <3>2. CASE handler[h].pc = "answered"
        BY <2>1, <3>2 DEF HandlerRecords
      <3>3. CASE handler[h].pc \notin {"sent", "answered"}
        BY <2>1, <3>3 DEF HandlerRecords
      <3> QED
        BY <3>1, <3>2, <3>3
    <2>3. hook'[h] = [hook[h] EXCEPT !.lost = lost(h)] /\ lost(h) \in BOOLEAN
      BY <1>1
    <2> HIDE DEF cut, lost
    <2>4. Judges(hook[h], cut(h))
      BY <2>1, <2>2 DEF Judges
    <2>5. hook'[h] \in HookRecords /\ Judges(hook'[h], cut(h))
      BY <2>1, <2>3, <2>4, MarkKeepsJudgement
    <2> QED
      BY <2>2, <2>5
  <1> HIDE DEF cut, lost
  <1>3. /\ hook' \in [Hooks -> HookRecords] /\ handler' \in [Hooks -> HandlerRecords]
        /\ \A h \in Hooks : Judges(hook'[h], handler'[h])
    BY <1>1, <1>2
  <1> QED
    BY <1>1, <1>3, AllMarked

LEMMA OutsideJudged ==
    ASSUME PolicyInv,
           \/ EditConfig \/ Upgrade \/ SetupInstallsHook \/ SetupCommits
           \/ DaemonDies \/ DaemonStarts \/ Connect \/ Disconnect
           \/ StartTurn \/ EndTurn \/ Subscribe
           \/ Done \/ UNCHANGED exchangeVars
    PROVE  PolicyInv'
  <1>1. ExchangeTypes /\ \A h \in Hooks : Judges(hook[h], handler[h])
    BY DEF PolicyInv
  <1>2. CASE /\ hook' = hook /\ handler' = handler /\ turn' = turn /\ turns' = turns
             /\ config' \in Policies \cup {Unusable} /\ installed' \in Nat /\ fence' \in Nat
    BY <1>1, <1>2, AllMarked DEF ExchangeTypes
  <1>3. CASE EditConfig
    BY <1>1, <1>2, <1>3 DEF EditConfig, ExchangeTypes, agent
  <1>4. CASE Upgrade
    BY <1>1, <1>2, <1>4 DEF Upgrade, ExchangeTypes, agent
  <1>5. CASE SetupInstallsHook
    BY <1>1, <1>2, <1>5 DEF SetupInstallsHook, ExchangeTypes, agent
  <1>6. CASE SetupCommits
    BY <1>1, <1>2, <1>6 DEF SetupCommits, ExchangeTypes, agent
  <1>7. CASE DaemonStarts
    BY <1>1, <1>2, <1>7 DEF DaemonStarts, ExchangeTypes, agent, files
  <1>8. CASE Disconnect
    BY <1>1, <1>2, <1>8 DEF Disconnect, ExchangeTypes, agent, files
  <1>9. CASE Done \/ UNCHANGED exchangeVars
    BY <1>1, <1>2, <1>9 DEF Done, exchangeVars, ExchangeTypes, agent, files
  <1>10. CASE Connect
    <2>1. Seen(contact') /\ handler' = handler /\ UNCHANGED files
      BY <1>10 DEF Connect
    <2>2. turn' \in Nat /\ turns' \in Nat
      BY <1>1, <1>10 DEF Connect, ExchangeTypes, agent
    <2> QED
      BY <2>1, <2>2, SeenJudged
  <1>11. CASE StartTurn \/ EndTurn \/ Subscribe
    <2>1. Seen(contact') /\ handler' = handler /\ UNCHANGED files
      BY <1>11 DEF StartTurn, EndTurn, Subscribe
    <2>2. turn' \in Nat /\ turns' \in Nat
      BY <1>1, <1>11 DEF StartTurn, EndTurn, Subscribe, ExchangeTypes, NoTurn, agent
    <2> QED
      BY <2>1, <2>2, SeenJudged
  <1> QED
    BY <1>3, <1>4, <1>5, <1>6, <1>7, <1>8, <1>9, <1>10, <1>11, DeathJudged

\* The daemon judges what it was sent, or says that it cannot.
LEMMA DaemonJudged ==
    ASSUME PolicyInv, NEW h \in Hooks, Handle(h) \/ Note(h)
    PROVE  PolicyInv'
  <1> DEFINE x == hook[h]
             y == handler[h]
  <1>1. /\ x \in HookRecords /\ y \in HandlerRecords /\ Judges(x, y)
    BY Standing
  <1>2. /\ hook' = hook /\ config' = config /\ installed' = installed /\ fence' = fence
        /\ turn' = turn /\ turns' = turns
    BY DEF Handle, Note, files, agent
  <1>3. ExchangeTypes /\ handler \in [Hooks -> HandlerRecords] /\ hook \in [Hooks -> HookRecords]
    BY DEF PolicyInv, ExchangeTypes
  <1>4. ASSUME NEW as \in HandlerRecords, handler' = [handler EXCEPT ![h] = as], Judges(x, as)
        PROVE  PolicyInv'
    <2>1. /\ handler' \in [Hooks -> HandlerRecords] /\ handler'[h] = as
          /\ \A g \in Hooks \ {h} : hook'[g] = hook[g] /\ handler'[g] = handler[g]
      BY <1>2, <1>3, <1>4
    <2>2. Judges(hook'[h], handler'[h])
      BY <1>2, <1>4, <2>1
    <2> QED
      BY <1>2, <1>3, <2>1, <2>2, OneMoves DEF ExchangeTypes
  <1>5. CASE Handle(h)
    <2> DEFINE usable == /\ Speaks(daemon.build, x.build) /\ Speaks(x.build, daemon.build)
                         /\ AsksGate(h) => ~Oversized(x.proposal)
               verdict == IF ~usable THEN "error"
                          ELSE IF AsksGate(h) THEN Judged(h) ELSE None
               as == [pc |-> "answered", verdict |-> verdict, observing |-> Confirms(thread)]
    <2>1. y.pc = "sent" /\ handler' = [handler EXCEPT ![h] = as]
      BY <1>5 DEF Handle
    <2>2. x.pc \in {"waiting", "observe", "done"} /\ x.policy \in Policies
      BY <1>1, <2>1 DEF Judges
    <2>3. Confirms(thread) \in BOOLEAN
      BY DEF Confirms
    <2>4. Asks(x) => verdict \in {"error", Verdict(x.policy, x.proposal)}
      BY DEF Asks, AsksGate, Judged
    <2>5. verdict \in Gate \cup {None, "error"}
      <3>1. CASE usable /\ AsksGate(h)
        <4>1. verdict = Verdict(x.policy, x.proposal)
          BY <3>1 DEF Judged
        <4>2. x.policy \in Policies /\ x.proposal \in Proposals
          BY <1>1, <2>2, <3>1 DEF HookRecords, AsksGate
        <4> QED
          BY <4>1, <4>2, ExchangeAssumption DEF Gate
      <3> QED
        BY <3>1
    <2> HIDE DEF verdict
    <2>6. as \in HandlerRecords /\ as.pc = "answered" /\ as.verdict = verdict
      BY <2>3, <2>5 DEF HandlerRecords
    <2> HIDE DEF as
    <2>7. Judges(x, as)
      BY <1>1, <2>2, <2>4, <2>6 DEF Judges
    <2> QED
      BY <1>4, <2>1, <2>6, <2>7
  <1>6. CASE Note(h)
    <2> DEFINE as == [y EXCEPT !.pc = "noted"]
    <2>1. y.pc = "answered" /\ handler' = [handler EXCEPT ![h] = as]
      BY <1>6 DEF Note
    <2>2. as \in HandlerRecords /\ as.pc = "noted" /\ as.verdict = y.verdict
      BY <1>1 DEF HandlerRecords
    <2> HIDE DEF as
    <2>3. Judges(x, as)
      BY <1>1, <2>1, <2>2 DEF Judges
    <2> QED
      BY <1>4, <2>1, <2>2, <2>3
  <1> QED
    BY <1>5, <1>6

LEMMA PolicyHolds == ExchangeSpec => []PolicyInv
  <1>1. ExchangeInit => PolicyInv
    <2> SUFFICES ASSUME ExchangeInit PROVE PolicyInv
      OBVIOUS
    <2>1. NewHook \in HookRecords /\ NoHandler \in HandlerRecords
      BY DEF NewHook, NoHandler, HookRecords, HandlerRecords, HookSteps1, NoTurn
    <2>2. Judges(NewHook, NoHandler)
      BY ExchangeAssumption DEF Judges, NewHook, NoHandler
    <2>3. ExchangeTypes
      BY <2>1 DEF ExchangeInit, ExchangeTypes, NoTurn
    <2> QED
      BY <2>2, <2>3 DEF ExchangeInit, PolicyInv
  <1>2. PolicyInv /\ [ExchangeNext]_exchangeVars => PolicyInv'
    <2> SUFFICES ASSUME PolicyInv, [ExchangeNext]_exchangeVars PROVE PolicyInv'
      OBVIOUS
    <2>1. CASE \E h \in Hooks : Launch(h) \/ HookSteps(h) \/ ObserveFails(h) \/ Handle(h) \/ Note(h)
      BY <2>1, LaunchJudged, AskingJudged, RepliedJudged, ObservedJudged, DaemonJudged DEF HookSteps
    <2>2. CASE \/ EditConfig \/ Upgrade \/ SetupInstallsHook \/ SetupCommits
               \/ DaemonDies \/ DaemonStarts \/ Connect \/ Disconnect
           \/ StartTurn \/ EndTurn \/ Subscribe
               \/ Done \/ UNCHANGED exchangeVars
      BY <2>2, OutsideJudged
    <2> QED
      BY <2>1, <2>2 DEF ExchangeNext
  <1> QED
    BY <1>1, <1>2, PTL DEF ExchangeSpec

\* An answer of the daemon, one that comes too late or none decides nothing: the
\* Hook stops the tool exactly when the policy it resolved says so
\* (hook._gate_over_ipc, daemon._evaluate_gate).
THEOREM AnswerIsThePolicys == ExchangeSpec => []PolicyDecides
  <1>1. PolicyInv => PolicyDecides
    <2> SUFFICES ASSUME PolicyInv, NEW h \in Hooks
                 PROVE  /\ hook[h].answer = "deny" => Denies(h)
                        /\ (/\ hook[h].pc = "done" /\ AsksGate(h)
                            /\ hook[h].status \in {"ok", "timeout", "unavailable"}
                            /\ Denies(h))
                             => hook[h].answer = "deny"
      BY DEF PolicyDecides
    <2>1. Denies(h) <=> Stops(hook[h])
      BY DEF Denies, Enforces, Stops
    <2> QED
      BY <2>1 DEF PolicyInv, Judges, AsksGate, Asks
  <1> QED
    BY <1>1, PolicyHolds, PTL

(**************************** the observed session **************************)

\* One Hook moves: the daemon and what it knows of the thread stay.
LEMMA OneRemembers ==
    ASSUME SeenInv, ExchangeTypes, NEW h \in Hooks, NEW to, Moves(h, to),
           handler' \in [Hooks -> HandlerRecords],
           \A g \in Hooks \ {h} : handler'[g] = handler[g],
           Remembers(to, handler'[h], Known)
    PROVE  SeenInv'
  <1>1. /\ hook' = [hook EXCEPT ![h] = to] /\ hook \in [Hooks -> HookRecords]
        /\ daemon' = daemon /\ thread' = thread /\ contact' = contact
    BY DEF Moves, ExchangeTypes, view
  <1>2. Known' = Known /\ CurrentInv'
    BY <1>1 DEF Known, SeenInv, CurrentInv, Confirms
  <1>3. ASSUME NEW g \in Hooks PROVE Remembers(hook'[g], handler'[g], Known)
    <2>1. CASE g = h
      BY <1>1, <2>1
    <2>2. CASE g # h
      BY <1>1, <2>2 DEF SeenInv
    <2> QED
      BY <2>1, <2>2
  <1> QED
    BY <1>2, <1>3 DEF SeenInv

\* Without a usable reply nobody is silent.
LEMMA WithoutWarns ==
    ASSUME ExchangeTypes, NEW h \in Hooks, NEW status \in Statuses,
           NEW y, NEW live \in BOOLEAN, Remembers(hook[h], y, live),
           hook[h].pc \in {"ask", "waiting"}, hook[h].answer = None
    PROVE  Remembers(Without(h, status), y, live)
  <1> DEFINE x == hook[h]
             to == Without(h, status)
  <1>1. x \in HookRecords
    BY DEF ExchangeTypes
  <1>2. to.pc \in {"done", "observe"} /\ to.seen = x.seen /\ to.answer \in {None, "warn"}
    <2>1. CASE AsksGate(h)
      BY <1>1, <2>1 DEF Without, HookRecords
    <2>2. CASE ~AsksGate(h)
      BY <1>1, <2>2 DEF Without, HookRecords
    <2> QED
      BY <2>1, <2>2
  <1> HIDE DEF to
  <1>3. Remembers(to, y, live)
    BY <1>2, ExchangeAssumption DEF Remembers, Quiet
  <1> QED
    BY <1>3 DEF to

LEMMA HookRemembers ==
    ASSUME PolicyInv, SeenInv, NEW h \in Hooks, Launch(h) \/ HookSteps(h) \/ ObserveFails(h)
    PROVE  SeenInv'
  <1> DEFINE x == hook[h]
             y == handler[h]
             live == Known
  <1>1. /\ ExchangeTypes /\ x \in HookRecords /\ y \in HandlerRecords /\ Judges(x, y)
        /\ Remembers(x, y, live) /\ live \in BOOLEAN
    BY Standing DEF PolicyInv, SeenInv, Known
  <1>2. ASSUME NEW to, Moves(h, to), handler' = handler, Remembers(to, y, live)
        PROVE  SeenInv'
    BY <1>1, <1>2, OneRemembers DEF ExchangeTypes
  <1>3. ASSUME NEW status \in {"protocol_error", "timeout", "unavailable", "capture_only"},
               x.pc \in {"ask", "waiting"}, handler' = handler, Moves(h, Without(h, status))
        PROVE  SeenInv'
    <2>1. x.answer = None
      BY <1>1, <1>3 DEF Judges
    <2>2. status \in Statuses
      BY DEF Statuses
    <2>3. Remembers(Without(h, status), y, live)
      BY <1>1, <1>3, <2>1, <2>2, WithoutWarns
    <2> QED
      BY <1>2, <1>3, <2>3
  <1>4. CASE Launch(h)
    <2>1. PICK g \in {fence, 0}, p \in Proposals \cup {None} :
            Moves(h, [hook[h] EXCEPT !.pc = "fence", !.proposal = p, !.turn = turn,
                                     !.generation = g, !.build = installed,
                                     !.seen = Mark(contact)])
      BY <1>4 DEF Launch
    <2> DEFINE to == [hook[h] EXCEPT !.pc = "fence", !.proposal = p, !.turn = turn,
                                     !.generation = g, !.build = installed,
                                     !.seen = Mark(contact)]
    <2>2. Moves(h, to) /\ handler' = handler /\ x.pc = "idle"
      BY <1>4, <2>1 DEF Launch
    <2>3. to.seen = Mark(contact) /\ to.answer = x.answer
      BY <1>1 DEF HookRecords
    <2>4. live => Mark(contact) # {}
      BY DEF SeenInv, CurrentInv, Known, Mark
    <2>5. x.answer = None /\ ~y.observing
      BY <1>1, <2>2 DEF Judges, Remembers
    <2> HIDE DEF to, live
    <2>6. Remembers(to, y, live)
      BY <1>1, <2>3, <2>4, <2>5, ExchangeAssumption DEF Remembers, Quiet
    <2> QED
      BY <1>2, <2>2, <2>6
  <1>5. CASE Fence(h)
    <2> DEFINE to == IF CurrentIntegration(h) THEN [x EXCEPT !.pc = "resolve"]
                     ELSE [x EXCEPT !.pc = "done", !.status = "stale", !.answer = "allow"]
    <2>1. x.pc = "fence" /\ handler' = handler /\ Moves(h, to)
      BY <1>5 DEF Fence
    <2>2. /\ to.seen = x.seen /\ to.pc # "idle"
          /\ to.answer = x.answer \/ to.status = "stale"
      <3>1. CASE CurrentIntegration(h)
        BY <1>1, <3>1 DEF HookRecords
      <3>2. CASE ~CurrentIntegration(h)
        BY <1>1, <3>2 DEF HookRecords
      <3> QED
        BY <3>1, <3>2
    <2>3. x.answer = None
      BY <1>1, <2>1 DEF Judges
    <2> HIDE DEF to, live
    <2>4. Remembers(to, y, live)
      BY <1>1, <2>1, <2>2, <2>3, ExchangeAssumption DEF Remembers, Quiet
    <2> QED
      BY <1>2, <2>1, <2>4
  <1>6. CASE Ask(h)
    <2>1. CASE ~daemon.up
      BY <1>3, <1>6, <2>1 DEF Ask
    <2>2. CASE daemon.up
      <3> DEFINE to == [x EXCEPT !.pc = "waiting"]
                 as == [handler[h] EXCEPT !.pc = "sent"]
      <3>1. x.pc = "ask" /\ handler' = [handler EXCEPT ![h] = as] /\ Moves(h, to)
        BY <1>6, <2>2 DEF Ask
      <3>2. /\ to.seen = x.seen /\ to.pc = "waiting" /\ to.answer = x.answer
            /\ as \in HandlerRecords /\ as.observing = y.observing
        BY <1>1 DEF HookRecords, HandlerRecords
      <3>3. x.answer = None
        BY <1>1, <3>1 DEF Judges
      <3> HIDE DEF to, as, live
      <3>4. Remembers(to, as, live)
        BY <1>1, <3>1, <3>2, <3>3, ExchangeAssumption DEF Remembers, Quiet
      <3>5. /\ handler'[h] = as /\ handler' \in [Hooks -> HandlerRecords]
            /\ \A g \in Hooks \ {h} : handler'[g] = handler[g]
        BY <1>1, <3>1, <3>2 DEF ExchangeTypes
      <3>6. Remembers(to, handler'[h], Known)
        BY <3>4, <3>5 DEF live
      <3> QED
        BY <1>1, <3>1, <3>5, <3>6, OneRemembers
    <2> QED
      BY <2>1, <2>2
  <1>7. CASE Resolve(h)
    <2> DEFINE to == IF AsksGate(h) \/ x.generation # 0
                     THEN [x EXCEPT !.pc = "ask", !.policy = Resolved]
                     ELSE [x EXCEPT !.pc = "done", !.policy = Resolved, !.answer = "allow"]
    <2>1. x.pc = "resolve" /\ handler' = handler /\ Moves(h, to)
      BY <1>7 DEF Resolve
    <2>2. /\ to.seen = x.seen /\ to.pc # "idle" /\ to.status = x.status
          /\ to.answer = x.answer \/ x.status = None
      <3>1. CASE AsksGate(h) \/ x.generation # 0
        BY <1>1, <3>1 DEF HookRecords
      <3>2. CASE ~(AsksGate(h) \/ x.generation # 0)
        BY <1>1, <2>1, <3>2 DEF HookRecords, Judges
      <3> QED
        BY <3>1, <3>2
    <2>3. x.answer = None
      BY <1>1, <2>1 DEF Judges
    <2> HIDE DEF to, live
    <2>4. Remembers(to, y, live)
      BY <1>1, <2>1, <2>2, <2>3, ExchangeAssumption DEF Remembers, Quiet
    <2> QED
      BY <1>2, <2>1, <2>4
  <1>8. CASE CaptureOnly(h) \/ Expire(h) \/ Closed(h)
    BY <1>3, <1>8 DEF CaptureOnly, Expire, Closed
  <1>9. CASE Receive(h)
    <2>1. x.pc = "waiting" /\ y.pc \in {"answered", "noted"} /\ handler' = handler
      BY <1>9 DEF Receive
    <2>2. CASE y.verdict = "error"
      <3>1. Moves(h, Without(h, "protocol_error"))
        BY <1>9, <2>2 DEF Receive
      <3> QED
        BY <1>3, <2>1, <3>1
    <2>3. CASE y.verdict # "error" /\ Asks(x)
      <3> DEFINE to == [x EXCEPT !.pc = "observe", !.status = "ok", !.verdict = y.verdict]
      <3>1. Moves(h, to)
        BY <1>9, <2>3 DEF Receive, AsksGate, Asks
      <3>2. to.seen = x.seen /\ to.proposal # None /\ to.pc = "observe"
        BY <1>1, <2>3 DEF HookRecords, Asks
      <3> HIDE DEF to, live
      <3>3. Remembers(to, y, live)
        BY <1>1, <2>1, <3>2 DEF Remembers, Quiet
      <3> QED
        BY <1>2, <2>1, <3>1, <3>3
    <2>4. CASE y.verdict # "error" /\ ~Asks(x)
      <3> DEFINE to == [x EXCEPT !.pc = "done", !.status = "ok", !.answer = Announced(y.observing)]
      <3>1. Moves(h, to)
        BY <1>9, <2>4 DEF Receive, AsksGate, Asks
      <3>2. to.seen = x.seen /\ to.pc = "done" /\ to.answer = Announced(y.observing)
        BY <1>1 DEF HookRecords
      <3> HIDE DEF to, live
      <3>3. Remembers(to, y, live)
        BY <1>1, <2>1, <3>2 DEF Remembers, Quiet, Announced
      <3> QED
        BY <1>2, <2>1, <3>1, <3>3
    <2> QED
      BY <2>2, <2>3, <2>4
  <1>10. ASSUME NEW to, Moves(h, to), handler' = handler, x.pc = "observe",
                to.seen = x.seen, to.proposal = x.proposal, to.pc = "done"
         PROVE  SeenInv'
    <2>1. x.proposal # None
      BY <1>1, <1>10 DEF Judges, Asks
    <2> HIDE DEF live
    <2>2. Remembers(to, y, live)
      BY <1>1, <1>10, <2>1 DEF Remembers, Quiet
    <2> QED
      BY <1>2, <1>10, <2>2
  <1>11. CASE Observe(h)
    <2>1. PICK written, answer :
            Moves(h, [x EXCEPT !.pc = "done", !.journaled = written, !.answer = answer])
      BY <1>11 DEF Observe
    <2>2. x.pc = "observe" /\ handler' = handler
      BY <1>11 DEF Observe
    <2> DEFINE to == [x EXCEPT !.pc = "done", !.journaled = written, !.answer = answer]
    <2>3. to.seen = x.seen /\ to.proposal = x.proposal /\ to.pc = "done"
      BY <1>1 DEF HookRecords
    <2>4. Moves(h, to)
      BY <2>1
    <2> HIDE DEF to
    <2> QED
      BY <1>10, <2>2, <2>3, <2>4
  <1>12. CASE ObserveFails(h)
    <2>1. PICK written :
            Moves(h, [x EXCEPT !.pc = "done", !.status = "failed", !.journaled = written,
                               !.answer = "allow"])
      BY <1>12 DEF ObserveFails
    <2>2. x.pc = "observe" /\ handler' = handler
      BY <1>12 DEF ObserveFails
    <2> DEFINE to == [x EXCEPT !.pc = "done", !.status = "failed", !.journaled = written,
                               !.answer = "allow"]
    <2>3. to.seen = x.seen /\ to.proposal = x.proposal /\ to.pc = "done"
      BY <1>1 DEF HookRecords
    <2>4. Moves(h, to)
      BY <2>1
    <2> HIDE DEF to
    <2> QED
      BY <1>10, <2>2, <2>3, <2>4
  <1> QED
    BY <1>4, <1>5, <1>6, <1>7, <1>8, <1>9, <1>11, <1>12 DEF HookSteps

\* The daemon says it observes the thread while it does.
LEMMA DaemonRemembers ==
    ASSUME PolicyInv, SeenInv, NEW h \in Hooks, Handle(h) \/ Note(h)
    PROVE  SeenInv'
  <1> DEFINE x == hook[h]
             y == handler[h]
             live == Known
  <1>1. /\ x \in HookRecords /\ y \in HandlerRecords /\ Judges(x, y) /\ Remembers(x, y, live)
        /\ handler \in [Hooks -> HandlerRecords] /\ live \in BOOLEAN
    BY Standing DEF PolicyInv, ExchangeTypes, SeenInv, Known
  <1>2. hook' = hook /\ daemon' = daemon /\ thread' = thread /\ contact' = contact
    BY DEF Handle, Note, view
  <1>3. ASSUME NEW as, handler' = [handler EXCEPT ![h] = as], Remembers(x, as, live)
        PROVE  SeenInv'
    <2>1. ASSUME NEW g \in Hooks PROVE Remembers(hook'[g], handler'[g], live)
      <3>1. CASE g = h
        BY <1>1, <1>2, <1>3, <3>1
      <3>2. CASE g # h
        BY <1>1, <1>2, <1>3, <3>2 DEF SeenInv
      <3> QED
        BY <3>1, <3>2
    <2>2. Known' = live /\ CurrentInv'
      BY <1>2 DEF SeenInv, CurrentInv, Confirms, Known
    <2> QED
      BY <1>2, <2>1, <2>2 DEF SeenInv
  <1>4. CASE Handle(h)
    <2>1. PICK verdict :
            handler' = [handler EXCEPT ![h] = [pc |-> "answered", verdict |-> verdict,
                                               observing |-> Confirms(thread)]]
      BY <1>4 DEF Handle
    <2> DEFINE as == [pc |-> "answered", verdict |-> verdict, observing |-> Confirms(thread)]
    <2>2. as.observing => live
      BY DEF SeenInv, CurrentInv
    <2>3. x.pc # "idle"
      BY <1>1, <1>4 DEF Handle, Judges
    <2>4. handler' = [handler EXCEPT ![h] = as]
      BY <2>1
    <2> HIDE DEF as, live
    <2>5. Remembers(x, as, live)
      BY <1>1, <2>2, <2>3 DEF Remembers
    <2> QED
      BY <1>3, <2>4, <2>5
  <1>5. CASE Note(h)
    <2> DEFINE as == [y EXCEPT !.pc = "noted"]
    <2>1. handler' = [handler EXCEPT ![h] = as]
      BY <1>5 DEF Note
    <2>2. as.observing = y.observing
      BY <1>1 DEF HandlerRecords
    <2> HIDE DEF as, live
    <2>3. Remembers(x, as, live)
      BY <1>1, <2>2 DEF Remembers
    <2> QED
      BY <1>3, <2>1, <2>3
  <1> QED
    BY <1>4, <1>5

\* What an event of the connection makes of the thread's state is of its epoch.
LEMMA EventEpoch ==
    ASSUME thread \in ThreadRecords, NEW epoch \in Nat, NEW n \in Nat
    PROVE  /\ Rebased(thread, epoch) \in ThreadRecords /\ Rebased(thread, epoch).epoch = epoch
           /\ \A st \in {Started(thread, n, epoch), Completed(thread, n, epoch)} :
                 st \in ThreadRecords /\ st.epoch \in {thread.epoch, epoch}
           /\ \A st \in {Reconciled(thread, n, epoch), Unavailable(thread, epoch)} :
                 st \in ThreadRecords /\ st.epoch = epoch
  <1>1. Rebased(thread, epoch) \in ThreadRecords /\ Rebased(thread, epoch).epoch = epoch
    BY DEF Rebased, ThreadRecords, NoTurn
  <1>2. /\ Completed(thread, n, epoch) \in ThreadRecords
        /\ Completed(thread, n, epoch).epoch = epoch
    <2> DEFINE st == Rebased(thread, epoch)
               done == st.completed \cup {n}
    <2>1. Completed(thread, n, epoch) =
            [st EXCEPT !.active = NoTurn, !.ready = FALSE, !.completed = done]
      BY DEF Completed
    <2>2. done \in SUBSET Nat
      BY <1>1 DEF ThreadRecords
    <2>3. st \in ThreadRecords /\ st.epoch = epoch
      BY <1>1
    <2>4. NoTurn \in Nat
      BY DEF NoTurn
    <2> HIDE DEF st, done
    <2>5. [st EXCEPT !.active = NoTurn, !.ready = FALSE, !.completed = done] \in ThreadRecords
      BY <2>2, <2>3, <2>4 DEF ThreadRecords
    <2>6. [st EXCEPT !.active = NoTurn, !.ready = FALSE, !.completed = done].epoch = epoch
      BY <2>3 DEF ThreadRecords
    <2> QED
      BY <2>1, <2>5, <2>6
  <1>3. /\ Started(thread, n, epoch) \in ThreadRecords
        /\ Started(thread, n, epoch).epoch \in {thread.epoch, epoch}
    <2> DEFINE st == Rebased(thread, epoch)
               answer == IF st.answer = n THEN n ELSE NoTurn
    <2>1. \/ Started(thread, n, epoch) = thread
          \/ Started(thread, n, epoch) = [st EXCEPT !.active = n, !.answer = answer]
      BY DEF Started
    <2>2. answer \in Nat
      BY DEF NoTurn
    <2>3. st \in ThreadRecords /\ st.epoch = epoch
      BY <1>1
    <2> HIDE DEF st, answer
    <2> QED
      BY <2>1, <2>2, <2>3 DEF ThreadRecords
  <1>4. ASSUME NEW active \in Nat, NEW ready \in BOOLEAN
        PROVE  /\ [Rebased(thread, epoch) EXCEPT !.active = active, !.ready = ready]
                     \in ThreadRecords
               /\ [Rebased(thread, epoch) EXCEPT !.active = active, !.ready = ready].epoch = epoch
    BY <1>1 DEF ThreadRecords
  <1>5. /\ Reconciled(thread, n, epoch) \in ThreadRecords
        /\ Reconciled(thread, n, epoch).epoch = epoch
    BY <1>4 DEF Reconciled
  <1>6. /\ Unavailable(thread, epoch) \in ThreadRecords
        /\ Unavailable(thread, epoch).epoch = epoch
    BY <1>4 DEF Unavailable, NoTurn
  <1> QED
    BY <1>1, <1>2, <1>3, <1>5, <1>6

\* The connection comes and goes: a thread of its epoch is one it has to do with.
LEMMA CurrentStep ==
    ASSUME PolicyInv, CurrentInv,
           \/ DaemonDies \/ DaemonStarts \/ Connect \/ Disconnect
           \/ StartTurn \/ EndTurn \/ Subscribe
    PROVE  CurrentInv'
  <1>1. /\ daemon \in DaemonRecords /\ daemon.epoch \in Nat /\ thread \in ThreadRecords
        /\ thread.epoch \in Nat /\ thread.epoch <= daemon.epoch
        /\ contact \in Contacts \cup {"none"} /\ turn \in Nat /\ turns + 1 \in Nat
        /\ Resolved \in Policies /\ installed \in Nat
    BY ExchangeAssumption
       DEF PolicyInv, ExchangeTypes, Resolved, CurrentInv, DaemonRecords, ThreadRecords
  <1>2. /\ "subscribed" \in Contacts /\ "refused" \in Contacts /\ "notified" \in Contacts
        /\ "unlisted" \in Contacts /\ "none" \notin Contacts
    BY DEF Contacts
  <1>3. CASE DaemonDies \/ Disconnect
    <2>1. /\ \/ daemon' = [daemon EXCEPT !.up = FALSE, !.ready = FALSE]
             \/ daemon' = [daemon EXCEPT !.ready = FALSE]
          /\ thread' = thread /\ contact' = "none"
      BY <1>3 DEF DaemonDies, Disconnect
    <2>2. daemon' \in DaemonRecords /\ ~daemon'.ready /\ daemon'.epoch = daemon.epoch
      BY <1>1, <2>1 DEF DaemonRecords
    <2> QED
      BY <1>1, <2>1, <2>2 DEF CurrentInv, Confirms
  <1>4. CASE DaemonStarts
    <2>1. /\ daemon' = [daemon EXCEPT !.up = TRUE, !.build = installed, !.policy = Resolved]
          /\ thread' = Hydrated(thread) /\ contact' = contact
      BY <1>4 DEF DaemonStarts
    <2>2. /\ daemon' \in DaemonRecords /\ daemon'.ready = daemon.ready
          /\ daemon'.epoch = daemon.epoch
      BY <1>1, <2>1 DEF DaemonRecords
    <2>3. thread' \in ThreadRecords /\ thread'.epoch = thread.epoch
      BY <1>1, <2>1 DEF Hydrated, ThreadRecords, NoTurn
    <2> QED
      BY <1>1, <2>1, <2>2, <2>3 DEF CurrentInv, Confirms, Known
  <1>5. CASE Connect
    <2> DEFINE epoch == daemon.epoch + 1
    <2>1. daemon' = [daemon EXCEPT !.ready = TRUE, !.epoch = epoch] /\ Reconcile(epoch)
      BY <1>5 DEF Connect
    <2>2. epoch \in Nat /\ thread.epoch < epoch
      BY <1>1
    <2>3. daemon' \in DaemonRecords /\ daemon'.epoch = epoch
      <3> HIDE DEF epoch
      <3> QED
        BY <1>1, <2>1, <2>2 DEF DaemonRecords
    <2>4. \/ thread' \in ThreadRecords /\ thread'.epoch = epoch /\ contact' \in Contacts
          \/ thread' = thread /\ contact' = contact
      <3> HIDE DEF epoch
      <3>1. CASE thread' = Reconciled(thread, turn, epoch) /\ contact' \in {"subscribed", "refused"}
        BY <1>1, <1>2, <2>2, <3>1, EventEpoch
      <3>2. CASE UNCHANGED view
        BY <3>2 DEF view
      <3>3. CASE thread' = Unavailable(thread, epoch) /\ contact' = "unlisted"
        BY <1>1, <1>2, <2>2, <3>3, EventEpoch
      <3> QED
        BY <2>1, <3>1, <3>2, <3>3 DEF Reconcile
    <2> HIDE DEF epoch
    <2> QED
      BY <1>1, <1>2, <2>2, <2>3, <2>4 DEF CurrentInv, Confirms, Known
  <1>6. CASE StartTurn \/ EndTurn \/ Subscribe
    <2>1. daemon' = daemon
      BY <1>6 DEF StartTurn, EndTurn, Subscribe
    <2>2. \/ UNCHANGED view
          \/ thread' = thread /\ contact' \in Contacts
          \/ /\ contact' \in Contacts
             /\ thread' \in {Started(thread, turns + 1, daemon.epoch),
                             Started(thread, turn, daemon.epoch),
                             Completed(thread, turn, daemon.epoch),
                             Rebased(thread, daemon.epoch)}
      BY <1>2, <1>6 DEF StartTurn, EndTurn, Subscribe, Hears
    <2>3. CASE UNCHANGED view
      BY <1>1, <2>1, <2>3 DEF view, CurrentInv, Confirms, Known
    <2>4. CASE contact' \in Contacts /\ thread' \in ThreadRecords /\ thread'.epoch <= daemon.epoch
      BY <1>1, <1>2, <2>1, <2>4 DEF CurrentInv, Known
    <2>5. CASE contact' \in Contacts /\ thread' = thread
      BY <1>1, <2>4, <2>5
    <2>6. CASE /\ contact' \in Contacts
               /\ thread' \in {Started(thread, turns + 1, daemon.epoch),
                               Started(thread, turn, daemon.epoch),
                               Completed(thread, turn, daemon.epoch),
                               Rebased(thread, daemon.epoch)}
      <3>1. thread' \in ThreadRecords /\ thread'.epoch \in {thread.epoch, daemon.epoch}
        BY <1>1, <2>6, EventEpoch
      <3>2. thread'.epoch <= daemon.epoch
        BY <1>1, <3>1
      <3> QED
        BY <2>4, <2>6, <3>1, <3>2
    <2> QED
      BY <2>2, <2>3, <2>5, <2>6
  <1> QED
    BY <1>3, <1>4, <1>5, <1>6

\* What happens outside the Hooks is remembered by those that run.
LEMMA OutsideRemembers ==
    ASSUME PolicyInv, SeenInv,
           \/ EditConfig \/ Upgrade \/ SetupInstallsHook \/ SetupCommits
           \/ DaemonDies \/ DaemonStarts \/ Connect \/ Disconnect
           \/ StartTurn \/ EndTurn \/ Subscribe
           \/ Done \/ UNCHANGED exchangeVars
    PROVE  SeenInv'
  <1>1. /\ ExchangeTypes /\ hook \in [Hooks -> HookRecords] /\ handler \in [Hooks -> HandlerRecords]
        /\ CurrentInv /\ \A h \in Hooks : Remembers(hook[h], handler[h], Known)
    BY DEF PolicyInv, ExchangeTypes, SeenInv
  <1>2. CASE \/ EditConfig \/ Upgrade \/ SetupInstallsHook \/ SetupCommits
             \/ Done \/ UNCHANGED exchangeVars
    <2>1. /\ hook' = hook /\ handler' = handler /\ daemon' = daemon /\ thread' = thread
          /\ contact' = contact
      BY <1>2 DEF EditConfig, Upgrade, SetupInstallsHook, SetupCommits, Done, exchangeVars, view
    <2>2. Known' = Known /\ CurrentInv'
      BY <1>1, <2>1 DEF CurrentInv, Confirms, Known
    <2> QED
      BY <1>1, <2>1, <2>2 DEF SeenInv
  <1>3. CASE DaemonStarts
    <2>1. hook' = hook /\ handler' = handler /\ contact' = contact
      BY <1>3 DEF DaemonStarts
    <2>2. Known' = Known /\ CurrentInv'
      BY <1>1, <1>3, <2>1, CurrentStep DEF Known
    <2> QED
      BY <1>1, <2>1, <2>2 DEF SeenInv
  <1>4. CASE Connect \/ StartTurn \/ EndTurn \/ Subscribe
    <2>1. Seen(contact') /\ handler' = handler
      BY <1>4 DEF Connect, StartTurn, EndTurn, Subscribe
    <2>2. CurrentInv'
      BY <1>1, <1>4, CurrentStep
    <2>3. Known' => Mark(contact') # {}
      BY <2>2 DEF CurrentInv, Known, Mark
    <2>4. ASSUME NEW h \in Hooks PROVE Remembers(hook'[h], handler'[h], Known')
      <3> DEFINE x == hook[h]
                 seen == x.seen \cup Mark(contact')
                 to == [x EXCEPT !.seen = seen]
      <3>1. /\ hook'[h] = IF x.pc \in {"idle", "done"} THEN x ELSE to
            /\ handler'[h] = handler[h]
        BY <2>1 DEF Seen
      <3>2. Remembers(x, handler[h], Known) /\ x \in HookRecords
        BY <1>1
      <3>3. /\ to.seen = seen /\ to.pc = x.pc /\ to.status = x.status
            /\ to.answer = x.answer /\ to.proposal = x.proposal
        BY <3>2 DEF HookRecords
      <3>4. x.seen # {} \/ Known' => seen # {}
        BY <2>3
      <3> HIDE DEF to, seen
      <3>5. Remembers(to, handler[h], Known')
        BY <3>2, <3>3, <3>4 DEF Remembers, Quiet
      <3>6. CASE x.pc \in {"idle", "done"}
        BY <3>1, <3>2, <3>6 DEF Remembers
      <3>7. CASE x.pc \notin {"idle", "done"}
        BY <3>1, <3>5, <3>7
      <3> QED
        BY <3>6, <3>7
    <2> QED
      BY <2>2, <2>4 DEF SeenInv
  <1>5. ASSUME contact' = "none", CurrentInv',
               \A h \in Hooks : /\ hook'[h].pc = hook[h].pc /\ hook'[h].seen = hook[h].seen
                                /\ Quiet(hook'[h]) => Quiet(hook[h])
                                /\ handler'[h].observing => handler[h].observing
        PROVE  SeenInv'
    <2>1. ~Known'
      BY <1>5 DEF Known
    <2>2. ASSUME NEW h \in Hooks PROVE Remembers(hook'[h], handler'[h], Known')
      <3>1. Remembers(hook[h], handler[h], Known)
        BY <1>1
      <3> QED
        BY <1>5, <2>1, <3>1 DEF Remembers
    <2> QED
      BY <1>5, <2>2 DEF SeenInv
  <1>6. CASE Disconnect
    <2>1. hook' = hook /\ handler' = handler /\ contact' = "none" /\ CurrentInv'
      BY <1>1, <1>6, CurrentStep DEF Disconnect
    <2> QED
      BY <1>5, <2>1
  <1>7. CASE DaemonDies
    <2>1. contact' = "none" /\ CurrentInv'
      BY <1>1, <1>7, CurrentStep DEF DaemonDies
    <2>2. ASSUME NEW h \in Hooks
          PROVE  /\ hook'[h].pc = hook[h].pc /\ hook'[h].seen = hook[h].seen
                 /\ Quiet(hook'[h]) => Quiet(hook[h])
                 /\ handler'[h].observing => handler[h].observing
      <3> DEFINE x == hook[h]
                 lost == x.lost \/ handler[h].pc = "sent"
                 to == [x EXCEPT !.lost = lost]
      <3>1. hook'[h] = to
        BY <1>7 DEF DaemonDies
      <3>2. /\ to.seen = x.seen /\ to.pc = x.pc /\ to.status = x.status
            /\ to.answer = x.answer /\ to.proposal = x.proposal
        BY <1>1 DEF HookRecords
      <3>3. handler'[h].observing => handler[h].observing
        <4>1. handler[h] \in HandlerRecords
          BY <1>1
        <4>2. handler'[h] = CASE handler[h].pc = "sent" -> [NoHandler EXCEPT !.pc = "closed"]
                              [] handler[h].pc = "answered" -> [handler[h] EXCEPT !.pc = "noted"]
                              [] OTHER -> handler[h]
          BY <1>7 DEF DaemonDies
        <4>3. ~[NoHandler EXCEPT !.pc = "closed"].observing
          BY DEF NoHandler
        <4>4. [handler[h] EXCEPT !.pc = "noted"].observing = handler[h].observing
          BY <4>1 DEF HandlerRecords
        <4>5. CASE handler[h].pc = "sent"
          BY <4>2, <4>3, <4>5
        <4>6. CASE handler[h].pc = "answered"
          BY <4>2, <4>4, <4>6
        <4>7. CASE handler[h].pc \notin {"sent", "answered"}
          BY <4>2, <4>7
        <4> QED
          BY <4>5, <4>6, <4>7
      <3> HIDE DEF to
      <3> QED
        BY <3>1, <3>2, <3>3 DEF Quiet
    <2> QED
      BY <1>5, <2>1, <2>2
  <1> QED
    BY <1>2, <1>3, <1>4, <1>6, <1>7

\* A session start that prints no warning is not answered from what an earlier connection
\* saw: while the Hook ran, the daemon's connection was subscribed to the thread, or had been
\* notified of it, refused it, or not found it in the list (hook._live_observation_warning,
\* daemon._session_status).
THEOREM SilenceIsEarned == ExchangeSpec => []SilenceIsCurrent
  <1>1. ExchangeInit => SeenInv
    <2> SUFFICES ASSUME ExchangeInit PROVE SeenInv
      OBVIOUS
    <2>1. daemon \in DaemonRecords /\ ~daemon.ready /\ daemon.epoch = 0
      <3>1. Resolved \in Policies
        BY ExchangeAssumption DEF ExchangeInit, Resolved
      <3> QED
        BY <3>1 DEF ExchangeInit, DaemonRecords
    <2>2. thread \in ThreadRecords /\ thread.epoch = 0 /\ contact = "none"
      BY DEF ExchangeInit, Unobserved, ThreadRecords, NoTurn
    <2>3. CurrentInv
      BY <2>1, <2>2 DEF CurrentInv, Confirms
    <2>4. Remembers(NewHook, NoHandler, Known)
      BY ExchangeAssumption DEF NewHook, NoHandler, Remembers, Quiet
    <2> QED
      BY <2>3, <2>4 DEF ExchangeInit, SeenInv
  <1>2. PolicyInv /\ SeenInv /\ [ExchangeNext]_exchangeVars => SeenInv'
    <2> SUFFICES ASSUME PolicyInv, SeenInv, [ExchangeNext]_exchangeVars PROVE SeenInv'
      OBVIOUS
    <2>1. CASE \E h \in Hooks : Launch(h) \/ HookSteps(h) \/ ObserveFails(h)
      BY <2>1, HookRemembers
    <2>2. CASE \E h \in Hooks : Handle(h) \/ Note(h)
      BY <2>2, DaemonRemembers
    <2>3. CASE \/ EditConfig \/ Upgrade \/ SetupInstallsHook \/ SetupCommits
               \/ DaemonDies \/ DaemonStarts \/ Connect \/ Disconnect
               \/ StartTurn \/ EndTurn \/ Subscribe
               \/ Done \/ UNCHANGED exchangeVars
      BY <2>3, OutsideRemembers
    <2> QED
      BY <2>1, <2>2, <2>3 DEF ExchangeNext
  <1>3. SeenInv => SilenceIsCurrent
    <2> SUFFICES ASSUME SeenInv, NEW h \in Hooks, Silent(h) PROVE hook[h].seen # {}
      BY DEF SilenceIsCurrent
    <2>1. Quiet(hook[h]) /\ Remembers(hook[h], handler[h], Known)
      BY DEF SeenInv, Silent, Quiet
    <2> QED
      BY <2>1 DEF Remembers
  <1> QED
    BY <1>1, <1>2, <1>3, PolicyHolds, PTL DEF ExchangeSpec
===============================================================================
