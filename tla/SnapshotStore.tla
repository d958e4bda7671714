---------------------------- MODULE SnapshotStore ----------------------------
(***************************************************************************)
(* Worktree snapshots (src/spotter/snapshot.py): commits pinned by refs,   *)
(* named by journal records, owned by the repository registry, protected   *)
(* by manual pins, and swept by `spotter prune` and `spotter purge`.       *)
(*                                                                         *)
(* A ref exists before any journal names it.  The global lock closes that  *)
(* window against the sweepers, but only records that carry a snapshot are *)
(* written under it: the others are appended at any time, also while a     *)
(* sweeper works.  Every process may be killed between two steps, which    *)
(* releases its lock.  The trees are left out: a snapshot whose tree is    *)
(* that of the worktree may be reused.  One Git repository is modelled,    *)
(* with the directories that belong to it; fork manifests, which only      *)
(* purge looks at, are not.                                                *)
(***************************************************************************)
EXTENDS Naturals, FiniteSets

CONSTANTS
    Snapshots,      \* ids of snapshot commits
    Sessions,       \* sessions, each with a journal
    Writers,        \* Hooks and the daemon's ingestor
    SessionOf,      \* the session of each writer
    Dirs,           \* directories of the repository: its root, subdirectories, linked worktrees
    PrunedDirs,     \* the directories `spotter prune` is run for
    MaxRecords,     \* bound: the records of a journal that name a snapshot
    NoSnapshot, NoDir, AnyDir, Sweeper, Nobody

ASSUME SnapshotAssumption ==
    /\ NoSnapshot \notin Snapshots
    /\ NoDir \notin Dirs /\ AnyDir \notin Dirs /\ NoDir # AnyDir
    /\ Sweeper \notin Writers /\ Nobody \notin Writers /\ Sweeper # Nobody
    /\ SessionOf \in [Writers -> Sessions]
    /\ PrunedDirs \subseteq Dirs
    /\ MaxRecords \in Nat

VARIABLES
    commits,    \* whether Git can resolve each snapshot
    refs,       \* refs/spotter/steps/*
    owned,      \* the refs the repository registry records
    pins,       \* the manual pins
    aged,       \* snapshots older than --max-age-days
    expired,    \* snapshots whose ref an age policy took, and that no record has named since
    journal,    \* the records of each session's journal that name a snapshot
    last,       \* last_snapshot of the journal's sidecar
    fresh,      \* sessions whose journal was modified within --max-age-days
    lock,       \* who holds the global lock
    pc,         \* what each writer is doing
    draft,      \* the record it is going to append
    new,        \* the ref it made did not exist before
    sweep,      \* what the sweeper is doing
    wanted      \* the snapshot `spotter pins add` found in the registry

git == <<commits, refs, aged, expired>>
journals == <<journal, last, fresh>>
writer == <<pc, draft, new>>
vars == <<git, owned, pins, journals, lock, writer, sweep, wanted>>

Optional == Snapshots \cup {NoSnapshot}

\* A Hook's tool_proposal and the daemon's thread_started and commands name a cwd; only a
\* Hook's tool_result names a checkpoint.
Records == [snap : Optional, checkpoint : Optional, dir : Dirs \cup {NoDir}]
Empty == [snap |-> NoSnapshot, checkpoint |-> NoSnapshot, dir |-> NoDir]

Sweeps == [pc : {"idle", "deleting", "scanned"},
           dir : Dirs \cup {NoDir, AnyDir},      \* AnyDir: a purge, which ignores directories
           expire : BOOLEAN,                     \* --max-age-days
           doomed : SUBSET Sessions,             \* stale journals not looked at yet
           removed : SUBSET Sessions,            \* stale journals deleted
           roots : SUBSET Snapshots,             \* the manual pins it loaded
           keep : SUBSET Snapshots]              \* references found in the journals
Idle == [pc |-> "idle", dir |-> NoDir, expire |-> FALSE, doomed |-> {}, removed |-> {},
         roots |-> {}, keep |-> {}]

TypeOK ==
    /\ commits \in [Snapshots -> {"unborn", "present", "collected"}]
    /\ refs \in SUBSET Snapshots /\ owned \in SUBSET Snapshots /\ pins \in SUBSET Snapshots
    /\ aged \in SUBSET Snapshots /\ expired \in SUBSET Snapshots
    /\ journal \in [Sessions -> SUBSET Records]
    /\ last \in [Sessions -> Optional]
    /\ fresh \in SUBSET Sessions
    /\ lock \in Writers \cup {Sweeper, Nobody}
    /\ pc \in [Writers -> {"idle", "begun", "locked", "pinned", "ready"}]
    /\ draft \in [Writers -> Records]
    /\ new \in [Writers -> BOOLEAN]
    /\ sweep \in Sweeps
    /\ wanted \in Optional

Init ==
    /\ commits = [x \in Snapshots |-> "unborn"]
    /\ refs = {} /\ owned = {} /\ pins = {} /\ aged = {} /\ expired = {}
    /\ journal = [s \in Sessions |-> {}]
    /\ last = [s \in Sessions |-> NoSnapshot]
    /\ fresh = {}
    /\ lock = Nobody
    /\ pc = [w \in Writers |-> "idle"]
    /\ draft = [w \in Writers |-> Empty]
    /\ new = [w \in Writers |-> FALSE]
    /\ sweep = Idle
    /\ wanted = NoSnapshot

-----------------------------------------------------------------------------
(***************************************************************************)
(* Writers: run_hook() and AppServerTraceIngestor.record().                *)
(***************************************************************************)
Goto(w, label) == pc' = [pc EXCEPT ![w] = label]

\* An event arrives.  The checkpoint of a tool_result is read before any lock is taken; the
\* sidecar may be stale after a crash, which reads as no snapshot.
Begin(w, kind) ==
    /\ pc[w] = "idle"
    /\ Goto(w, "begun")
    /\ \E dir \in IF kind = "placed" THEN Dirs ELSE {NoDir},
          checkpoint \in IF kind = "result" THEN {last[SessionOf[w]], NoSnapshot}
                                            ELSE {NoSnapshot} :
          draft' = [draft EXCEPT ![w] =
              [snap |-> NoSnapshot, checkpoint |-> checkpoint, dir |-> dir]]
    /\ UNCHANGED <<git, owned, pins, journals, lock, new, sweep, wanted>>

\* StepJournal.record() under the lock of the journal; a deleted journal starts again.
Append(w) ==
    LET s == SessionOf[w]
        more == IF draft[w].snap = draft[w].checkpoint /\ draft[w].snap = NoSnapshot THEN {}
                ELSE {draft[w]}
    IN  /\ journal' = [journal EXCEPT ![s] = @ \cup more]
        /\ Cardinality(journal[s] \cup more) <= MaxRecords
        /\ last' = IF draft[w].snap = NoSnapshot THEN last
                   ELSE [last EXCEPT ![s] = draft[w].snap]
        /\ fresh' = fresh \cup {s}
        /\ draft' = [draft EXCEPT ![w] = Empty]
        /\ expired' = expired \ {draft[w].snap}

\* A record without a snapshot is appended without the global lock.
AppendPlain(w) ==
    /\ pc[w] = "begun"
    /\ Append(w)
    /\ Goto(w, "idle")
    /\ UNCHANGED <<commits, refs, aged, owned, pins, lock, new, sweep, wanted>>

Acquire(w) ==
    /\ pc[w] = "begun" /\ lock = Nobody
    /\ lock' = w
    /\ Goto(w, "locked")
    /\ UNCHANGED <<git, owned, pins, journals, draft, new, sweep, wanted>>

\* update-ref of snapshot x.
Pin(w, x) ==
    /\ refs' = refs \cup {x}
    /\ new' = [new EXCEPT ![w] = x \notin refs]
    /\ draft' = [draft EXCEPT ![w].snap = x]
    /\ Goto(w, "pinned")
    /\ UNCHANGED <<owned, pins, journals, lock, sweep, wanted>>

\* The tree is that of the previous snapshot, if Git still has it: it is pinned again.
Reuse(w) ==
    /\ pc[w] = "locked"
    /\ LET previous == last[SessionOf[w]]
       IN  /\ previous # NoSnapshot
           /\ commits[previous] = "present"
           /\ Pin(w, previous)
    /\ UNCHANGED <<commits, aged, expired>>

\* A new commit, also when the sidecar was stale and the previous snapshot unknown.
Mint(w, x) ==
    /\ pc[w] = "locked" /\ commits[x] = "unborn"
    /\ commits' = [commits EXCEPT ![x] = "present"]
    /\ Pin(w, x)
    /\ UNCHANGED <<aged, expired>>

\* Git fails: the event is recorded without a snapshot.
Forgo(w) ==
    /\ pc[w] = "locked"
    /\ Goto(w, "ready")
    /\ UNCHANGED <<git, owned, pins, journals, lock, draft, new, sweep, wanted>>

\* RepositoryRegistry.record_ref().
Own(w) ==
    /\ pc[w] = "pinned"
    /\ owned' = owned \cup {draft[w].snap}
    /\ Goto(w, "ready")
    /\ new' = [new EXCEPT ![w] = FALSE]
    /\ UNCHANGED <<git, pins, journals, lock, draft, sweep, wanted>>

\* Mutant: the snapshot is journaled although nobody owns its ref.
KeepUnowned(w) ==
    /\ pc[w] = "pinned"
    /\ Goto(w, "ready")
    /\ new' = [new EXCEPT ![w] = FALSE]
    /\ UNCHANGED <<git, owned, pins, journals, lock, draft, sweep, wanted>>

\* The registry refuses: a ref that did not exist before goes again.
Rollback(w) ==
    /\ pc[w] = "pinned"
    /\ refs' = IF new[w] THEN refs \ {draft[w].snap} ELSE refs
    /\ draft' = [draft EXCEPT ![w].snap = NoSnapshot]
    /\ Goto(w, "ready")
    /\ new' = [new EXCEPT ![w] = FALSE]
    /\ UNCHANGED <<commits, aged, expired, owned, pins, journals, lock, sweep, wanted>>

Record(w) ==
    /\ pc[w] = "ready"
    /\ Append(w)
    /\ Goto(w, "idle")
    /\ lock' = Nobody
    /\ UNCHANGED <<commits, refs, aged, owned, pins, new, sweep, wanted>>

Kill(w) ==
    /\ pc[w] # "idle"
    /\ Goto(w, "idle")
    /\ lock' = IF lock = w THEN Nobody ELSE lock
    /\ draft' = [draft EXCEPT ![w] = Empty]
    /\ new' = [new EXCEPT ![w] = FALSE]
    /\ UNCHANGED <<git, owned, pins, journals, sweep, wanted>>

WriterStep(w) ==
    \/ \E kind \in {"placed", "result", "other"} : Begin(w, kind)
    \/ AppendPlain(w) \/ Acquire(w) \/ Reuse(w) \/ Forgo(w) \/ Own(w) \/ Rollback(w)
    \/ Record(w) \/ Kill(w)
    \/ \E x \in Snapshots : Mint(w, x)

-----------------------------------------------------------------------------
(***************************************************************************)
(* The sweepers, one at a time: they hold the global lock to the end.      *)
(***************************************************************************)
Start(s) ==
    /\ lock = Nobody /\ lock' = Sweeper
    /\ sweep' = s
    /\ UNCHANGED <<git, owned, pins, journals, writer, wanted>>

\* `spotter prune --apply` for a directory; --journals needs --max-age-days.  The pins count
\* only if the repository has a registry entry.
PruneStart(dir, expire, stale) ==
    /\ stale => expire
    /\ Start([Idle EXCEPT !.pc = "deleting", !.dir = dir, !.expire = expire,
                  !.doomed = IF stale THEN Sessions \ fresh ELSE {},
                  !.roots = IF owned = {} THEN {} ELSE pins])

\* `spotter purge --apply` keeps what any journal references, whatever its directory.
PurgeStart == Start([Idle EXCEPT !.pc = "deleting", !.dir = AnyDir, !.roots = pins])

\* _delete_journal(): staleness is checked again under the lock of the journal.
DeleteJournal(s) ==
    /\ s \in sweep.doomed
    /\ s \notin fresh
    /\ journal' = [journal EXCEPT ![s] = {}]
    /\ last' = [last EXCEPT ![s] = NoSnapshot]
    /\ sweep' = [sweep EXCEPT !.doomed = @ \ {s}, !.removed = @ \cup {s}]
    /\ UNCHANGED <<git, owned, pins, fresh, lock, writer, wanted>>

\* It became current or went away, or its reviewer is running.
SpareJournal(s) ==
    /\ s \in sweep.doomed
    /\ sweep' = [sweep EXCEPT !.doomed = @ \ {s}]
    /\ UNCHANGED <<git, owned, pins, journals, lock, writer, wanted>>

\* snapshot_references(): a record without a directory counts for every repository.
Counts(r) == r.dir \in {NoDir, sweep.dir} \/ sweep.dir = AnyDir
Counted == {r \in UNION {journal[s] : s \in Sessions \ sweep.removed} : Counts(r)}
Roots == {r.snap : r \in Counted} \cup {r.checkpoint : r \in Counted}

\* Mutant: the lock is released once the references are known.
ScanAndRelease ==
    /\ sweep.pc = "deleting" /\ sweep.doomed = {}
    /\ sweep' = [sweep EXCEPT !.pc = "scanned", !.keep = Roots \ {NoSnapshot}]
    /\ lock' = Nobody
    /\ UNCHANGED <<git, owned, pins, journals, writer, wanted>>

Scan ==
    /\ sweep.pc = "deleting" /\ sweep.doomed = {}
    /\ sweep' = [sweep EXCEPT !.pc = "scanned", !.keep = Roots \ {NoSnapshot}]
    /\ UNCHANGED <<git, owned, pins, journals, lock, writer, wanted>>

Finish == sweep' = Idle /\ lock' = Nobody

\* Mutant: an age policy expires the manual pins as well.
ExpirePins ==
    /\ sweep.pc = "scanned" /\ sweep.dir # AnyDir
    /\ LET old == IF sweep.expire THEN aged ELSE {}
           gone == {x \in refs : x \notin sweep.keep \cup sweep.roots \/ x \in old}
       IN  refs' = refs \ gone /\ expired' = expired \cup (gone \cap old)
    /\ Finish
    /\ UNCHANGED <<commits, aged, owned, pins, journals, writer, wanted>>

\* prune_snapshots(): one Git transaction deletes every ref that is not protected and either
\* unreferenced or expired.
PruneRefs ==
    /\ sweep.pc = "scanned" /\ sweep.dir # AnyDir
    /\ LET old == IF sweep.expire THEN aged ELSE {}
           gone == {x \in refs \ sweep.roots : x \notin sweep.keep \/ x \in old}
       IN  refs' = refs \ gone /\ expired' = expired \cup (gone \cap old)
    /\ Finish
    /\ UNCHANGED <<commits, aged, owned, pins, journals, writer, wanted>>

\* Purge deletes the owned, unreferenced refs one by one.
PurgeRef(x) ==
    /\ sweep.pc = "scanned" /\ sweep.dir = AnyDir
    /\ x \in (refs \cap owned) \ (sweep.keep \cup sweep.roots)
    /\ refs' = refs \ {x}
    /\ UNCHANGED <<commits, aged, expired, owned, pins, journals, lock, writer, sweep, wanted>>

\* A purge of everything removes the registry once all it records is gone.
RemoveRegistry ==
    /\ sweep.pc = "scanned" /\ sweep.dir = AnyDir
    /\ owned \cap refs = {}
    /\ owned' = {}
    /\ Finish
    /\ UNCHANGED <<git, pins, journals, writer, wanted>>

\* The sweeper is done or killed, or a journal, the pins or Git make it give up.
Stop ==
    /\ lock = Sweeper
    /\ Finish
    /\ UNCHANGED <<git, owned, pins, journals, writer, wanted>>

SweeperStep ==
    \/ \E dir \in PrunedDirs, expire, stale \in BOOLEAN : PruneStart(dir, expire, stale)
    \/ PurgeStart
    \/ \E s \in Sessions : DeleteJournal(s) \/ SpareJournal(s)
    \/ Scan \/ PruneRefs \/ RemoveRegistry \/ Stop
    \/ \E x \in Snapshots : PurgeRef(x)

-----------------------------------------------------------------------------
(***************************************************************************)
(* The operator and the environment.                                       *)
(***************************************************************************)
\* `spotter pins add` looks a snapshot up before it takes the lock ...
FindPin(x) ==
    /\ wanted = NoSnapshot /\ x \in owned \ pins
    /\ wanted' = x
    /\ UNCHANGED <<git, owned, pins, journals, lock, writer, sweep>>

\* ... and record_ref() verifies the ref under it.
AddPin ==
    /\ wanted # NoSnapshot /\ lock = Nobody
    /\ wanted' = NoSnapshot
    /\ IF wanted \in refs
       THEN pins' = pins \cup {wanted} /\ owned' = owned \cup {wanted}
       ELSE UNCHANGED <<pins, owned>>
    /\ UNCHANGED <<git, journals, lock, writer, sweep>>

RemovePin(x) ==
    /\ x \in pins /\ lock = Nobody
    /\ pins' = pins \ {x}
    /\ UNCHANGED <<git, owned, journals, lock, writer, sweep, wanted>>

\* `spotter purge` of the data removes a journal under its own lock only.
PurgeData(s) ==
    /\ journal[s] # {}
    /\ journal' = [journal EXCEPT ![s] = {}]
    /\ last' = [last EXCEPT ![s] = NoSnapshot]
    /\ UNCHANGED <<git, owned, pins, fresh, lock, writer, sweep, wanted>>

\* Time passes; nobody holds the lock for a day.
DaysPass ==
    /\ lock = Nobody
    /\ aged' = {x \in Snapshots : commits[x] # "unborn"}
    /\ fresh' = {}
    /\ UNCHANGED <<commits, refs, expired, owned, pins, journal, last, lock, writer, sweep, wanted>>

\* `git gc` collects a commit that nothing pins.
Gc(x) ==
    /\ commits[x] = "present" /\ x \notin refs
    /\ commits' = [commits EXCEPT ![x] = "collected"]
    /\ UNCHANGED <<refs, aged, expired, owned, pins, journals, lock, writer, sweep, wanted>>

OperatorStep ==
    \/ \E x \in Snapshots : FindPin(x) \/ RemovePin(x) \/ Gc(x)
    \/ \E s \in Sessions : PurgeData(s)
    \/ AddPin \/ DaysPass

Next ==
    \/ \E w \in Writers : WriterStep(w)
    \/ SweeperStep
    \/ OperatorStep

Spec == Init /\ [][Next]_vars

-----------------------------------------------------------------------------
(***************************************************************************)
(* Properties.                                                             *)
(***************************************************************************)
\* Whatever interleaving of writers, sweepers, crashes and clean-ups produced it, a record
\* names a snapshot that is still pinned, so that the step can be forked: unless an explicit
\* age policy took the ref, or prune runs for another directory than the one the record names.
SweptFor(r) == r.dir # NoDir /\ ~ PrunedDirs \subseteq {r.dir}
JournalledIsPinned ==
    \A s \in Sessions : \A r \in journal[s] :
        r.snap # NoSnapshot /\ ~ SweptFor(r) => r.snap \in refs \cup expired

\* A snapshot the operator pinned keeps its ref and its owner, under an age policy and under
\* a purge too (prune_snapshots: "explicitly protected snapshots are never prunable").
PinnedSurvives == pins \subseteq refs \cap owned

\* A snapshot that a record starts to name is pinned and owned at that moment, though a crash
\* or a refusal of the registry may have come between the three writes.
RecordedOnceOwned ==
    [][\A s \in Sessions : \A r \in journal'[s] \ journal[s] :
          r.snap # NoSnapshot => r.snap \in refs' \cap owned']_vars

\* What prune_snapshots says: "referenced snapshots are kept indefinitely by default".  A
\* prune without an age policy removes no ref that a record of a journal names as its own.
ReferencedSurvivesPrune ==
    [][PruneRefs /\ ~ sweep.expire
        => \A s \in Sessions : \A r \in journal[s] : r.snap \notin refs \ refs']_vars
=============================================================================
