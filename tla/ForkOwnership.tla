----------------------------- MODULE ForkOwnership -----------------------------
(***************************************************************************)
(* Forks and what is cleaned up after them: `spotter fork` and the arms of *)
(* an experiment restore a snapshot into a worktree of the repository      *)
(* (replay.py, experiment.py), the repository registry records it          *)
(* (repository_registry.py), and `spotter purge` removes what is recorded, *)
(* exact and referred to by nothing (retention.py, cli.py).                *)
(*                                                                         *)
(* Purge and whoever makes a snapshot exclude each other by the global     *)
(* lock; forks, arms, `purge --data` and `prune --forks` do not take it.   *)
(* A process may be killed at any step.  The user moves and copies         *)
(* repositories, deletes worktrees and changes refs; the registry knows a  *)
(* repository by the inode of its Git directory, Git knows a worktree by   *)
(* the path of that directory.  How a snapshot is made and journaled, step *)
(* by step, is SnapshotStore.                                              *)
(***************************************************************************)
EXTENDS Naturals, FiniteSets

CONSTANTS
    Repos,      \* Git repositories: an inode each
    Places,     \* paths a repository can be at
    Snapshots,  \* snapshot commits
    Forks,      \* fork ids: a worktree path, a manifest and a process each
    MaxMoves    \* bound: what the user does outside Spotter

ASSUME ForkAssumption ==
    /\ IsFiniteSet(Repos) /\ IsFiniteSet(Places) /\ IsFiniteSet(Snapshots) /\ IsFiniteSet(Forks)
    /\ MaxMoves \in Nat

Away == "away"      \* no path, no snapshot, no record

VARIABLES
    \* the user's disk
    at,         \* the path of each repository
    refs,       \* refs/spotter/steps of each repository: absent, exact or changed
    admin,      \* the worktrees each repository has an administrative directory of
    locked,     \* those of them locked against removal
    trees,      \* worktree directories that exist
    home,       \* where a worktree's .git points: the path its repository had
    scoring,    \* worktrees whose .git is the scorer's own repository
    moves,      \* what the user did
    \* Spotter's files
    entries,    \* the registry: the path and the resources of a repository
    journaled,  \* snapshots a journal names
    pins,       \* manual pins
    manifest,   \* the status of each fork manifest
    \* processes
    fork,       \* where each fork or arm is, the path it was given and its snapshot
    purge,      \* where `spotter purge` is
    \* observer
    lost        \* worktrees whose process died, or whose repository moved, before the record

disk == <<at, refs, admin, locked, trees, home, scoring, moves>>
forkVars == <<disk, entries, journaled, pins, manifest, fork, purge, lost>>

Unrecorded == [path |-> Away, refs |-> {}, trees |-> {}]
NoFork == [pc |-> "none", path |-> Away, snap |-> Away]
NoPurge == [pc |-> "idle", entries |-> [r \in Repos |-> Unrecorded], todo |-> {},
            doomed |-> {}, failed |-> FALSE, late |-> {}]

ForkInit ==
    /\ at \in {f \in [Repos -> Places \cup {Away}] : Cardinality({r \in Repos : f[r] # Away}) = 1}
    /\ refs = [r \in Repos |-> [x \in Snapshots |-> "absent"]]
    /\ admin = [r \in Repos |-> {}] /\ locked = [r \in Repos |-> {}]
    /\ trees = {} /\ scoring = {} /\ moves = 0
    /\ home = [f \in Forks |-> Away]
    /\ entries = [r \in Repos |-> Unrecorded]
    /\ journaled = {} /\ pins = {}
    /\ manifest = [f \in Forks |-> "absent"]
    /\ fork = [f \in Forks |-> NoFork]
    /\ purge = NoPurge
    /\ lost = {}

-----------------------------------------------------------------------------
(***************************************************************************)
(* Git and the registry.                                                   *)
(***************************************************************************)
Found(path) == {r \in Repos : at[r] = path /\ path # Away}

\* The repository whose administrative directory a worktree's .git leads to.
OwnerOf(f) == {r \in Found(home[f]) : f \in admin[r]}

\* `git worktree remove --force`: one --force does not remove a locked worktree.
Removable(r, f) == f \in admin[r] /\ f \notin locked[r] /\ (f \in trees => f \notin scoring)

RemoveTree(r, f) ==
    /\ trees' = trees \ {f}
    /\ admin' = [admin EXCEPT ![r] = @ \ {f}]

\* _record(): the entry of the repository's identity, at the path it has now.
WithTree(r, f) == [entries EXCEPT ![r].path = at[r], ![r].trees = @ \cup {f}]
WithRef(r, x) == [entries EXCEPT ![r].path = at[r], ![r].refs = @ \cup {x}]

\* inspect(): the last known path still is the recorded repository.
Located(e, r) == Found(e[r].path) = {r}

\* _inspect_worktree().
MetadataExists(f) == OwnerOf(f) # {}
TreePresent(e, r, f) ==
    /\ Located(e, r)
    /\ IF f \in trees THEN OwnerOf(f) = {r} /\ f \notin scoring
                      ELSE f \in admin[r] /\ MetadataExists(f)
TreeAbsent(e, r, f) ==
    Located(e, r) /\ f \notin trees /\ f \notin admin[r] /\ ~MetadataExists(f)

\* _inspect_ref().
RefPresent(e, r, x) == Located(e, r) /\ refs[r][x] = "exact"
RefAbsent(e, r, x) == Located(e, r) /\ refs[r][x] = "absent"

Exhausted(e) == \A r \in Repos :
    /\ \A f \in e[r].trees : TreeAbsent(e, r, f)
    /\ \A x \in e[r].refs : RefAbsent(e, r, x)

-----------------------------------------------------------------------------
(***************************************************************************)
(* Retention.                                                              *)
(***************************************************************************)
Keys(e) == {k \in Repos \X Snapshots : k[2] \in e[k[1]].refs}

Manifests(x) == {f \in Forks : manifest[f] # "absent" /\ fork[f].snap = x}
RestoredFrom(e, r, x) == {f \in e[r].trees : fork[f].snap = x}

\* A pin, a journal or a manifest refers to the snapshot.
Named(r, x) == <<r, x>> \in pins \/ x \in journaled \/ Manifests(x) # {}

\* What cannot be judged makes snapshots unknown, which keeps them as well.
Unjudged(e, r, x) ==
    \/ ~(pins \subseteq Keys(e))
    \/ \E f \in RestoredFrom(e, r, x) : ~TreePresent(e, r, f) /\ ~TreeAbsent(e, r, f)

\* Mutant: worktrees purge meant to remove retain nothing, as in its preview.
UnreferencedIfRemoved(e, r, x) == ~Named(r, x) /\ ~Unjudged(e, r, x)

Unreferenced(e, r, x) ==
    /\ ~Named(r, x) /\ ~Unjudged(e, r, x)
    /\ \A f \in RestoredFrom(e, r, x) : ~TreePresent(e, r, f)

-----------------------------------------------------------------------------
(***************************************************************************)
(* Snapshots, pins and journals.                                           *)
(***************************************************************************)
NoPurger == purge.pc = "idle"

\* A Hook makes, records and journals a snapshot under the global lock.
Capture(r, x) ==
    /\ NoPurger /\ at[r] # Away /\ refs[r][x] # "changed"
    /\ refs' = [refs EXCEPT ![r][x] = "exact"]
    /\ entries' = WithRef(r, x)
    /\ journaled' = journaled \cup {x}
    /\ UNCHANGED <<at, admin, locked, trees, home, scoring, moves, pins, manifest, fork, purge, lost>>

Pin(r, x) ==
    /\ NoPurger /\ at[r] # Away /\ x \in entries[r].refs /\ refs[r][x] = "exact"
    /\ entries' = WithRef(r, x)
    /\ pins' = pins \cup {<<r, x>>}
    /\ UNCHANGED <<disk, journaled, manifest, fork, purge, lost>>

Unpin(r, x) ==
    /\ NoPurger /\ <<r, x>> \in pins
    /\ pins' = pins \ {<<r, x>>}
    /\ UNCHANGED <<disk, entries, journaled, manifest, fork, purge, lost>>

\* `purge --data`, which takes no global lock.
DropJournals(x) ==
    /\ x \in journaled
    /\ journaled' = journaled \ {x}
    /\ UNCHANGED <<disk, entries, pins, manifest, fork, purge, lost>>

DropManifest(f) ==
    /\ manifest[f] # "absent"
    /\ manifest' = [manifest EXCEPT ![f] = "absent"]
    /\ UNCHANGED <<disk, entries, journaled, pins, fork, purge, lost>>

-----------------------------------------------------------------------------
(***************************************************************************)
(* fork() and the arm of an experiment.                                    *)
(***************************************************************************)
Goes(f, where) == fork' = [fork EXCEPT ![f].pc = where]

\* A purge that runs while the fork works may have looked before it.
Unseen(f) == purge' = IF NoPurger THEN purge ELSE [purge EXCEPT !.late = @ \cup {f}]

\* The journal is read: the nearest snapshot and the directory of its session.
ReadJournal(f, path, x) ==
    /\ fork[f].pc = "none" /\ x \in journaled /\ Found(path) # {}
    /\ fork' = [fork EXCEPT ![f] = [pc |-> "read", path |-> path, snap |-> x]]
    /\ UNCHANGED <<disk, entries, journaled, pins, manifest, purge, lost>>

WriteCreating(f) ==
    /\ fork[f].pc = "read"
    /\ manifest' = [manifest EXCEPT ![f] = "creating"]
    /\ Goes(f, "creating") /\ Unseen(f)
    /\ UNCHANGED <<disk, entries, journaled, pins, lost>>

\* restore_snapshot(): `git worktree add` in the repository that is at the path by now.
AddWorktree(f, r) ==
    /\ fork[f].pc = "creating" /\ r \in Found(fork[f].path)
    /\ trees' = trees \cup {f}
    /\ admin' = [admin EXCEPT ![r] = @ \cup {f}]
    /\ home' = [home EXCEPT ![f] = fork[f].path]
    /\ Goes(f, "added")
    /\ UNCHANGED <<at, refs, locked, scoring, moves, entries, journaled, pins, manifest, purge, lost>>

RecordWorktree(f, r) ==
    /\ fork[f].pc = "added" /\ f \in trees /\ r \in Found(fork[f].path) /\ OwnerOf(f) = {r}
    /\ entries' = WithTree(r, f)
    /\ Goes(f, "recorded") /\ Unseen(f)
    /\ UNCHANGED <<disk, journaled, pins, manifest, lost>>

\* A record that is refused takes the worktree with it, where Git finds it.
RollBack(f) ==
    /\ fork[f].pc = "added"
    /\ IF \E r \in Found(fork[f].path) : Removable(r, f) /\ OwnerOf(f) = {r}
       THEN \E r \in OwnerOf(f) : RemoveTree(r, f)
       ELSE UNCHANGED <<trees, admin>>
    /\ Goes(f, "failing")
    /\ UNCHANGED <<at, refs, locked, home, scoring, moves, entries, journaled, pins, manifest,
                   purge, lost>>

\* The rollout, the worktree or, after it was recorded, its fingerprint failed.
Fails(f) ==
    /\ fork[f].pc \in {"creating", "recorded"}
    /\ Goes(f, "failing")
    /\ UNCHANGED <<disk, entries, journaled, pins, manifest, purge, lost>>

WriteFailed(f) ==
    /\ fork[f].pc = "failing"
    /\ manifest' = [manifest EXCEPT ![f] = "failed"]
    /\ Goes(f, "done") /\ Unseen(f)
    /\ UNCHANGED <<disk, entries, journaled, pins, lost>>

WriteReady(f) ==
    /\ fork[f].pc = "recorded"
    /\ manifest' = [manifest EXCEPT ![f] = "ready"]
    /\ Goes(f, "ready") /\ Unseen(f)
    /\ UNCHANGED <<disk, entries, journaled, pins, lost>>

\* _protected_worktree(): the arm's agent works in a locked worktree,
ProtectArm(f) ==
    /\ fork[f].pc = "ready"
    /\ \E r \in OwnerOf(f) : f \in trees \ scoring /\ locked' = [locked EXCEPT ![r] = @ \cup {f}]
    /\ Goes(f, "running")
    /\ UNCHANGED <<at, refs, admin, trees, home, scoring, moves, entries, journaled, pins,
                   manifest, purge, lost>>

\* stabilize(): and its work is judged in a repository of the scorer's.
ScoreArm(f) ==
    /\ fork[f].pc = "running" /\ f \in trees
    /\ scoring' = scoring \cup {f}
    /\ Goes(f, "judged")
    /\ UNCHANGED <<at, refs, admin, locked, trees, home, moves, entries, journaled, pins,
                   manifest, purge, lost>>

RestoreArm(f) ==
    /\ fork[f].pc \in {"running", "judged"}
    /\ scoring' = scoring \ {f}
    /\ locked' = [r \in Repos |-> IF f \in trees /\ r \in OwnerOf(f) THEN locked[r] \ {f} ELSE locked[r]]
    /\ Goes(f, "ended")
    /\ UNCHANGED <<at, refs, admin, trees, home, moves, entries, journaled, pins, manifest,
                   purge, lost>>

\* Through the worktree's own .git: _cleanup() of an arm, `prune --forks` of every fork.
RemoveThroughItself(f) ==
    IF f \in trees /\ \E r \in OwnerOf(f) : Removable(r, f)
    THEN \E r \in OwnerOf(f) : RemoveTree(r, f)
    ELSE UNCHANGED <<trees, admin>>

CleanUpArm(f) ==
    /\ fork[f].pc \in {"ready", "ended"}
    /\ RemoveThroughItself(f)
    /\ Goes(f, "done")
    /\ UNCHANGED <<at, refs, locked, home, scoring, moves, entries, journaled, pins, manifest,
                   purge, lost>>

PruneFork(f) ==
    /\ f \in trees
    /\ RemoveThroughItself(f)
    /\ UNCHANGED <<at, refs, locked, home, scoring, moves, entries, journaled, pins, manifest,
                   fork, purge, lost>>

\* Killed, or done: `spotter fork` leaves its worktree to be used.
ForkDies(f) ==
    /\ fork[f].pc \notin {"none", "done"}
    /\ Goes(f, "done")
    /\ lost' = IF fork[f].pc = "added" THEN lost \cup {f} ELSE lost
    /\ UNCHANGED <<disk, entries, journaled, pins, manifest, purge>>

-----------------------------------------------------------------------------
(***************************************************************************)
(* `spotter purge --snapshots`, and as the last scope of `purge --all`.    *)
(***************************************************************************)
PurgeBegins ==
    /\ NoPurger
    /\ Keys(entries) = {} => pins = {}
    /\ purge' = [NoPurge EXCEPT !.pc = "trees", !.entries = entries,
        !.todo = {k \in Repos \X Forks :
                      k[2] \in entries[k[1]].trees /\ TreePresent(entries, k[1], k[2])}]
    /\ UNCHANGED <<disk, entries, journaled, pins, manifest, fork, lost>>

\* _remove_owned_worktree().
PurgeTree(r, f) ==
    /\ purge.pc = "trees" /\ <<r, f>> \in purge.todo
    /\ IF Removable(r, f) THEN RemoveTree(r, f) ELSE UNCHANGED <<trees, admin>>
    /\ purge' = [purge EXCEPT !.todo = @ \ {<<r, f>>}, !.failed = @ \/ ~Removable(r, f)]
    /\ UNCHANGED <<at, refs, locked, home, scoring, moves, entries, journaled, pins, manifest,
                   fork, lost>>

\* Everything recorded when it began is inspected again, and reachability computed again.
PurgeLooks ==
    /\ purge.pc = "trees" /\ purge.todo = {}
    /\ purge' = [purge EXCEPT !.pc = "refs", !.doomed = {k \in Keys(purge.entries) :
        RefPresent(purge.entries, k[1], k[2]) /\ Unreferenced(purge.entries, k[1], k[2])}]
    /\ UNCHANGED <<disk, entries, journaled, pins, manifest, fork, lost>>

\* _remove_owned_ref(): only while it has the recorded target.
PurgeRef(r, x) ==
    /\ purge.pc = "refs" /\ <<r, x>> \in purge.doomed
    /\ refs' = IF refs[r][x] = "exact" THEN [refs EXCEPT ![r][x] = "absent"] ELSE refs
    /\ purge' = [purge EXCEPT !.doomed = @ \ {<<r, x>>}, !.failed = @ \/ refs[r][x] # "exact"]
    /\ UNCHANGED <<at, admin, locked, trees, home, scoring, moves, entries, journaled, pins,
                   manifest, fork, lost>>

\* `purge --all` goes on to the registry if nothing failed and nothing is left.
PurgeRefsDone(all) ==
    /\ purge.pc = "refs" /\ purge.doomed = {}
    /\ purge' = IF all /\ ~purge.failed /\ Exhausted(purge.entries)
                THEN [purge EXCEPT !.pc = "registry"] ELSE NoPurge
    /\ UNCHANGED <<disk, entries, journaled, pins, manifest, fork, lost>>

\* Mutant: what was inspected before the registry's lock was taken is enough.
SpentBefore == TRUE

\* A fork may have recorded a worktree in the meantime.
Spent == Exhausted(entries)

\* _remove_repository_registry().
PurgeRegistry ==
    /\ purge.pc = "registry"
    /\ entries' = IF Spent THEN [r \in Repos |-> Unrecorded] ELSE entries
    /\ purge' = NoPurge
    /\ UNCHANGED <<disk, journaled, pins, manifest, fork, lost>>

PurgeDies ==
    /\ ~NoPurger
    /\ purge' = NoPurge
    /\ UNCHANGED <<disk, entries, journaled, pins, manifest, fork, lost>>

-----------------------------------------------------------------------------
(***************************************************************************)
(* The user.  Repositories are not moved in the seconds a purge takes.     *)
(***************************************************************************)
Acts == moves < MaxMoves /\ moves' = moves + 1
Unfinished == {f \in Forks : fork[f].pc = "added"}
ByUser == UNCHANGED <<entries, journaled, pins, manifest, fork, purge>>

Move(r, path) ==
    /\ NoPurger /\ at[r] # Away /\ Found(path) = {} /\ path # at[r] /\ Acts
    /\ at' = [at EXCEPT ![r] = path]
    /\ lost' = lost \cup Unfinished
    /\ UNCHANGED <<refs, admin, locked, trees, home, scoring>> /\ ByUser

\* `cp -r`: another inode with the same refs and administrative directories.
Copy(r, copy, path) ==
    /\ NoPurger /\ at[r] # Away /\ at[copy] = Away /\ path # Away /\ Found(path) = {} /\ Acts
    /\ entries[copy] = Unrecorded
    /\ at' = [at EXCEPT ![copy] = path]
    /\ refs' = [refs EXCEPT ![copy] = refs[r]]
    /\ admin' = [admin EXCEPT ![copy] = admin[r]]
    /\ locked' = [locked EXCEPT ![copy] = locked[r]]
    /\ UNCHANGED <<trees, home, scoring, lost>> /\ ByUser

ChangeRef(r, x) ==
    /\ refs[r][x] = "exact" /\ Acts
    /\ \E new \in {"absent", "changed"} : refs' = [refs EXCEPT ![r][x] = new]
    /\ UNCHANGED <<at, admin, locked, trees, home, scoring, lost>> /\ ByUser

DeleteTree(f) ==
    /\ f \in trees /\ Acts
    /\ trees' = trees \ {f} /\ scoring' = scoring \ {f}
    /\ UNCHANGED <<at, refs, admin, locked, home, lost>> /\ ByUser

ForkNext ==
    \/ \E r \in Repos, x \in Snapshots :
          \/ Capture(r, x) \/ Pin(r, x) \/ Unpin(r, x)
          \/ PurgeRef(r, x) \/ ChangeRef(r, x)
    \/ \E x \in Snapshots : DropJournals(x)
    \/ \E f \in Forks :
          \/ DropManifest(f)
          \/ \E path \in Places, x \in Snapshots : ReadJournal(f, path, x)
          \/ WriteCreating(f)
          \/ \E r \in Repos : AddWorktree(f, r) \/ RecordWorktree(f, r) \/ PurgeTree(r, f)
          \/ RollBack(f) \/ Fails(f) \/ WriteFailed(f) \/ WriteReady(f)
          \/ ProtectArm(f) \/ ScoreArm(f) \/ RestoreArm(f) \/ CleanUpArm(f)
          \/ PruneFork(f) \/ ForkDies(f) \/ DeleteTree(f)
    \/ PurgeBegins \/ PurgeLooks \/ PurgeRegistry \/ PurgeDies
    \/ \E all \in BOOLEAN : PurgeRefsDone(all)
    \/ \E r \in Repos : \E path \in Places \cup {Away} : Move(r, path)
    \/ \E r, copy \in Repos, path \in Places : Copy(r, copy, path)

ForkSpec == ForkInit /\ [][ForkNext]_forkVars

-----------------------------------------------------------------------------
(***************************************************************************)
(* Properties.                                                             *)
(***************************************************************************)

ForkTypeOK ==
    /\ at \in [Repos -> Places \cup {Away}]
    /\ refs \in [Repos -> [Snapshots -> {"absent", "exact", "changed"}]]
    /\ admin \in [Repos -> SUBSET Forks] /\ locked \in [Repos -> SUBSET Forks]
    /\ trees \in SUBSET Forks /\ scoring \in SUBSET Forks
    /\ home \in [Forks -> Places \cup {Away}]
    /\ moves \in 0..MaxMoves
    /\ entries \in [Repos -> [path : Places \cup {Away}, refs : SUBSET Snapshots,
                              trees : SUBSET Forks]]
    /\ journaled \in SUBSET Snapshots /\ pins \in SUBSET (Repos \X Snapshots)
    /\ manifest \in [Forks -> {"absent", "creating", "failed", "ready"}]
    /\ fork \in [Forks -> [pc : {"none", "read", "creating", "added", "recorded", "failing",
                                 "ready", "running", "judged", "ended", "done"},
                           path : Places \cup {Away}, snap : Snapshots \cup {Away}]]
    /\ purge.pc \in {"idle", "trees", "refs", "registry"}
    /\ lost \in SUBSET Forks

\* What purge deletes is a ref the registry has for that very repository, at its recorded
\* target, that no pin and no journal names, and no manifest or worktree of a fork that did not
\* overtake the purge: "A failed worktree removal keeps its ref referenced"
\* (docs/lifecycle.md:1616-1620).  A copy of a repository keeps its refs.
PurgeIsExact == [][\A r \in Repos, x \in Snapshots :
    purge.pc = "refs" /\ refs[r][x] # "absent" /\ refs'[r][x] = "absent" /\ moves' = moves =>
        /\ x \in entries[r].refs /\ refs[r][x] = "exact"
        /\ <<r, x>> \notin pins /\ x \notin journaled
        /\ \A f \in Forks \ purge.late :
              fork[f].snap = x => /\ manifest[f] = "absent"
                                  /\ f \in trees => f \notin entries[r].trees]_forkVars

\* A worktree Spotter made and that is there is in the registry, which is how purge will ever
\* find it: no repository moved, copied or put in its place hides it, and no purge forgets it.
WorktreesRecorded == \A f \in trees \ lost :
    fork[f].pc \notin {"added", "failing"} => \E r \in Repos : f \in admin[r] /\ f \in entries[r].trees

\* `prune --forks` says it removes "orphaned fork worktrees" (cli.py:539).  Violated: it removes
\* every fork worktree, the one of a fork that has just become ready included.
PruneRemovesOrphansOnly == [][\A f \in Forks :
    f \in trees /\ f \notin trees' /\ fork' = fork /\ purge.pc = "idle" /\ moves' = moves =>
        fork[f].pc \notin {"recorded", "ready", "ended"}]_forkVars

=============================================================================
