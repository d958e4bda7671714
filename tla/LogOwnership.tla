----------------------------- MODULE LogOwnership -----------------------------
(***************************************************************************)
(* LogRegistry (src/spotter/log_registry.py): the daemon's and the         *)
(* reviewers' logs are claimed by the processes that open them, and        *)
(* cleared by `spotter purge --logs`.  A claim is an entry of              *)
(* ownership.json and a private hard link to the log, its identity anchor, *)
(* that keeps the inode allocated.                                         *)
(*                                                                         *)
(* A claim is a sequence of file operations under the registry's lock; the *)
(* user, who knows of no lock, deletes, rotates and restores the files in  *)
(* between, and a claiming process may be killed at any of them.  A freed  *)
(* inode is used again.                                                    *)
(***************************************************************************)
EXTENDS Integers, FiniteSets, FiniteSetsExt

CONSTANTS
    Logs,      \* resource ids, each of one path: spotterd, review:<session>
    Proc,      \* processes that claim a log and write to it, or purge the logs
    Inodes,
    MaxGen     \* bound: claims recorded

NoInode == "none"

ASSUME LogAssumption ==
    /\ IsFiniteSet(Logs) /\ IsFiniteSet(Proc) /\ IsFiniteSet(Inodes)
    /\ MaxGen \in Nat
    /\ NoInode \notin Inodes

VARIABLES
    \* the log directory
    path,       \* the inode at each log's path
    anchor,     \* the inode at the identity path of each generation_id
    maker,      \* who created the file an inode holds
    bytes,      \* inodes whose file is not empty
    \* ownership.json
    records,    \* the OwnedLog entries
    generation, \* identities made so far
    lock,       \* who holds the registry's lock
    \* the processes
    pc,         \* where each process is in claim() or in `purge --logs`
    log,        \* the log it claims
    seen,       \* the registry it loaded
    made,       \* the inode it created, and then the identity it linked to it
    plan,       \* the entries it is going to clear
    fd,         \* the inode it writes to
    \* observer
    raced       \* has the user made a file while a claim was being recorded?

files == <<path, anchor, maker, bytes>>
registry == <<records, generation>>
process == <<pc, log, seen, made, plan, fd>>
vars == <<files, registry, lock, process, raced>>

Generations == 1..MaxGen
Records == [id : Logs, gen : Generations, inode : Inodes]
Unmade == [inode |-> NoInode, gen |-> 0]

Init ==
    /\ path = [l \in Logs |-> NoInode]
    /\ anchor = [g \in Generations |-> NoInode]
    /\ maker = [i \in Inodes |-> NoInode]
    /\ bytes = {}
    /\ records = {} /\ generation = 0 /\ lock = {}
    /\ pc = [p \in Proc |-> "idle"]
    /\ log \in [Proc -> {CHOOSE l \in Logs : TRUE}]
    /\ seen = [p \in Proc |-> {}]
    /\ made = [p \in Proc |-> Unmade]
    /\ plan = [p \in Proc |-> {}]
    /\ fd = [p \in Proc |-> NoInode]
    /\ raced = FALSE

\* load() accepts: one entry for each resource, and so for each path and identity.
Readable(r) == \A a, b \in r : a.id = b.id => a = b

\* No name and no open file refers to the inode.
Free(i) ==
    /\ \A l \in Logs : path[l] # i
    /\ \A g \in Generations : anchor[g] # i
    /\ \A p \in Proc : fd[p] # i

-----------------------------------------------------------------------------
(***************************************************************************)
(* claim().                                                                *)
(***************************************************************************)
Existing(p) == {r \in seen[p] : r.id = log[p]}
Target(p) == path[log[p]]

\* _anchor_status(): the anchor is there and is the recorded inode.
Anchored(r) == anchor[r.gen] = r.inode

Goto(p, where) == pc' = [pc EXCEPT ![p] = where]
Claiming == {"claim", "create", "created", "link", "save"}

\* claim() returns: the lock is released, and the caller goes on to open the path.
Answer(p, owned) ==
    /\ Goto(p, IF owned THEN "granted" ELSE "refused")
    /\ lock' = {}
    /\ UNCHANGED <<log, seen, plan, fd>>
    /\ made' = [made EXCEPT ![p] = Unmade]

BeginClaim(p, l) ==
    /\ pc[p] = "idle" /\ lock = {}
    /\ log' = [log EXCEPT ![p] = l]
    /\ IF Readable(records)
       THEN /\ lock' = {p} /\ seen' = [seen EXCEPT ![p] = records] /\ Goto(p, "claim")
       ELSE Goto(p, "refused") /\ UNCHANGED <<lock, seen>>
    /\ UNCHANGED <<files, registry, raced, made, plan, fd>>

\* The path exists: it is ours only if recorded, anchored and the recorded inode.
Verify(p) ==
    /\ pc[p] = "claim" /\ Target(p) # NoInode
    /\ Answer(p, \E r \in Existing(p) : Anchored(r) /\ r.inode = Target(p))
    /\ UNCHANGED <<files, registry, raced>>

\* The path is gone, the identity is not: the path gets a link to it again, or something was
\* put there in the meantime.
Relink(p) ==
    /\ pc[p] = "claim" /\ Target(p) = NoInode
    /\ \E r \in Existing(p) : Anchored(r) /\ path' = [path EXCEPT ![log[p]] = r.inode]
    /\ Answer(p, TRUE)
    /\ UNCHANGED <<anchor, maker, bytes, registry, raced>>

\* The anchor is some other file, or the link could not be made.
RelinkRefused(p) ==
    /\ pc[p] = "claim" /\ Target(p) = NoInode
    /\ \E r \in Existing(p) : anchor[r.gen] # NoInode
    /\ Answer(p, FALSE)
    /\ UNCHANGED <<files, registry, raced>>

\* Neither path nor anchor: a new log is created below.
ClaimNew(p) ==
    /\ pc[p] = "claim" /\ Target(p) = NoInode
    /\ \A r \in Existing(p) : anchor[r.gen] = NoInode
    /\ Goto(p, "create")
    /\ UNCHANGED <<files, registry, raced, lock, log, seen, made, plan, fd>>

\* _create(): O_EXCL, then stat.  What was put there since the first stat is an error.
Create(p) ==
    /\ pc[p] = "create" /\ Target(p) = NoInode
    /\ \E i \in {j \in Inodes : Free(j)} :
          /\ path' = [path EXCEPT ![log[p]] = i]
          /\ maker' = [maker EXCEPT ![i] = "spotter"]
          /\ bytes' = bytes \ {i}
    /\ Goto(p, "created")
    /\ UNCHANGED <<anchor, registry, raced, lock, log, seen, made, plan, fd>>

CreateRefused(p) ==
    /\ pc[p] = "create" /\ Target(p) # NoInode
    /\ Answer(p, FALSE)
    /\ UNCHANGED <<files, registry, raced>>

\* The status of the new file is read by its path, not from the descriptor that made it.
Stat(p) ==
    /\ pc[p] = "created"
    /\ IF Target(p) = NoInode
       THEN Answer(p, FALSE)
       ELSE /\ made' = [made EXCEPT ![p] = [inode |-> Target(p), gen |-> 0]]
            /\ Goto(p, "link")
            /\ UNCHANGED <<lock, log, seen, plan, fd>>
    /\ UNCHANGED <<files, registry, raced>>

\* A second name for whatever the path is now, which the user may have replaced.
Link(p) ==
    /\ pc[p] = "link" /\ generation < MaxGen
    /\ IF Target(p) = NoInode
       THEN Answer(p, FALSE) /\ UNCHANGED <<anchor, generation>>
       ELSE /\ generation' = generation + 1
            /\ anchor' = [anchor EXCEPT ![generation + 1] = Target(p)]
            /\ made' = [made EXCEPT ![p].gen = generation + 1]
            /\ Goto(p, "save")
            /\ UNCHANGED <<lock, log, seen, plan, fd>>
    /\ UNCHANGED <<path, maker, bytes, records, raced>>

\* The claimed entry takes the place of the resource's earlier one.
Replaced(p, entry) == (seen[p] \ Existing(p)) \cup {entry}

Save(p) ==
    /\ pc[p] = "save"
    /\ records' = Replaced(p, [id |-> log[p], gen |-> made[p].gen, inode |-> made[p].inode])
    /\ Answer(p, TRUE)
    /\ UNCHANGED <<files, generation, raced>>

\* The process opens its log for appending whatever the claim said, creating it if need be.
Open(p) ==
    /\ pc[p] \in {"granted", "refused"}
    /\ \E i \in Inodes :
          /\ IF Target(p) = NoInode
             THEN /\ Free(i)
                  /\ path' = [path EXCEPT ![log[p]] = i]
                  /\ maker' = [maker EXCEPT ![i] = "spotter"]
                  /\ bytes' = bytes \ {i}
             ELSE i = Target(p) /\ UNCHANGED <<path, maker, bytes>>
          /\ fd' = [fd EXCEPT ![p] = i]
    /\ Goto(p, "writing")
    /\ UNCHANGED <<anchor, registry, raced, lock, log, seen, made, plan>>

Append(p) ==
    /\ pc[p] = "writing"
    /\ bytes' = bytes \cup {fd[p]}
    /\ UNCHANGED <<path, anchor, maker, registry, raced, lock, process>>

\* A process ends or is killed, with it the lock and what it remembered.
Exit(p) ==
    /\ pc[p] # "idle"
    /\ Goto(p, "idle")
    /\ lock' = lock \ {p}
    /\ seen' = [seen EXCEPT ![p] = {}]
    /\ made' = [made EXCEPT ![p] = Unmade]
    /\ plan' = [plan EXCEPT ![p] = {}]
    /\ fd' = [fd EXCEPT ![p] = NoInode]
    /\ UNCHANGED <<files, registry, raced, log>>

-----------------------------------------------------------------------------
(***************************************************************************)
(* `spotter purge --logs`.                                                 *)
(***************************************************************************)

\* inspect(): what is SAFE_OWNED and has anything to clear.
Clearable(r) == Anchored(r) /\ r.inode \in bytes

\* The plan is made from an inspection without the lock.
Plan(p) ==
    /\ pc[p] = "idle" /\ Readable(records)
    /\ plan' = [plan EXCEPT ![p] = {r \in records : Clearable(r)}]
    /\ Goto(p, "purging")
    /\ UNCHANGED <<files, registry, raced, lock, log, seen, made, fd>>

\* Mutant: the log is opened by its public path.
ByPath(r) == path[r.id]

\* The inode clear() truncates: an entry still recorded, opened by its identity path.
Opened(r) == anchor[r.gen]

Clear(p, r) ==
    /\ pc[p] = "purging" /\ r \in plan[p] /\ lock = {}
    /\ bytes' = IF Readable(records) /\ r \in records /\ Anchored(r) THEN bytes \ {Opened(r)} ELSE bytes
    /\ plan' = [plan EXCEPT ![p] = @ \ {r}]
    /\ UNCHANGED <<path, anchor, maker, registry, raced, lock, pc, log, seen, made, fd>>

-----------------------------------------------------------------------------
(***************************************************************************)
(* The user, at any moment.                                                *)
(***************************************************************************)
Outside == UNCHANGED <<registry, lock, process>>

Recording == \E p \in Proc : pc[p] \in {"created", "link", "save"}

UserDeletes(l) ==
    /\ path[l] # NoInode
    /\ path' = [path EXCEPT ![l] = NoInode]
    /\ UNCHANGED <<anchor, maker, bytes, raced>> /\ Outside

\* A file of the user's at the log's path: an older log, a rotated one, a copy.
UserReplaces(l) ==
    /\ \E i \in {j \in Inodes : Free(j)} :
          /\ path' = [path EXCEPT ![l] = i]
          /\ maker' = [maker EXCEPT ![i] = "user"]
          /\ bytes' = bytes \cup {i}
          /\ raced' = (raced \/ Recording)
    /\ UNCHANGED anchor /\ Outside

UserDeletesAnchor(g) ==
    /\ anchor[g] # NoInode
    /\ anchor' = [anchor EXCEPT ![g] = NoInode]
    /\ UNCHANGED <<path, maker, bytes, raced>> /\ Outside

\* A copy of the directory is restored: the identity has its name and another inode.
UserRestoresAnchor(g) ==
    /\ anchor[g] # NoInode
    /\ \E i \in {j \in Inodes : Free(j)} :
          /\ anchor' = [anchor EXCEPT ![g] = i]
          /\ maker' = [maker EXCEPT ![i] = "copy"]
          /\ bytes' = bytes \cup {i}
          /\ raced' = (raced \/ Recording)
    /\ UNCHANGED path /\ Outside

Next ==
    \/ \E p \in Proc :
          \/ \E l \in Logs : BeginClaim(p, l)
          \/ Verify(p) \/ Relink(p) \/ RelinkRefused(p) \/ ClaimNew(p)
          \/ Create(p) \/ CreateRefused(p) \/ Stat(p) \/ Link(p) \/ Save(p)
          \/ Open(p) \/ Append(p) \/ Exit(p)
          \/ Plan(p)
          \/ \E r \in Records : Clear(p, r)
    \/ \E l \in Logs : UserDeletes(l) \/ UserReplaces(l)
    \/ \E g \in Generations : UserDeletesAnchor(g) \/ UserRestoresAnchor(g)

Spec == Init /\ [][Next]_vars

-----------------------------------------------------------------------------
(***************************************************************************)
(* Properties.                                                             *)
(***************************************************************************)

TypeOK ==
    /\ path \in [Logs -> Inodes \cup {NoInode}]
    /\ anchor \in [Generations -> Inodes \cup {NoInode}]
    /\ maker \in [Inodes -> {NoInode, "spotter", "user", "copy"}]
    /\ bytes \in SUBSET Inodes
    /\ records \in SUBSET Records /\ generation \in 0..MaxGen
    /\ lock \in SUBSET Proc /\ Cardinality(lock) <= 1
    /\ pc \in [Proc -> Claiming \cup {"idle", "granted", "refused", "writing", "purging"}]
    /\ log \in [Proc -> Logs]
    /\ seen \in [Proc -> SUBSET Records]
    /\ made \in [Proc -> [inode : Inodes \cup {NoInode}, gen : 0..MaxGen]]
    /\ plan \in [Proc -> SUBSET Records]
    /\ fd \in [Proc -> Inodes \cup {NoInode}]
    /\ raced \in BOOLEAN

\* A file the user made is emptied by nobody: an inode used again, a replaced path or a
\* restored directory never makes it look owned (docs/lifecycle.md:1625-1627, clear()).  Not
\* so for one put at the path while its claim was being recorded: see RacedFilesKept.
UserFilesKept == [][~raced => \A i \in Inodes :
    maker[i] = "user" /\ i \in bytes /\ maker'[i] = "user" => i \in bytes']_vars

\* The documentation's sentence: a replaced log remains unowned.  Violated: the new log is
\* looked at by its path after its descriptor was closed (log_registry.py:453-456), and what
\* the user put there in between is recorded and later emptied.
RacedFilesKept == [][\A i \in Inodes :
    maker[i] = "user" /\ i \in bytes /\ maker'[i] = "user" => i \in bytes']_vars

=============================================================================
