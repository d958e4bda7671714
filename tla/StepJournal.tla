----------------------------- MODULE StepJournal -----------------------------
(***************************************************************************)
(* StepJournal (src/spotter/snapshot.py): an append-only JSONL file, the   *)
(* sidecar that caches what its next record needs, and the processes and   *)
(* threads that append to it under the lock of the journal.                *)
(*                                                                         *)
(* The file is a sequence of pieces.  An append that finishes leaves a     *)
(* whole record and its newline; one that a crash cuts leaves a torn       *)
(* fragment, or all of the record without its newline (bare).  What is     *)
(* appended after a piece with no newline is on the same line.  The bytes  *)
(* are left out: Size distinguishes any two files an append-only file with *)
(* repairs can be.                                                         *)
(***************************************************************************)
EXTENDS Naturals, Sequences, FiniteSets, SequencesExt

CONSTANTS
    Writers,        \* who may append
    MaxRecords,     \* bound: pieces of the file
    MaxCrashes,     \* bound: crashes
    Nobody, NoSidecar, NoEvent

ASSUME JournalAssumption ==
    /\ Nobody \notin Writers
    /\ MaxRecords \in Nat /\ MaxCrashes \in Nat

VARIABLES
    file,       \* the pieces of the journal
    sidecar,    \* the .state file
    lock,       \* who holds the .lock file
    doing,      \* what each writer is doing
    acked,      \* observer: the records that record() has returned
    crashes     \* observer: crashes so far

journalVars == <<file, sidecar, lock, doing, acked, crashes>>

Idle == [at |-> "idle", event |-> NoEvent, snap |-> FALSE, steps |-> 0, last |-> 0]

JournalInit ==
    /\ file = <<>>
    /\ sidecar = NoSidecar
    /\ lock = Nobody
    /\ doing = [w \in Writers |-> Idle]
    /\ acked = {}
    /\ crashes = 0

-----------------------------------------------------------------------------
(***************************************************************************)
(* Reading.                                                                *)
(***************************************************************************)
Ends(f) == {i \in DOMAIN f : f[i].form = "whole"}      \* where a line ends
Records(f) == {i \in DOMAIN f : f[i].form # "torn"}    \* where a record is complete

\* Some bytes, the rest of the record, and its newline.
Size(f) == Len(f) + Cardinality(Records(f)) + Cardinality(Ends(f))

LineStart(f) == SelectLastInSeq(f, LAMBDA piece : piece.form = "whole")

\* json.loads of a line with two records on it fails, and the line ends in a newline.
Glued(f) == \E i \in Ends(f) : i > 1 /\ f[i - 1].form # "whole"

\* The last line, when it has no newline, counts when it is one whole record.
KeptOneLess(f) == SubSeq(f, 1, LineStart(f) - 1)   \* mutant: the newline before is taken for the last
Kept(f) == IF Len(f) = LineStart(f) + 1 /\ Last(f).form = "bare" THEN f
           ELSE SubSeq(f, 1, LineStart(f))
Misnumbered(f) == \E i \in DOMAIN Kept(f) : Kept(f)[i].step # i - 1

Readable(f) == ~Glued(f) /\ ~Misnumbered(f)
StrictlyReadable(f) == Readable(f) /\ Kept(f) = f

\* Where the last record that names a snapshot is: 0 when there is none.
LastSnapshot(f) == SelectLastInSeq(f, LAMBDA piece : piece.snap)
Summary(f) == [size |-> Size(f), steps |-> Len(f), last |-> LastSnapshot(f)]
Fresh == file # <<>> /\ sidecar # NoSidecar /\ sidecar.size = Size(file)

-----------------------------------------------------------------------------
(***************************************************************************)
(* record().                                                               *)
(***************************************************************************)
\* The lock is taken and the state of the journal read: from the sidecar when its size is that
\* of the file, else from the file, whose torn tail is cut off.
Open(w, event, snap) ==
    /\ doing[w].at = "idle" /\ lock = Nobody
    /\ Len(file) < MaxRecords
    /\ Fresh \/ Readable(file)
    /\ lock' = w
    /\ file' = IF Fresh THEN file ELSE Kept(file)
    /\ LET known == IF Fresh THEN sidecar ELSE Summary(Kept(file))
       IN  doing' = [doing EXCEPT ![w] = [at |-> "opened", event |-> event, snap |-> snap,
                                          steps |-> known.steps, last |-> known.last]]
    /\ UNCHANGED <<sidecar, acked, crashes>>

\* A journal that cannot be loaded raises SnapshotError, and nothing changes.
Refuses(w) == doing[w].at = "idle" /\ lock = Nobody /\ ~Fresh /\ ~Readable(file)

Piece(w, form) == [form |-> form, step |-> doing[w].steps,
                   event |-> doing[w].event, snap |-> doing[w].snap]

Write(w) ==
    /\ doing[w].at = "opened"
    /\ file' = Append(file, Piece(w, "whole"))
    /\ doing' = [doing EXCEPT ![w].at = "written"]
    /\ UNCHANGED <<sidecar, lock, acked, crashes>>

\* Mutant: the record's own snapshot is not the last one.
DescribedLate(w) == [size |-> Size(file), steps |-> doing[w].steps + 1, last |-> doing[w].last]

Described(w) == [size |-> Size(file), steps |-> doing[w].steps + 1,
                 last |-> IF doing[w].snap THEN doing[w].steps + 1 ELSE doing[w].last]

\* The sidecar is replaced atomically, the lock released and the record returned.
Cache(w) ==
    /\ doing[w].at = "written"
    /\ sidecar' = Described(w)
    /\ lock' = Nobody
    /\ acked' = acked \cup {Piece(w, "whole")}
    /\ doing' = [doing EXCEPT ![w].at = "returned"]
    /\ UNCHANGED <<file, crashes>>

\* What an append that is cut leaves in the file.
Cuts(w) == IF doing[w].at # "opened" THEN {file}
           ELSE {file} \cup {Append(file, Piece(w, form)) : form \in {"torn", "bare"}}

\* Writers in `dead` stop at once, which releases the lock they hold.
Die(dead) ==
    /\ crashes < MaxCrashes
    /\ crashes' = crashes + 1
    /\ file' \in IF lock \in dead THEN Cuts(lock) ELSE {file}
    /\ lock' = IF lock \in dead THEN Nobody ELSE lock
    /\ doing' = [w \in Writers |-> IF w \in dead THEN Idle ELSE doing[w]]
    /\ UNCHANGED <<sidecar, acked>>

\* A Hook appends one record and exits.
Leave(w) ==
    /\ doing[w].at = "returned"
    /\ doing' = [doing EXCEPT ![w] = Idle]
    /\ UNCHANGED <<file, sidecar, lock, acked, crashes>>

-----------------------------------------------------------------------------
(***************************************************************************)
(* Properties.                                                             *)
(***************************************************************************)
\* A sidecar that passes the size check describes the file as it is: its step number is the
\* next one, and the snapshot it names is the last one (_load_state_cache()).
SidecarTruthful ==
    Fresh => sidecar = Summary(file)

\* Repairing a tail, and whatever crashes leave, never takes away a record that record()
\* returned to its caller.
AcknowledgedKept ==
    \A record \in acked : \E i \in DOMAIN file : file[i] = record

\* A crash in an append leaves a journal that the next process can load: "crash mid-write
\* leaves a bad tail; the prefix is still valid" (StepJournal.load()).
CrashLeavesReadable == Readable(file)
=============================================================================
