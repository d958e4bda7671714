--------------------------- MODULE MCSnapshotStore ---------------------------
(***************************************************************************)
(* Small instances of SnapshotStore.                                       *)
(***************************************************************************)
EXTENDS SnapshotStore, TLC

CONSTANTS s1, w1, w2

\* Two writers of one session: two Hooks, or a Hook and the daemon's ingestor.
MCSessionOf == w1 :> s1 @@ w2 :> s1

MCSymmetry == Permutations(Snapshots) \cup Permutations(Writers)
=============================================================================
