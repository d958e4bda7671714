------------------------------ MODULE MCOwnership ------------------------------
(***************************************************************************)
(* Small instances of LogOwnership and ForkOwnership.  `focus` says what   *)
(* an instance is about: "logs"; "forks" (two of them and a purge, in a    *)
(* repository that stays where it is and has no pins) or "moves" (one      *)
(* fork, a repository and its copy).                                       *)
(***************************************************************************)
EXTENDS LogOwnership, ForkOwnership, TLC

CONSTANTS a, here, f, g

VARIABLE focus
mcVars == <<vars, forkVars, focus>>

MCInit ==
    /\ Init /\ ForkInit /\ at[a] = here
    /\ focus \in {"logs", "forks", "moves"}

LogsNext == focus = "logs" /\ Next /\ UNCHANGED forkVars

ForksNext ==
    /\ focus \in {"forks", "moves"}
    /\ ForkNext
    /\ focus = "forks" => moves' = 0 /\ pins' = {} /\ fork'[g].pc \notin {"running", "judged"}
    /\ focus = "moves" => fork'[g] = fork[g]
    /\ UNCHANGED vars

MCSpec == MCInit /\ [][(LogsNext \/ ForksNext) /\ UNCHANGED focus]_mcVars

Symmetries == Permutations(Proc) \cup Permutations(Inodes)

=============================================================================
