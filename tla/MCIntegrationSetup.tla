-------------------------- MODULE MCIntegrationSetup --------------------------
(***************************************************************************)
(* Small instances of IntegrationSetup.  `asked` is the only mode a user   *)
(* of this behaviour asks for, unless users may switch.                    *)
(***************************************************************************)
EXTENDS IntegrationSetup, TLC

CONSTANT Switch

Symmetry == Permutations(Proc)

VARIABLE asked
mcVars == <<vars, asked>>

MCInit == Init /\ asked \in Modes

MCNext ==
    /\ Next
    /\ \A p \in Proc : tx'[p].at = "setup" => tx'[p].mode = asked \/ Switch
    /\ UNCHANGED asked

MCSpec == MCInit /\ [][MCNext]_mcVars
=============================================================================
