-------------------------- MODULE MCRuntimeControl --------------------------
(* One advisory or one interrupt against two turns, a reconnect and a restart. *)
(* The two kinds share no state but the queue and the ids, so a behaviour      *)
(* dispatches controls of one kind: every interleaving of each is explored,    *)
(* and not the product of both.                                                *)
EXTENDS RuntimeControl

Dispatched(C) == \E c \in C : target[c].turn # NoTurn

OneKindSpec == Init /\ [][Next /\ ~(Dispatched(Steers) /\ Dispatched(Interrupts))']_vars
OneKindFairSpec == OneKindSpec /\ \A c \in Interrupts : WF_vars(Expire(c))
=============================================================================
